# A verification of the NEMU emulator and its kernel

The repository holds a course's labs on computer systems. Its program is the
Programming Assignment under `src/PA/pa_nju`: NEMU, an emulator of a 32-bit x86
machine with devices and a debugger; a small kernel that runs on it; and guest
programs (test cases, a typing game, a port of PAL). This directory models NEMU
and the kernel where their state is hard to get right: the interrupt path, the
kernel's disk driver, the data cache, the debugger, the sound card, the
kernel's memory over NEMU's address translation, the processor's integer and
floating-point instructions with the kernel's entry code, and a guest program
that lives on interrupts, the typing game.

Paths below leave out `src/PA/pa_nju/`. `PROJECT.json` gives, for every
definition, the source lines it stands for.

## 1. Inventory

### Components

| component | source | state | operations |
|---|---|---|---|
| interrupt path | `nemu/src/device/i8259_pic.c`, `cpu/cpu.c` (`do_intr`), `cpu/intr.c`, `device/dev/timer.c`, `keyboard.c` | `i8259_intr_no` (one slot), `cpu.intr` (the pin), `i8259_mutex`, `eflags.IF`, `is_nemu_hlt` | `i8259_raise_intr`, `i8259_query_intr_no`, `i8259_ack_intr`, `raise_intr`, `do_devices`, `hlt`, `sti`, `cli`, `iret` |
| kernel disk driver | `kernel/src/driver/ide/*.c`, `nemu/src/device/dev/ide.c` | the sector cache, `has_ide_intr`, `counter`; the device's ports, direction, byte count, file position | `ide_read`, `ide_write`, `cache_fetch`, `disk_do_read`, `disk_do_write`, `ide_writeback`, `ide_intr`, `handler_ide` |
| data cache | `nemu/src/memory/mmu/cache.c`, `memory/memory.c` | valid bits, tags, lines; `hw_mem` | `cache_read`, `cache_write` |
| debugger | `nemu/src/monitor/breakpoint.c`, `ui.c`, `cpu/cpu.c` (`exec`) | the pool's two lists, the INT3 bytes in the guest's code, `nemu_state` | the commands `c`, `si`, `b`, `w`, `d`; a turn of `exec`'s loop |
| address translation | `nemu/src/memory/mmu/page.c`, `segment.c`, `tlb.c`, `memory/memory.c` | CR0, CR3, page tables, TLB, segment descriptors | `page_translate`, `segment_translate`, `load_sreg`, `laddr_read`, `laddr_write` |
| arithmetic unit | `nemu/src/cpu/alu.c`, `fpu.c` | EFLAGS, the x87 stack | `alu_*`, `internal_float_*`, `internal_normalize`, the `condition_*` macros |
| decoding and execution | `nemu/src/cpu/decode`, `nemu/src/cpu/instr` | registers, stack, memory | one function for each instruction |
| expression evaluator, symbols | `nemu/src/monitor/expr.c`, `elf.c` | tokens | `expr`, `look_up_symtab` |
| display, serial, port and memory-mapped I/O | `nemu/src/device/dev/vga.c`, `serial.c`, `device/io`, `sdl.c` | VGA registers and memory, dirty lines, the port table | port and memory handlers, `update_screen` |
| sound card | `nemu/src/device/dev/audio.c`, `game/src/credits/credits.c` | two chunks, which is played and which is filled, their mutexes, `switch_buf`; the guest's `audio_reload` | the port handler, `fill_audio`, `AUDIO_Monitor_Thread`, `audio_stop`; `audio_event`, `main_loop` |
| kernel memory and program loading | `kernel/src/main.c`, `memory/*.c`, `elf/elf.c`, the listing `kernel/objd` | two page directories, kernel, video and user page tables, the counters of `mm_malloc`, `brk` | `init_page`, `init_mm`, `loader`, `mm_malloc`, `create_video_mapping`, the video tests, `mm_brk` |
| kernel interrupt dispatch and system calls | `kernel/src/irq`, `syscall`, `fs` | IDT, handler lists | `add_irq_handle`, `irq_handle`, `do_syscall` |
| games | `game/src`, `game/include/adt/linklist.h` | typing: `tick`, `now`, `letter_pressed`, the list of letters, the score | typing: `main_loop`, `update_keypress`, `create_new_letter`, `update_letter_pos`, `timer_event`, `keyboard_event`; nemu-pal is a port of third-party code |
| test cases, libraries, other labs | `testcase`, `libs`, the other directories of `src` | none | not part of the emulator |

### How they interact

`exec()` is the only scheduler. A turn of its loop executes one instruction
(unless the CPU is halted), handles breakpoints and watchpoints, polls the
devices (`do_devices`) and delivers at most one interrupt (`do_intr`). A device
raises by writing the controller's one slot and the pin; the sound card's
threads do that in parallel with the loop. The kernel reaches the disk with `in`
and `out` instructions, each of which calls the device's handler at once, and
hears from it through IRQ 14, which ends the `hlt` of `wait_ide_intr`. The timer's
IRQ 0 enters `ide_writeback`, which uses the same cache and the same ports as
the code it interrupted. The debugger shares the guest's code with the guest: a
breakpoint is an INT3 byte in it. The cache sits between `paddr_read`,
`paddr_write` and `hw_mem`; the page walk and the descriptor reads go around it.
The sound card has three threads over two chunks: SDL's callback plays one and, when
it is empty, switches to the other and sets `switch_buf`; a monitor thread turns that
into IRQ 2; the guest's handler sets `audio_reload`, and the guest's loop
then sends the next buffer through the port handler, which fills the free chunk.
The kernel shares page tables with NEMU: it writes them, and every access of kernel
and program is translated by them or by a TLB entry that a walk left behind. The kernel
runs in both directories, its own and the program's, which it changes once,
after loading the program at the physical addresses that `mm_malloc` returned.
An interrupt or a system call pushes three words and enters `do_irq.S`, which pushes
the rest of a trap frame, calls `irq_handle` and takes all of it back; the typing
game's `timer_event` and `keyboard_event` are such handlers, and share `tick`,
`letter_pressed` and `key_code` with its main loop.

### What is hard, and what makes each part correct

* **Interrupt path.** Two locations written one after the other under a mutex
  that the reader does not take; one slot for sixteen lines; a halted CPU that
  only an interrupt can wake. Correct: a pin comes with a vector, a pending
  request is displaced by a higher line only, the acknowledge clears what was
  queried, a halted CPU wakes.
* **Kernel disk driver.** Every C statement can be interrupted by a handler that
  uses the same memory and the same device, and handlers can be interrupted by
  handlers (see section 6, the gate types). Correct: sectors are not mixed up, the
  device's assertions hold, a write reaches the device before its entry is
  reused, IRQ 14 is not lost, the tick counter meets its limit, and the driver
  looks to its caller like a byte store that always answers.
* **Data cache.** Replacement, lines that an access crosses, readers that bypass
  it. Correct: one copy of a block, never different from memory, and the whole
  indistinguishable from a flat memory.
* **Kernel memory.** A TLB that no code flushes, while the kernel changes tables and
  CR3; segments that share pages; a loader that copies through one directory what
  the program will read through the other; accesses in two pages. Correct: the kernel
  is mapped in every directory it runs in, no frame has two owners, no page is used
  that is not present, the TLB agrees with the tables, and the program sees its file's
  image and after that a flat memory.
* **Debugger.** Long sequences of legal commands over linked lists; planted
  bytes that must be restored, executed past and planted again, over several
  calls of `exec`, interrupts in between. Correct: each node in one list, the
  guest's code recoverable, breakpoints planted whenever the guest runs,
  progress past a hit, pauses on every change.
* **Sound card.** Two indices that the callback changes one after the other and
  that the other threads read without a lock; a request that travels through four
  flags, each set by one thread and cleared by another; a callback that waits
  inside its own mutex. Correct: a chunk is written under its own mutex, the music
  is played in order, the request for the next chunk is not lost, the card
  can be closed at any time.

* **Processor.** Flags that one instruction leaves and another uses, with interrupts in
  between; conditions that mean a relation only after some instructions; rounding that
  few operands exercise; an entry path whose pushes, frame and pops are written in
  three files. Correct: a compiled program computes what its source says, and a
  handler leaves no trace.
* **Typing game.** Handlers that change keys and time between any two statements of the
  main loop, sections with interrupts masked that begin in one function and end in
  another, a list that is unlinked while it is walked. Correct: a press is
  not lost, it strikes the letter the rules say, every letter is counted once, the list
  and its pool stay whole, the game never hangs.

`PROJECT.json` lists the hazards one by one, with the line where each bites.

## 2. Plan

Order: most shared state first.

1. `I8259`, `InterruptController` and their proofs. *Done.*
2. `IdeDevice`, `KernelDisk`, over `I8259`, and `ByteStore`, the abstract
   specification the driver implements. *Done.*
3. `L1Cache`, and `FlatMemory`, the abstract specification it implements.
   *Done.*
4. `Monitor`, `MonitorProofs`. *Done.*
5. `SoundCard`: the double buffering, its threads and the guest that feeds it. *Done.*
6. `Mmu`, the page walk and the TLB, and `KernelMemory`, the kernel's tables, loader
   and `brk` over it; the program's view implements `FlatMemory`. *Done.*
7. `LinkList` and `Typing`: the typing game over `I8259`. *Done.*
8. `Alu`, `Float`, and `Processor`, which runs compiled programs over them and over the
   kernel's entry code. *Done.*
9. `L1CacheProofs`: `Coherent` and the refinement of `FlatMemory`. *Done.*
10. `SoundCardProofs` (`FillsLockedChunk`, `PlayedInOrder`) and `KernelMemoryProofs`
    (`FramesPrivate`). *Done.*
11. `KernelDiskProofs`: every safety property of the driver. The rest of
    `KernelMemory` (`NoFault`, `TlbAgrees`, the refinement of `FlatMemory`) and of
    `Monitor` (`ArmedOnContinue`, `HitMakesProgress`, `ChangePauses`). *Done.*
12. `ProcessorProofs`: the arithmetic for every width, and `ContextRestored`.
    `TypingProofs`: `PressNotLost` and `main_loop`'s assertion. *Done.*
13. `Typing`'s types, list of letters and score (`TypeOK`, `LettersSound`,
    `StrikesFairly`, `ScoreHonest`), and `WideExact` and `ComparesRight` as invariants of
    `Processor`'s specification. *Done.*
14. `IrqHandlers`: handler lists and the order of start-up. `VgaLines`: dirty-line
    bookkeeping.

Abstract specifications: `ByteStore`, which the disk driver implements, and
`FlatMemory`, which both the cache and a program's memory implement. The processor's
programs are compared with the arithmetic of their C source instead.

## 3. Modules and the code

**`I8259`** has the data of the controller: `SlotAfterRaise` is the priority rule,
`GateType` and `IFAfterGate` what the kernel's IDT and `raise_intr` do to IF.
`InterruptController`, `KernelDisk`, `SoundCard`, `Typing` and `Processor` use it.

**`InterruptController`** has a program counter for each thread (`pc`). A raise is
four steps (lock, slot, pin, unlock), an acknowledge too; the check of `do_intr`, its
unlocked query and the delivery are steps of their own. The main thread's
instruction is one of: nothing of interest, `hlt`, a change of IF, `nemu_trap`, a
disk command that raises IRQ 14. When NEMU stops the mutex is destroyed, and a
thread that locks it afterwards may fail or may seem to succeed. Left out:
the bytes pushed on the stack, the scan codes.

**`IdeDevice`** has one operator for each branch of `handler_ide`. The image is
opened read-only, so a write of the data port changes neither the file nor its
position. A word is identified by its position. `sectorPorts` holds the four bytes of the
sector number, which the driver writes one port at a time and a command puts together.

**`KernelDisk`** composes `IdeDevice` and `I8259` with the driver. `stack` holds
the frames of the code that is running: a caller at the bottom, a handler above
it for each interrupt being served. Every access to memory a handler shares and
every port access (`ide_prepare`'s six are six) is one action of the top frame, and after each the timer may tick
and `do_intr` may enter a handler. A behaviour has one `use` of the driver: which calls
are made (`ops`, of the words in `asked`), whether they come from the kernel or through
a system call's trap gate (`callers`), and where ticks arrive (`preempt`): anywhere in the
caller and the driver (`driver`), in handlers too (`handler`), or anywhere in caller and
driver but where `quiet` keeps them out: while the caller replaces an entry, evicting and
refilling it, no tick is let in that makes the handler write back. `latest` and `sent` are history variables: what callers
believe is stored, and what the device was handed. Bytes are modelled by their word,
as everything in the driver moves words.

**`ByteStore`** is the driver's promise: one request at a time, a read returns
the last data written or the image's own, and every request is answered.

**`L1Cache`** keeps valid bits, tags and contents as in the code. An access is one
action, since NEMU runs on one thread. The recursive calls for an access
that crosses a line are one level deep, hence operators of their own. `Spec` has every
access; `KeptSpec`, which the run and the proofs are about, all but the writes that
leave a line stale (`LeavesStale`, section 6).

**`FlatMemory`** is a memory of bytes that starts as `Initial` says, whose reads return
what was last written. It is the promise of `paddr_read` and `paddr_write`, and what a
program may assume of its own addresses.

**`Mmu`** has the tables as functions (`pdir` from directories and indices to tables,
`ptable` from tables and indices to frames), the TLB when it is built in, and the two
parts of an access that crosses a page. Segments are left out: `load_sreg` asserts
that they start at 0. Permission bits are left out too, NEMU does not look at them.

**`KernelMemory`** follows `main.c` by `stage`: the kernel's tables, the program's
directory, the video test, the loader's segments one byte at a time, the stack, the video
mapping, the load of CR3, the second video test, and then the program, which reads,
writes and calls `brk`. `KernelRuns` is the kernel's own code and its handlers, at
any point in between. `mm_malloc` is linked from an object file; it is modelled
from its code in the listing `kernel/objd`. The translations that `init` makes before
paging is on are the identity and are left out, as is what `ide_read` does, which
`KernelDisk` models. `brk` of a program that asks for more frames than are left ends in
`mm_malloc`'s assertion (stage `panic`); a program that does not fit into memory when
it is loaded is left out, its behaviour stops there.

**`Monitor`** has an action for each command and one for each turn of `exec`'s loop. A
behaviour has one `session`: the commands the user gives and whether devices
interrupt. The guest is a flow graph of one-byte instructions. `owed` is a history
variable: the breakpoint whose own instruction has not run since the hit. A
change of the watched value comes from a `store`.

**`SoundCard`** has a program counter for each of its three threads. `Main` is NEMU's
own thread: the guest's loop, the port handler it enters by an `out`, the timer, the
interrupts between two instructions, and the end of NEMU. `Monitor` is
`AUDIO_Monitor_Thread`, `Callback` is `fill_audio`. Every access to a variable that another
thread writes is a step; plain C variables are read and written in program order, as the
build at hand does. A buffer of the music is a number. The two copy threads are handed
the address of a loop variable and may read 0, 1 or 2 there, so that both may copy the same
half of a buffer: a chunk is the set of the buffers its halves hold, the new one and
perhaps an old one. One call of `fill_audio` plays one unit of the newest, and `heard` is
a history variable: how much of the music has been played.

**`LinkList`** is the list template of `linklist.h` with its pool, as a record of the
link fields; `new`, `insert`, `remove` and `free` are functions from pools to pools.

**`Typing`** has the main loop's position (`pc`) and a stack of handlers (`frames`). The
game is compiled without `-O`, so `tick++` is a load and a store and every access to a
shared variable is a step. The machine below is the one of `I8259`, with a
keyboard whose data port is one byte. Only `now % CreatePeriod` and the differences
`tick - now`, `target - now` are kept. Positions are counted in half pixels:
`(rand() % 1000) / 2000` is an integer division, so every letter falls at 0.5. The
drawing only reads this state and is left out. Two history variables: `owed`, a
press the game has not seen yet, and `fresh`, the letters whose key has not been pressed
since they appeared.

**`Alu`** has the functions of `alu.c` and the conditions as operators from operands and
flags to a value and flags, for longs of any width. **`Float`** has `fpu.c`:
`internal_normalize` with its shifts, sticky bit and rounding, the corner
tables, and the four operations, for any widths of exponent and fraction. The corner tables
know two NaN codes, as in the code; the comparison, which is C's, every NaN.

**`Processor`** executes a `job`, a program and its inputs, one instruction a step. The
programs are what a compiler makes of `testcase/src` (64-bit sums, differences and
products, comparisons used by jumps, `set` and `cmov`, expressions on floats, `fact`, the
loop of `prime.c`, single bits and shifts, divisions); operands are named instead of
encoded. The entry code is a list of instructions too (`Entry`), with `irq_handle` as one
step that changes what C code may change, the frame of a system call included.
An interrupt may be delivered after any instruction while IF is set. `contexts` is a
history variable: what was interrupted, as it was.

`MC*` modules give the constants their values, `*Proofs` hold the theorems. Definitions whose name has a suffix and whose comment says
*Mutant* are faulty variants of the operator that follows them. They are
not used by any specification; each makes one property of one run fail,
which shows that the property can.

## 4. Runs

| run | states | shows |
|---|---|---|
| `IcThreads` | 50 197 | two sound-card threads against the main thread: type invariant, `QueryFindsVector` (the assertion of `do_intr`), `PinMatchesSlot`, `AckCoversQueried`, `PriorityKept`, and `HaltedCpuWakes` under fairness |
| `KdUses` | 989 032 | three uses of the disk driver (the shipped kernel's reads with ticks anywhere, reads of kernel and system calls under nested handlers, exported reads and writes with ticks anywhere but where `quiet` keeps them out): type invariant, `IdeAssertsHold`, `CachedWordsBelong`, `IdeIntrNotLost`, `NoWriteDropped`, `WritebackKeepsPeriod` where handlers are not interrupted, `RequestServed` for the kernel's calls, `ReadsImplementStore` (with liveness) for the shipped use |
| `Cache` | 17 984 | two sets of two ways, five blocks: `Coherent` (with the types and one copy of a block), `ImplementsFlatMemory`, of `KeptSpec` |
| `Program` | 17 900 | from the kernel's start to a program that uses its memory and grows its heap, with and without the TLB: `FramesPrivate`, `NoFault` (types, the kernel mapped in both directories, and no assertion of `mm_malloc` but for want of frames, included), `TlbAgrees`, `ImplementsFlatMemory` |
| `BpSessions` | 247 758 | a session of breakpoints (`b`, `d`, delete-all, `c`) and one of watchpoints (`b`, `w`, `si`, `c`, interrupts), pool of three: type invariant, `PoolPartition`, `CodeRecoverable`, `ArmedOnContinue`, `HitMakesProgress`, `ChangePauses` |
| `SoundPlay` | 397 557 | three buffers played through two chunks: `FillsLockedChunk` (with the types and the assertion of `fill_audio`), `PlayedInOrder`, `StopCloses` |
| `Typing` | 855 996 | the game with two keys, timer and keyboard: type invariant (with `TicksBehind`, `main_loop`'s assertion), `LettersSound`, `PressNotLost`, `StrikesFairly`, `ScoreHonest`, `GameGoesOn` |
| `Compute` | 997 477 | every program on all its operands without interrupts, and on chosen ones with two interrupts anywhere: `WideExact`, `RoutinesRight` (with the types), `ComparesRight`, `FloatsRounded`, `ContextRestored` |
| `KdLostWrite` | violation | a written byte is gone after its sector was evicted and read again |
| `BpStep` | violation | after an `si` that ends on a hit the breakpoint stays unplanted |
| `SoundLost` | violation | the card waits for a chunk that nothing asks the guest to fill |
| `WideCompare` | violation | a 64-bit comparison decided by `jb` or `jl` goes wrong when the high halves differ by the borrow alone |

`KdUses`, `BpSessions` and `Compute` choose the use, session or job in `Init`: a property
that holds for some of them only says for which, in its first conjunct.

### Bounds, and why they are enough

* Two raising threads: one that holds the mutex and one that waits while the main
  thread reads without it. All four lines NEMU's devices raise. The proofs cover
  any number of threads and lines.
* Disk: three sectors over two entries, so that one entry is shared by two sectors
  and one is not; two words in a sector, the least with a position inside a
  sector (writes ask for one word of each sector); `TicksPerSync` 2 (100 in the code) and `CounterMod` 4
  (2^32), so that the limit is met, passed and wrapped around. `MaxDepth` 3 bounds
  the handlers to two or three frames over the caller: one that is interrupted, the one
  that interrupts it, and the disk's. Deeper nesting repeats the same code, and the
  proofs cover any `MaxDepth`. `PortBase` 2 (256): sector 2 needs two ports.
* Cache: lines of two bytes and accesses of one or two are the least in which
  accesses cross lines. Two ways in each of two sets; one set is used by three
  blocks, one more than it has ways, so that lines are replaced and tags are told apart.
  Any address is read; `Written` bounds the addresses that are written. Reads and
  writes cross lines.
* Kernel memory: pages of two bytes and tables of two entries (4096 and 1024 in the
  code), ten frames, of which the program has five. The program's two segments share a
  page and lie above physical memory, as at the linker's own address 0x8048000; the heap crosses pages, can
  shrink and grow, and can ask for one frame more than there is. A TLB of two
  entries has hits, misses and replacements. `Written` bounds the addresses the program
  writes to two in the heap, in two pages that are not neighbours in memory.
* Debugger: a pool of three is exhausted, has a first, a middle and a last node; the
  guest has a BREAK_POINT of its own, a store, a halt, a loop and a trap.
  `MaxSi` 2 tells the last step from the others; `Unlimited` stands for `exec(-1)`,
  whose unsigned count does not run out in practice. A handler is not itself
  interrupted in this module: `saved` holds one return address.
* Sound: three buffers over two chunks, so that the first chunk is used again, and
  the end of the file behind them; two units in a buffer, so that a position inside
  a chunk exists. The callback, the monitor and the port handler are one thread each in
  the code too.
* Typing: two keys, of which the player presses one; a screen of four positions and
  a letter every two ticks, so that two or three letters are on it at a time; a pool
  of four nodes, which the letters nearly exhaust and which wraps. `MaxLag` 2: the loop
  catches up with up to three ticks at once. `MaxEvents` 2: two presses between two
  instructions of the loop overwrite one another. `MaxDepth` 2: a handler of
  either line is interrupted by another, or by itself; the proofs cover any `MaxDepth`.
* Processor: longs of 4 bits and bytes of 3, over all pairs of operands, all signs,
  carries and overflows; the high halves of the 64-bit programs only from `Edges`, since
  what passes between the halves is one bit (`ProcessorProofs` covers every width). Floats of
  3 exponent and 4 fraction bits (3 rounding bits need at least as many in the
  fraction): sums of all pairs, quotients of all pairs of one sign, products of all
  numbers with the subnormal, the smallest and the largest ones, and samples of the
  other signs; comparisons of zeros, infinities, subnormals, and NaNs of two fractions.
  Two interrupts, so that
  a handler is interrupted by another (`MaxDepth` 2), on operands that carry, borrow
  and compare either way. `Left` is what C code may leave in the registers it need not keep.

`CHECK_DEADLOCK FALSE` is set where the program really may stop: NEMU exits after
`nemu_trap`, at the end of the debugger's session, or by a failed assertion. The
specifications of the cache have no such state, but an account of who
deadlocks is of no interest for a component that only answers. A job of `Compute`
ends with its program.

### Fairness

`InterruptController!Fairness`: every thread runs (WF on the main thread's steps and on
each thread's raise, since they loop without waiting for anything but the mutex) and
gets the mutex when it is free again and again (SF on `AckLock`, `RaiseLock`);
the wall clock passes the timer's interval again and again (SF on `TimerTick`), and
the host's event queue runs dry (SF on `NoMoreEvents`). Nothing obliges a sound-card
thread to raise.

`SoundCard!Fairness`: the guest, the interrupts and the callback run (WF), the exit
does once it has begun, and a mutex that is free again and again is obtained (SF on the
three locks: SDL's mutexes are the host's, and the waiting loops sleep 1 ms between two
attempts). Nothing is assumed about the monitor thread or the timer.

`Typing!FairSpec`: `exec` keeps looping as long as the CPU is not halted or an interrupt
can be delivered (this is WF on instructions and deliveries, with its enabling condition
written out), and again and again a turn of the loop raises the timer's interrupt
without a key event after it (SF on `Tick`: the player cannot type in every turn).

`KernelDisk!FairSpec`: WF on `Next`, that is, `exec` keeps looping. It says
nothing about which of the guest's instructions runs, since one CPU has no
choice; a caller may idle forever between two requests.

## 5. Proofs

Checked by TLAPS for every value of the constants that satisfies the assumptions
named in the modules. Most say what kind of value a constant is. The others are facts
of the code: in `Alu`, a long has at least one bit more than a byte
(`HalvesAssumption`); in `Processor`, a job's inputs are words of the size its
instructions take, and its condition is one that compilers use after that comparison
(`InputsAssumption`, `JobsAssumption`); in `Typing`, the screen is at least one position high
and the pool has room for the letters of one fall and one rise
(`RoomAssumption`: 448 <= 33 * 999 with the game's numbers).

* **`InterruptControllerProofs`.** The invariant the runs check is not inductive:
  that the pin comes with a vector depends on how far the raising threads have
  got. `IInv` adds `MutexInv` (while the mutex exists its owner, and no one else,
  is between lock and unlock; it is destroyed only when the main thread is done)
  and `ProgressInv` (what slot and pin are at each point of a raise and of an
  acknowledge). From it: `TypeCorrect`, `QuerySafe` (`QueryFindsVector`),
  `PinSlotAgree` (`PinMatchesSlot`), `PrioritySafe` (`PriorityKept`, an action
  property), `AckCovers` (`AckCoversQueried`, by `CoverInv`: from the query on the
  slot only moves up), and `AckMatches` (`AckClearsQueried`, assuming no raising
  threads).
* **`KernelDiskProofs`**, for disks, caches and counters of any size and handlers
  nested up to any `MaxDepth`: `TypeCorrect`, `AssertsHold` (`IdeAssertsHold`), `WordsBelong`
  (`CachedWordsBelong`), `IntrNotLost` (`IdeIntrNotLost`), `WriteNotDropped`
  (`NoWriteDropped`), `PeriodKept` (`WritebackKeepsPeriod`), and `ReadsRefineStore`, the safety
  part of the refinement of `ByteStore`. The invariant says which stacks of frames
  there are (a caller, at most one write-back or transfer, handlers above), what the
  device's ports, byte count and position are at each point of a transfer, which words
  of an entry a transfer has brought so far, where the counter is at each point of the
  tick's handler, and where IRQ 14 is while somebody waits for it. The theorems assume
  `SafeUse` of every use: one that writes is `quiet`. Reads may take ticks anywhere,
  in handlers too; a write takes them anywhere except the one tick that would start a
  write-back while the caller replaces an entry. All uses that `KdUses` runs are
  like that. The overlap left out is no gap of the proof: the code fails there, on the data
  port's assertion (section 6). `PeriodKept` says nothing of uses with `preempt = "handler"`,
  where the comparison is stepped over.
* **`MonitorProofs`.** Its first section says how prepending, concatenating and removing act
  on the elements of a sequence. `TypeCorrect`; `PoolSafe`: `PoolPartition` is inductive
  together with `TypeOK`, since `TakeNode`, `GiveNode` and `GiveAll`, the three ways the
  code moves nodes, keep the two lists disjoint, free of duplicates and complete.
  `CodeSafe`: `CodeRecoverable` under `Duplicates = FALSE`, by the strengthening
  `CodeInv` (every breakpoint remembers the guest's own byte, no two breakpoints share an
  address). `ArmedSafe` (`ArmedOnContinue`) and `ProgressSafe` (`HitMakesProgress`), under the
  same hypothesis: `ArmInv` says that whatever is not planted is the breakpoint at eip, and
  that `exec` knows it; `OwedInv`, that the breakpoint whose instruction is owed is at
  eip and not planted. `WatchSafe` (`ChangePauses`): `WatchInv`, the newest watchpoint holds
  the present value.

* **`L1CacheProofs`**, for every geometry and every length of access up to a line, about
  `KeptSpec`: a write may cross lines as long as it does not go from one that is not cached
  into one that is. The properties speak of addresses, the code of sets, ways and
  offsets: `Positions` and `SameLine` show that an address is its tag, set and offset and
  nothing else, from the uniqueness of quotients. The invariant `IInv` says of each valid
  line that it holds the block which its tag and set name (`Loaded`); that is inductive
  only together with `OneWay`, since a write updates the first way that matches.
  `WriteKeeps`, `RefillKeeps` and `ReadRight` take the operations one by one. From it:
  `CacheCoherent` (`Coherent`) and `CacheImplements`, the refinement of `FlatMemory`
  (`ImplementsFlatMemory`), for reads that cross a line and all other writes.
* **`SoundCardProofs`**, for music of any length and buffers of any size. `FillsLocked`
  (`FillsLockedChunk`) and `InOrder` (`PlayedInOrder`). The mutexes alone give neither:
  the port handler reads the index of the chunk before it takes the mutex. The invariant
  follows the request to fill a chunk on its way from `switch_buf` through the monitor
  thread, the interrupt controller and the handler to the guest: there is one at most
  (`OneRequest`), and none while the chunk is ready (`AskedBeforeReady`), so the
  callback does not swap the chunks under the guest. A lost request (`SoundLost`) stops
  the music but never disturbs its order. `Lengths`, `Buffers` and `Position` say which buffer
  is the newest in the two chunks (`Holds`) and that what was heard is the music up to
  `audio_pos`. That the other half of a chunk may be older is not excluded: it happens.
* **`KernelMemoryProofs`**, for any size of memory, pages and tables, any program
  and any sequence of breaks, with and without the TLB. `FramesSafe` (`FramesPrivate`):
  `mm_malloc` hands out every frame and every table once, whatever is mapped already
  (`MallocKeeps`, where the counters give the n-th missing page the n-th next frame:
  `RankLemma`). The invariant speaks of table entries (`FramesOnce`) and directory entries
  (`TablesOnce`), and keeps as many tables as there are entries without one
  (`TablesLeft`); `WalkLemma` goes from there to pages. `NeverFaults` (`NoFault`) and
  `TlbSafe` (`TlbAgrees`) follow `main.c` stage by stage: which directory is in force, that
  the kernel and the video memory are mapped in it (`KernelInv`, `VideoInv`), that tables
  not handed out yet are empty (`TablesEmpty`), that the part of the program loaded so far,
  and what is below the break, has pages (`LoadedInv`, `BreakInv`), and that a TLB
  entry is what the directory in force says or a kernel frame's own (`TlbInv`). That
  `mm_malloc`'s assertion fails in `brk` only for a program that asks for more pages than
  there are frames is `CountInv`: as many frames are taken as the program has pages, so
  none is wasted on a page that had one (`MissingCount`). `ProgramRefinesFlat`
  (`ImplementsFlatMemory`) adds `ContentInv`: the frames of the pages hold the image as far
  as it is loaded and after that what the program wrote, which needs `FramesOnce`, as a
  write through one page must not be seen through another. The assumptions are those of
  the module: segments in ascending order that lie above physical memory, as programs
  for this kernel are linked (section 6 tells what happens otherwise), a break
  that stays below the stack, and accesses no longer than a page.
* **`TypingProofs`**, for any keys, screen, pool and clock, and handlers of either line
  nested to any `MaxDepth`, in four parts.
  *Handlers.* `PressSafe` (`PressNotLost`): the press that is owed is in the scan code's
  byte, and IRQ 1 is pending or a handler will load or has loaded it, and no handler above
  that one, which would store its code over `key_code`, has loaded an older one (`PressInv`).
  `AssertHolds` (`TicksBehind`): a handler that is interrupted between load and store takes
  `tick` back to one more than it loaded, never below the target of `main_loop` (`TickInv`).
  *List.* `PoolIsSound` (`LettersSound`): between two steps of the loop the list and the free
  list are two sequences of nodes with their links as neighbours (`Lists`); taking a node
  from one to the front of the other (`NodeTaken`) and unlinking any node
  (`NodeGone`) keep that, also in the middle of the walk, whose fold is taken one letter
  at a time (`VisitedIs`, `AllMoved`). That `fly_new` finds a node is not a fact about lists: by `AgesInv` the
  letters' ages are different numbers of periods, no letter is older than one fall
  and one rise, and so there are fewer than nodes (`Room`).
  *Score.* `Fair` (`StrikesFairly`) rests on `FreshInv`: the key of a letter that appeared
  since its key was pressed is not marked as pressed. `Honest` (`ScoreHonest`): the letters that leave
  in one walk are those `AllMoved` names, once each.
  *Types.* `TypesOK` (`TypeOK`): the bound on how far the game is behind is not inductive
  alone. The sum of the ticks it is behind, of those that running handlers have yet to
  count and of the one the controller holds is (`ClockInv`).
* **`ProcessorProofs`**, first for longs of every width. `AddExact`, `AdcExact`, `SubExact`,
  `SbbExact`: value and carry together are the exact sum or difference. `WideSumExact` and
  `WideDifferenceExact` chain two of them. `CompareDecides`: after `alu_sub` every condition is
  the relation it is named for; `BytesKeepOrder`: sign extension keeps both orders. These are
  about the operators; the next three are about `Spec`.
  `ContextsSafe` (`ContextRestored`), for any jobs, widths and depth of handlers:
  `Frame` says, for each of the nine instructions of the entry code, what is on
  the stack and in the registers; it is kept for the running handler (`EntrySteps`) and
  for each that was interrupted (`Nested`). That the stack below is still the one that was
  interrupted needs that the guest's own `ret` and `leave` find what they popped:
  `Flows` says that a program without a stack jumps to places of its own
  (`ProgramFlows`), and `Recursing` describes the stack of `fact` at any depth of recursion,
  four words to a call (`RecursionSteps`).
  `WideIsExact` (`WideExact`) and `ComparisonsRight` (`ComparesRight`) say what programs
  compute, with interrupts after any instruction. `Own` is the machine as the program
  has it, the one that waits below the handlers if there are any; a step is one of the
  program's own, or the program does not notice it (`OwnSteps`). The invariant `Computing`
  says for each program without loop or call (`Straight`) what its registers, flags, variables and x87 stack hold at each of its
  instructions, as the operators of `Alu` and `Float` (`Follows`, kept by `FollowSteps`). What
  they hold at the end (`AtTheEnd`) is then arithmetic: the high half of a product is right
  although it multiplies signed longs, since the difference is a multiple of 2^32
  (`CrossOf`, `WrapOf`, `Halves`); bytes are compared as extended longs (`OrderKept`), and floats
  by their codes (`FloatDecided`), unless one is a NaN (`FloatUnordered`).

Only model-checked:

* liveness (`HaltedCpuWakes`, `RequestServed`, `StopCloses`, `GameGoesOn`, and the liveness
  of `ByteStore`), which is out of the prover's reach;
* `RoutinesRight`, with the types of `Processor`: `Fact`, `Ones` and `And` are recursive and
  the shifts multiply by 2^n; their values for every argument would need induction over data;
* `FloatsRounded`: `internal_normalize` shifts as often as its loops turn, and what is
  dropped depends on powers of 2, of which the provers know only that they are positive
  (`Powers`);
* `WideCompareRight` of `Processor`, `BreakpointsArmed` of `Monitor` and the properties of the other
  two runs that end in a counterexample, which do not hold.

## 6. Where the code and its words differ

Four runs end in a counterexample; the findings in `PROJECT.json` quote the lines.

* `KdLostWrite`: the disk image is opened `"rb"`, so no write reaches it.
* `BpStep`: a hit in the last step of an `si` leaves the state READY, and the next
  `exec` does not plant the breakpoint again.
* `SoundLost`: the interrupt that asks for the next chunk is cleared by the acknowledge
  of a timer interrupt, and the card waits for good. `credits.c:35` says
  "Occasional audio playback disorder". Two more causes do the same on their own:
  the monitor thread resets `switch_buf` after raising (`audio.c:151`), and the guest
  resets `audio_reload` after writing (`credits.c:51`); each loses a request
  that arrived in between.
* `WideCompare`: `condition_b` and `condition_l` also ask for ZF = 0
  (`instr_helper.h:179`, `215`), against the documented CF = 1 and SF != OF
  (`PA/doc/guide/ch/ch_appendix_A_i386_correction.md:57`, `61`). After `cmp` that is the same
  (`CompareDecides`), after the `sbb` of two high halves it is not.

Others were met while modelling. Each shows by a change of the
constants named:

* `raise_intr` clears IF for trap gates (type 15) and leaves it set for the
  interrupt gates of the devices, the reverse of what the guide says
  (`PA/doc/guide/ch/ch_pa-4-1-interrupt.md:32`) and of an x86. The models follow the code:
  handlers nest, system calls run with interrupts masked.
* With raising threads (`Raisers`), a request raised between query and acknowledge is
  cleared unseen: `AckClearsQueried` fails, while `AckCoversQueried` holds.
* With `Duplicates = TRUE`, a second breakpoint at an address remembers the INT3 of the
  first one as the original byte: `CodeRecoverable` fails.
* Without its condition on `use.preempt`, a second tick inside the tick's handler carries the counter
  past the value it is compared with: `WritebackKeepsPeriod` fails, and
  the next write-back waits for the counter to wrap.
* In a use with writes and `preempt = "driver"`, a tick that comes while the caller replaces
  an entry starts a write-back on the ports of the caller's own transfer: `IdeAssertsHold`
  fails. No code of the shipped kernel calls `ide_write`.
* With `Spec` in place of `KeptSpec`, a write whose first line is not cached but whose
  second one is leaves the second one stale: `Coherent` fails.
* The copy threads of the sound card race for the loop variable whose address they are
  handed (`audio.c:128`), so that half of a chunk may keep what it played before:
  a second disorder for `credits.c:35`, besides the lost request.
* In a session with both `w` and `d`, deleting the newer of two watchpoints of one
  expression leaves the older with a stale value, and a change can go
  unnoticed: `ChangePauses` fails.
* In a session with interrupts, a handler's first instruction counts as the one owed to a
  breakpoint that was hit, and the breakpoint is hit a second time:
  `HitMakesProgress` fails.
* `mov` to CR3 does not flush the TLB (`operand.c:123`), and `mm_malloc` invalidates nothing.
  `TlbAgrees` holds because programs are linked above physical memory, so that no address
  below the kernel is in both directories with two frames. For a program linked inside physical
  memory (the address in the comment of `game/Makefile:12`, or a smaller first `vaddr` in
  `Segments` without the assumption) `TlbAgrees` fails when the TLB is built in.
* `b` and `w` on a full pool end NEMU by the assertion of `new_BP`.
* `game.c:32` says that `tick` is the number of timer interrupts so far. A timer interrupt
  between the load and the store of `tick++` is lost, as handlers nest; and one that
  comes while a key's interrupt is pending never reaches the slot.
* The keyboard has one byte for the scan code, so of two presses between two handlers the
  last one counts, twice if both interrupts get through.

Of the instructions, by reading them while `Alu`, `Float` and `Processor` were written;
the models follow the code, and the properties of `Compute` are stated so that they
hold of it:

* `imul` sets CF and OF for every negative product, because `sign_ext` returns an unsigned
  number; `neg` always clears OF; `inc` and `dec` set CF; a shift by 0 sets the
  flags, CF from a shift by -1. A division whose quotient does not fit is truncated and a
  division by 0 ends NEMU.
* Float products that underflow are not rounded correctly, and a quotient may be
  one unit off in the last place, since the remainder's sticky bit is dropped;
  `FloatsRounded` leaves the first out and bounds the second. A comparison with a NaN says
  equal; `ComparesRight` asks only that it says neither above nor below.
* `push imm8` widens the operand before its sign is looked at (`push.c:4`), `ret imm16`
  adds 2 instead of 4 to the argument's size (`ret.c:24`), `sahf` clears IF. None of the
  programs modelled uses them.
* The x87 state is not saved across handlers: no handler of the kernel uses it, and
  `FloatsRounded` holds with interrupts for that reason.

## 7. Not modelled, and why

* Instruction decoding (`opcode.c`, `modrm.c`, `sib.c`) maps bytes to the operations that
  `Processor` starts from; it has no state. The 16-bit prefix, string instructions, the
  x87 control and status words, and segment loads are left out.
* The expression evaluator and the symbol tables parse strings by regular expressions.
* The display's dirty lines, the registration of interrupt
  handlers (`irq_handle.c:24` lets the 33rd pass) and the order of start-up wait for the
  plan's last modules.
* Segment descriptors: every base is 0, `load_sreg` asserts it.
* A breakpoint set under one translation and deleted under another (`breakpoint.c:45`):
  the guest's code is one address space in `Monitor`. A `brk` of 2^31 bytes or more
  (`mm.c:20`): `MaxBrk` keeps the break below the stack.
* nemu-pal, newlib, the reference library and the other labs are third-party code or not
  part of the emulator. They are most of the repository's lines.
