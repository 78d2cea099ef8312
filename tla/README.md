# A verification project for Ezalb

The repository is a DEC VT420 emulator: an 8051 CPU runs the original ROM against models of
the terminal's chips, and threads connect its serial ports to programs, pipes and
pseudo-terminals.  This directory holds TLA+ modules of the parts where order, concurrency
and failure matter, the TLC configurations that check them, and proofs that TLAPS checks.

    tlc -workers 2 -config IoSession.cfg IoSession      # a run
    tlapm IoSessionProofs.tla                           # the proofs of a module

`PROJECT.json` maps every definition to the lines it models and lists runs, theorems,
hazards, findings and, for each property, a bug ("mutant") that it catches.

## 1. The system

| part | code | state | operations | talks to |
|---|---|---|---|---|
| CPU core | `i8051/cpu.c`, `op.c` | registers, RAM, PC, interrupt in progress | one instruction per step; accept an interrupt, return from it | hooks of the machine for ports, memory, code |
| CPU peripherals | `i8051/peripheral.c` | SCON, SBUF, countdowns; timers | tick; read and write of special function registers | the CPU; two byte rings |
| keyboard | `lk201/` | the bytes of an unfinished command | tick; push a key | the two rings |
| DUART | `machine/duart.c` | per channel: mode, transmit and receive register; output and input bits, interrupt | tick; read and write of its registers | CPU; a pair of rings per channel; EEPROM pins |
| EEPROM (NVR) | `machine/generic.c` | memory, protocol state, write count | tick on the pins | DUART pins; image file through `vt420.c` |
| video | `machine/video.c`, `generic.c` | mapper registers, line and column of the beam | tick; decode VRAM into rows and cells | VRAM, port 3 |
| machine | `machine/vt420.c` | all of the above, ROM bank | power up, step, free; load and save the NVR file | everything in this table |
| comm session | `host/comm.c`, `ssu/xonoff.c` | one held-back byte each way, the gate | tick | a ring pair; a session |
| I/O session | `ssu/session.c`, `ssu/chan.c` | two channels with mutex, conditions and reference counts; three threads | start, send, receive, destroy | the operating system |
| loopback session | `ssu/chan.c`, `ssu/session.c` | a queue that grows | send, receive | one comm session |
| session descriptions | `ssu/config.c` | none | string to configuration | control core, front ends |
| control core | `host/ctl.c` | the mutex, pace, configurations, the machine | the operations behind the tools; the emulator thread | machine; server thread |
| tool server | `host/mcp.c` | none between calls | one tool call after the other | control core |
| front ends | `host/sdl.c`, `text.c`, `headless.c`, `main.c` | drawing and input state | loops around the machine's step | machine, keyboard ring |

One step of the machine (`vt420_system_step`) is a fixed sequence on one thread: instruction,
EEPROM tick, DUART tick, keyboard tick, serial port tick, INT1 line, the two comm sessions, DTR,
sync generator, timers, NVR save.  Concurrency proper is in two places: the opener, reader and
writer threads of each I/O session, and in tool-server mode the emulator thread against the
server thread.

### What is hard here

`PROJECT.json` lists every hazard at its line.  The main ones:

* channels shared by three threads with a reference count each, where any `open`, `malloc` or
  `pthread_create` may fail half-way (`session.c`, `chan.c`);
* two condition variables per channel, and a close that must wake both kinds of waiters;
* back-pressure: a full ring, a full session, a byte held back outside the ring, and a flow
  control gate whose own control bytes travel in the data (`comm.c`, `xonoff.c`, `duart.c`);
* descriptors that a fork copies into another session's program, between the call that opens them
  and the call that protects them (`session.c`);
* a serial protocol clocked by output pins, all high at power-up, that must not write by accident
  (`generic.c`), and a file truncated before it is written (`vt420.c`);
* a transmit register with a double buffer and a receiver that drops a byte while RI is set
  (`peripheral.c`), behind it a keyboard that executes one command per tick (`lk201.c`);
* tool calls made of several sections under a mutex that is released in between, and resets
  that fail after they have freed the machine (`ctl.c`, `mcp.c`);
* loops that follow a clock and are held up, paused, or changed in speed (`ctl.c`, `sdl.c`);
* what is drawn as the difference to what is believed to be shown, on a terminal that is resized
  meanwhile (`text.c`), and rows counted by one rule and drawn by another (`video.c`).

### What makes each part correct

| part | properties |
|---|---|
| I/O session | no use after free, no lost wakeup, nothing left behind; each direction is a FIFO pipe; bytes arrive; destroy winds down |
| serial line | order kept, nothing repeated; inbound lossless; outbound loss only under refusals; held-back bytes leave |
| NVR | only whole, enabled commands change memory; reads give what is stored; writes survive restarts |
| keyboard line | every command heard and executed once; keys leave in bounded time; overruns only under a late firmware |
| control core | calls and shutdown end; repeatable while paused; gates and configurations survive; failures do not crash |
| CPU | programs compute what arithmetic says; interrupts are invisible to them and none is lost; a line held low does not starve timer 0; bit writes keep the other bits' latches |
| rings, loopback queue | a FIFO, across wrap-around and growth |
| session descriptions | understood as meant, or refused |
| openers | all or nothing is left open; a program holds only its own session's ends; programs and sessions end together |
| clocks of the loops | no time used twice, a bounded rush after a delay, frames shown in bounded time |
| frame and rows | every line where it belongs; every character from its own half bytes |
| memory and beam | no two addresses share a byte; the beam sweeps whole frames whenever the timing changes |
| text display | the host's terminal shows the frame composed |
| typing | the terminal hears the keys typed, with their modifiers, and no modifier stays down, as long as no byte is dropped; a tool's bytes come slowly enough |

## 2. Modules

### SessionPipe — what a direction of a session promises

An abstract bounded FIFO pipe: *accept* a byte, *deliver* the next, *end* when empty.  Bytes are
numbered, so "the last byte out is the number of bytes out" says in order, none lost, none
twice.  `IoSession` implements it in both directions, `SerialLine` for its inbound way.

### IoSession — `ssu/session.c`, `ssu/chan.c`

State: ring, reference count, closed and allocated flag of the channels "send" and "recv"; who
sleeps in `pthread_cond_wait`; the open descriptors; a program counter for the emulation thread
(`emu`), opener, reader and writer; the references that `struct io_boot` still holds; the byte
in each pump thread's hand.  An action is one critical section of a channel's mutex or one system
call, so `ssu_chan_close`, `ssu_chan_unref` and the `free` after the unlock are separate steps
(`DestroyClose`, `DestroyUnref`, `DestroyFree`, and the same for opener and pumps).  Every
allocation, open, read, write and thread start may fail; spurious wakeups happen.  `Open` is one
action that succeeds or fails; what it consists of is in `ExecOpen`.

### ExecOpen — the openers of `ssu/session.c`

Any number of sessions of all four kinds open at once.  An action is one system call, or a run of
them on the caller's own descriptors.  A descriptor is a session, an end, whether it is a duplicate
and whether exec closes it; `fds` says which process holds which.  `Fork` copies everything the
terminal has open at that moment, `Rewire` and `Exec` are the child up to its program, and the
pump threads are reduced to giving up their descriptors.  `exposed` is the history of forks that
fell between the opening of another session's ends and their protection.  Two limits of the code
show here and are stated in the properties: programs forked in each other's window wait for
each other for ever (`Sheltered`), and a terminal (`pty`) program does not see an end of input
after destroy, because the reader blocked on the master keeps it open.

### SerialLine — `machine/duart.c`, `host/comm.c`, `ssu/xonoff.c`

One channel: transmit and receive register, mode register pointer, local loopback, DTR, the two
rings, `pending_rx` / `pending_tx`, the gate.  `phase` walks through the step: instruction
(`Firmware`, at most one register access), `DuartTick`, `CommSend`, `CommRecv`, `UpdateDTR`.  The
session behind the gate is a bounded pipe each way (that is what `IoSession` establishes), its
peer reads, answers, writes or hangs up at any time.  Bytes carry their kind (data, XON, XOFF) and
number.

### NvrStore — EEPROM in `machine/generic.c`, file in `machine/vt420.c`

`NvrTick` is an instruction that moves the pins followed by `nvr_tick`: deselect, rising edge
(`ShiftCommand`, `ShiftData`), falling edge (`NextBit`, `GetReady`), no edge.  `Save` and
`WriteImage` are the truncation and the writing of the image, either of which may fail or be cut
off; `Stop` ends the process at any point; `Boot` loads the file again, padding a short one.
Histories record the bits clocked in and out.

### KeyboardLink — `i8051/peripheral.c`, `lk201/lk201.c`, rings of `common.c`

SCON's flags and the frame length of the serial mode, the transmitter with its double buffer, the
receiver, both rings, the keyboard's queue.  `phase` walks instruction, `KeyboardTick`,
`SerialTick`.  A command byte is known by how many bytes its command has and how many the answer
has; that is all the queueing depends on.  A key byte may be marked to measure how long it stays.

### Cpu and Alu — `i8051/cpu.c`, `i8051/op.c`, timers of `i8051/peripheral.c`, ports of `machine/vt420.c`

`m` holds the registers, the memories, the special function registers by address and the interrupt
in progress; a byte used bit by bit (PSW, IE) is the set of its one bits.  `Step` is `i8051_step`:
`Poll` takes an interrupt, by the code's order, and `Dispatch` executes the next instruction in the
same step.  `Dispatch` is a disjunction of families (`Jumps`, `Moves`, `Sums`, `BitSets`, ...) that
together cover the 256 opcodes: an opcode's high digit says what is done and its low digit to
which operand, which is how `i8051_instruction_bases` folds them.  The distinction the code makes
between a port's latch and its pins is kept (`Get`, `GetLatched`, `PutBit`, `PutBitLatched`), and so
are its departures from the chip: OV from unsigned operands, SUBB without OV and AC, a direct write
to ACC without parity, two timer modes.  `Tick` is the rest of the step: RI, INT1 and T0 move as
the environment likes, then the timers count.  `Alu` has the arithmetic as pure operators.

The program is a constant: `Rom` has `RomSize` bytes and beyond its end the code space reads as
ones, as `vt420_code` has it.  `MCCpu` assembles a program of 290 bytes, in both banks; comments
give its source.  A special function register that no chip uses is plain memory.  SBUF, whose
behaviour is that of KeyboardLink, and external memory that the mapper moves are outside what a
program should touch here: for a program that does, the model says nothing about the code.

### Control — `host/ctl.c`, `host/mcp.c`

The mutex, the emulator thread, and the server thread executing a *script*, the sections of one
tool call.  A section is one stretch with the mutex held; sections that run the machine do it
chunk by chunk until their time is up.  Of the screen only "shows the text" and "is in its refresh
phase" are kept; sessions, gates and configurations are per port.  `Reset` and `Session` may fail
the way `boot_locked` and `comm_connect_duart` can, and so may the copy that records a reconnected
port's configuration: the port then counts as a loopback (`forgot`), and the next reset makes it one,
which `ResetKeepsSessions` says rather than excepts.  `Crash` is the call through a null pointer or
on the destroyed mutex that the code would make.

### Parts

Ten parts share nothing and are checked in one run.  `Parts` composes them, with the assumptions on
their constants, and lets one of them run in each behaviour; `MCParts` gives the small instances.

**EmulatorLoop** (`emu_main`, `ctl.c`) is the clock of the thread whose sections `Control` has:
`ahead` is the deadline relative to now, `Chunk` takes any time up to `MaxHold`, and the three
sleeps are those of a paused, an unlimited and a paced machine.  **WindowLoop** (`sdl.c`) is
`frame_policy_*` with the loop around it, each step of which may take up to `MaxDelay`; a frame is
presented one round after it is found due, which `Patience` allows for.

**FrameLayout** (`video.c`, `fb_render.c`) counts the rows (`Remaining`, `TextRows`), then draws them
one by one: an invalid row is skipped and switches nothing (`SkipRow`), a row of text is cut at the
region that scrolls smoothly (`DrawRow`), and the status row has its fixed place (`DrawStatus`).  Its
height is 16 lines among rows of 16 and 12 among all others (`StatusHeight`): the lines below it keep
what the frame had there, and nothing is said of them.  In a row of double height each line of the
font is shown twice (`FontLine`).
`LinesInPlace` says without an order of drawing where a line belongs: below as many lines as are
shown of the rows above it and of its own row before it (`Before`, a set of lines).  It holds under
`Followed`, which says what the firmware keeps to.  Beyond that the code has limits: the extra row of
a smooth scroll is counted with the height at the bottom of the screen, so with two row heights
lines are lost; counting is wrong for a frame that starts on screen 2, swaps more than once, or swaps at
an invalid row; and of a double-height row that is cut the code stretches what is left, so such a
row is excepted (`Stretched`).  **RowCells**
is the unpacking of twelve-bit characters from the two parts of a row's page.

**MemoryMap** (`vt420.c`, `generic.c`) says where an address leads under the mapper's registers
(`Target`), what writing them switches (`WriteMapper`), and moves the beam (`Tick`).  Registers 4
and 5 do not show the bank and timing in use until they are first written.

**TextGrid** (`text.c`) composes any frame, writes the differences to a terminal that is resized
at any time, and tells apart a write that failed.  Such a failure, or a resize back to the old size
before the size was read, is not repaired until the size changes; `ScreenIsFront` excepts both.
**Typing** (`lk201.c`, `ctl.c`, `peripheral.c`) has the bytes of keys and chords on their way from the
front end through the ring, the line and the receiver, up to the keys the terminal believes to be
down.  Its time is the frame of a byte on the line (`Frame`), at the end of which the receiver ignores
the byte if reception is off or the last one has not been taken; that choice is free, and so is the
number of answers the keyboard puts into the same ring.  The window pushes all bytes of a chord at
once; those for which there is no `Room` are dropped.  The tool server pushes one whatever the ring
holds (`PushByte`), runs the machine until the ring is empty or it gives up (`EndDrain`), and then for
a gap (`EndGap`).  Key bytes closer than a gap are "hurried", and after them the terminal may miss
modifiers (`Mistracks`), as the comment at `ctl.c:18` says its firmware does; the window's chords always
are.  So `TypedIsHeard` says that the terminal hears what was typed if nothing was dropped or
missed.  What is claimed of the tool server is more: its bytes are never hurried, also when a wait was
given up, and unless one was, the ring has room for the rest of a chord once it is begun, so that the
byte which lets go of its modifiers is dropped by nobody but the receiver.  For the window nothing
makes up for that byte if the full ring drops it: the modifier stays down, and the property excepts
that case.

The remaining ones are `Fifo`, `ByteRing`, `LoopbackQueue` and `SessionConfig` (`common.c`,
`ssu/chan.c`, `ssu/config.c`).

`Fifo` is the abstract queue of bytes.  `ByteRing` has the two indices that count for ever in a
machine word, `LoopbackQueue` the buffer that doubles, with what `realloc` leaves uninitialized and
the segment that is moved; both implement `Fifo`, with the bytes between head and tail as its items.

`SessionConfig` reads a description as `tokenize` does, a piece at a time (a character that means
something to the grammar, or a run of others), then the words as `positionals` and `parse_exec` do.
`Meanings` says without an order of reading what a list of words means: each word gets a role, and
the roles fit together in at most one way.  `Init` says a list of words in one of three quotings
(`Said`), or breaks off within the last word (`Broken`): within quotes, or behind a backslash.

One thing met here: `ssu.h:45` calls the configuration PIPES unreachable from the command line, but
`pipe` with three paths gives it (`config.c:234`); a comment at `config.c:217` knows that.

## 3. Runs

| run | question | bounds |
|---|---|---|
| `io_session` | all thread interleavings and failures; with a cooperative peer bytes arrive and destroy winds down | `Cap`=2, 3 bytes in: ring full and one byte in hand; 2 bytes out |
| `io_session_leak` | (violation) destroy without that peer | `Cap`=1, 1 byte |
| `serial_line` | order, loss and pipe under every firmware and peer; no deadlock between hold-backs and a peer that echoes | all capacities 1, cooldown 1, reset sleep 1, 4 bytes out, 3 in: as many as register, hold-back and ring hold, and one more out |
| `exec_open` | two openers at once, every call failing or not, the programs, the ends of file | two sessions of each combination of `exec`, `pty` and `pipes` (`pipe` differs from `pipes` in having one descriptor twice) |
| `nvr_store` | the EEPROM's protocol and its file | 1 address bit, 2 data bits: two words, so that auto-increment and wrap are seen, and a word that is not a bit |
| `nvr_store_eral` | (violation) an erase is not saved | 1 address bit, 1 data bit |
| `keyboard_link` | serial port, rings and keyboard | rings of 2, queue of 3, frames of 2 and 3 ticks, 3 bytes down, 2 keys up |
| `cpu` | a firmware of every instruction family against interrupts at every moment | one program and pair of operands, 2 events among keyboard bytes, falls of INT1 and pulses of T0; timer 0 interrupts by itself twice and more |
| `parts` | ten parts that share nothing, against all their inputs | ring of 4 with indices below 8; queue from 2 to 4; up to 5 arguments; screens of 12 lines with rows of 3 and 4; the code's own row page; every edge of the memory, frames of a few lines; terminals of 2x2 and 2x1; tables of rows with a pair of double height or an invalid row; 2 keys, 2 answers a frame, a ring of 5, gaps of 2 frames and waits of 5; small steps, limits and delays |
| `control` | sections of tool calls against the emulator thread | one port, one configuration besides loopback, waits of up to 3 chunks, 2 frames |
| `control_crash` | (violation) failed reset or reconnection | waits of 1, 1 frame |
| `control_match` | (violation) a matched wait shows a screen without the match | same |

What the passing runs show:

* `io_session`: no interleaving or failure leads to a use after free, a lost
  wakeup or a leak; both directions are FIFO pipes; with a cooperative peer everything ends.
* `serial_line`: nothing inbound is lost, outbound bytes are lost only under
  refusals of the far end, and two full sides never wait for each other.
* `exec_open`: whichever call fails, nothing is left open; a program holds another session's ends
  only if it was forked in the window; outside of it ends of file arrive and destroyed `exec`
  sessions end their programs.
* `nvr_store`: only complete, enabled commands write, and the file gives back what was stored.
* `keyboard_link`: a byte is dropped only where the code says so, and an overrun takes a firmware
  that is late by a frame.
* `cpu`: `InterruptsAreInvisible` and `ResultsAreArithmetic` together say that handlers and program
  do not disturb each other, whatever the instruction at which they meet.
* `parts`: wrap and growth reorder, lose and repeat nothing; no quoting or order of options
  changes what a description means; lines, characters, bytes and keys end up where they belong;
  and no delay, pause or change of speed makes a loop use time twice or rush for long.
* `control`: calls end, gates and configurations survive a reset, and a paused machine stays put.

Why the bounds are enough: rings and channels behave alike at any capacity except when empty and
when full, and each run reaches both, with at least one more byte waiting.  In `control` the
ports share nothing but the mutex, and three equal samples end a settle, so three chunks show
both its ends.  In `cpu` two events let the DUART's line fall
while the keyboard's byte or timer 0 waits, and the line may stay low for ever, which no bound limits.
`exec_open` needs two sessions for a fork to see the other's
descriptors, and the theorems cover any number.  In `parts` a
ring of 4 meets every pair of index positions in a word of 8, and the queue grows from every position
of its head; the frame has more rows than either height needs, so that a swap, a region and the
status row can each come at any place, and rows of two heights give status rows of both; a ring of 5 is
filled by two chords of the window or by the answers of two frames and a byte, and is emptied within a wait.  In `keyboard_link` three bytes down are shift register, buffer and one too many.

### Findings

* **`io_session_leak`** — `ssu.h:86` says that destroy releases everything.  A reader blocked in
  `read()` is not woken by closing its channel, so its thread, descriptor and channel stay until
  the peer writes or hangs up.
* **`nvr_store_eral`** — `README.md:18` says that Set-Up changes survive restarts.  ERAL clears
  the memory but does not advance `write_count`, so it is never written to the file.
* **`control_crash`** — `ctl.h:88` and `mcp.c:338` treat a failed reset as an error to report.  The
  machine is left zeroed and the emulator thread steps it through a null hook.
* **`control_match`** — `mcp.c:58` says that `wait` returns the screen with the text.  Between the
  match and the dump the mutex is free, so a running machine may have changed it.  (Paused, it
  cannot: `PausedMatchIsShown`.)

## 4. Fairness

* `IoSession`: weak fairness for a thread that can run, for the emulation loop's polling, and for
  finishing a destroy once begun: the kernel schedules runnable threads and a mutex here is held for
  a few instructions only.  `open`, `read` and `write` get fairness only in `CooperativeSpec`, the
  assumption "the peer lets calls return"; `io_session_leak` shows it is needed.
* `ExecOpen`: weak fairness of every thread and of a program that reads to the end of its input,
  but not of the second open of a named pipe, which waits for the other side.
* `SerialLine`: weak fairness of the step's phases (the loop never stops), of the peer's reading
  and answering (`EchoSpec`), and strong fairness of `ReadRHR`, which assumes that the ROM comes
  back to the receive register again and again.
* `Control`: weak fairness of both threads.  A pthread mutex promises nothing to waiters, so taking
  it is assumed only while the emulator thread sleeps or has ended, and the emulator is assumed to
  sleep again and again unless it runs unlimited, where `CallEnds` and `StopEnds` promise nothing.
* `Cpu`: instruction and tick follow each other for ever (`Turns`), as the emulator's loop has it.
  Nothing is assumed of the environment: the DUART may hold its line low for good.
* `NvrStore`, `KeyboardLink` and the ten of `Parts` have safety properties only.  `KeysLeaveInTime` is a bound in ticks,
  stronger than an eventuality.

## 5. Proofs

Eight modules hold proofs, one for each component and one for the ten of `Parts`, for every value of
the constants that the assumptions admit.  Every assumption is named and evaluated by TLC in the component's run.

| module | theorem | says |
|---|---|---|
| `IoSessionProofs` | `ChannelsAreSafe` | a channel's count is the number of its holders; one thread frees it, once, when nobody can touch it |
| | `WakeupsAreSafe` | a pump thread sleeps only while its condition is false |
| | `LeavesNothing` | once all threads have returned, no descriptor is open and nothing allocated |
| | `ImplementPipes` | both directions implement `SessionPipe` (`RxImplementsPipe`, `TxImplementsPipe`) |
| `ExecOpenProofs` | `OpenersLeakNothing` | a failed opener leaves nothing open, a successful one exactly its two protected ends |
| | `ExposureOnly` | a program holds a foreign end only if its fork was exposed to it |
| `SerialLineProofs` | `SerialOrder`, `SerialInput` | outward in order and once; inward a pipe that loses nothing |
| | `SerialLosses` | a byte is lost only after as many refusals as the ring holds |
| `NvrProofs` | `MemoryIsCommanded` | the memory changes only at the end of a whole, enabled command |
| | `ReadsAreTrue` | the bits a READ clocks out are those of the word at its address, and of the words after it |
| | `WritesSurviveRestarts` | a restart finds what was written, unless saving failed or it was an ERAL |
| `KeyboardProofs` | `KeyboardHears` | each command byte is heard once and in order |
| | `KeyboardExecutes` | the keyboard executes the commands that the bytes written make up, each once |
| | `KeyLeavesInTime`, `OverrunsAreLate` | a key leaves within the ring's length of frames; an overrun takes a firmware late by a frame |
| `ControlProofs` | `ControlIsSafe` | nothing crashes before a reset or a reconnection has failed |
| | `PausedWait` | a match found while paused is on the screen returned |
| | `GatesOpen`, `SessionsSurvive` | no gate stays closed unseen; a reset gives every port the session it had, or a loopback if its configuration could not be recorded |
| `CpuProofs` | `RequestsKept` | a timer's request is lost only by being taken or written over, never between an instruction and the tick |
| | `LatchesKept` | an instruction that changes a bit of a port leaves the latches of the other bits, whatever the pins are |
| `PartsProofs` | `EmulatorPace` | never more than the limit and two chunks are made up for at once |
| | `WindowPace` | no time is used twice, a rush is bounded, a frame is shown in time |
| | `MemorySound` | no two addresses share a byte, none is hidden or outside; the beam sweeps whole frames |
| | `QueuesAreQueues` | the ring of bytes and the loopback queue implement `Fifo` |
| | `KeysHeard` | the terminal hears the keys typed, with their modifiers, unless a byte was dropped or a change missed; what a tool types is spaced |
| | `FramesAreShown` | the host's terminal shows the frame composed, unless a write or a resize went unnoticed |
| | `FrameRight` | every line of the frame shows the row and the line of it that it should, with invalid and double-height rows, a status row of either height, and while a part of the screen scrolls |
| | `ConfigRight` | the words read are the words meant, however quoted; they are understood as what they mean, in whatever order, or refused |
| | `CharactersAreWhole` | every character of a row has its own three half bytes, and there are 132 |

In addition `TypeOK` is proved of `IoSession`, `ExecOpen`, `SerialLine`, `KeyboardLink`, `Control`,
`NvrStore` and `Cpu`, by the theorem of each whose name ends in `TypeCorrect`.  The runs check it
only of the last two: there it says of words, addresses and registers that their arithmetic stays in
its width.

Of constants the proofs ask what the code gives: capacities are positive, a ring's capacity divides
the number its index wraps at, the timings have a picture, the table of rows reaches over the
screen whatever their height, a status row fits below the text, the parts of a row's page begin at bytes
that continue the three-byte pattern, the words of a description are sequences of pieces (any
strings).  Of typing they ask that the ring has room for what the keyboard can answer in a gap and a
byte more (a gap is 36 frames of 660 steps, in each of which one command of the terminal brings at most
4 bytes: 144, and the ring takes 256), and that a wait is as long as a full ring takes (256 frames; the
code waits for 606).  `CpuProofs` asks besides (`Whole`) that the memories are all
there, 256 cells inside and 65536 outside, as they are in the machine; the run has a few of them
and keeps its program to these.  The program is any.

### The inductive invariants

No property is inductive alone.

* **IoSession.** `NoUseAfterFree` counts holders by program counters, and who holds
  `struct io_boot`'s references depends on how far the opener came: hence `Stages`, which ties the
  opener's place to `boot` and to which pumps run, and `FdOwners`, which does the same for
  descriptors.  The pipes need `RxOrder` and `TxOrder`: the ring holds consecutive numbers after the
  last delivered one, the hand continues them, an error element is last, and "recv" is closed
  before the end only once its producer is gone.  `IInv` is the conjunction (`Inductive`).
* **ExecOpen.** `OpenerHolds` is a table: what the terminal holds of a session, by the opener's
  place.  From it follows that whatever an exec would not close belongs to an opener between its
  open and its protection (`UnprotectedPlaces`), so that a fork copies such a descriptor only where
  `exposed` records it; `Foreign` carries this through exec.
* **SerialLine.** `OutOrdered` says that ring, hold-back and transmit register hold increasing
  numbers above what has left; `InNumbered` that the way in holds exactly the numbers after the last
  one read; `Refused` that a ring cannot be full with a byte held back until the session has refused
  often enough.
* **NvrStore.** `CommandInv` relates the chip's state to the bits clocked in since CS rose: a
  shifting chip has them all, or has just executed EWEN or EWDS and keeps all but the last; a chip
  taking a word has the command and that word's first bits.  `ReadInv` says which word, or the one
  after it, a chip that is read out stands at, by the number of bits it has given.  `SaveInv` says
  that, nothing waiting, failed or erased, loading the file gives the memory.
* **KeyboardLink.** `Counted` balances bytes written against TI raised and bytes under way; `Emptied`
  says which ring is empty in which phase, `OnTime` bounds a byte's wait by its place in the ring,
  `Warned` bounds how long RI has been set by the frame being received.
  `KeyboardExecutes` needs two parts more: after each tick the queue and the answers are what
  reading all the bytes heard gives (`Executed`), and what is queued is no whole command (`Unfinished`).
* **Control.** `Place` says which section each script may be in with which lock; `Recorded`, that a
  session is the configured one, or that its port is on record as a loopback because recording failed; `Matched`, that a paused match is still
  on the screen; `Losses`, which pointers are null only after a failure.
* **Cpu.** `TypeOK` is inductive, given `Whole`.  The proof goes by instructions: `Keeps(c, r)` says
  that the machine `r` an instruction makes of `c` is well typed and has TF0 and TF1 set where `c`
  had, unless it wrote them; there is a lemma for each family of opcodes, `DispatchKeeps` puts them
  together, and `Ticked` says the same of the timers.
* **The loops.** `PaceInv`, `ClockInv` and `SightInv` bound, at each place of the loop, the lateness
  and the time still to come before the next presentation.
* **Memory and beam.** `BeamInv` keeps line and column inside the frame of the timing that was set
  last.  That addresses are disjoint holds in every setting of the mapper and needs no invariant but the type of
  its registers.
* **Ring and queue.** `RingInv` says that the tail follows the head by no more than the capacity,
  modulo the word; `QueueInv` where in the buffer the queue lies, wrapped or not.  Under both
  each operation maps to one of `Fifo` or to a stutter.
* **Typing.** `TypingInv` has two parts.  `LeadOn` says that, nothing dropped or missed, the bytes
  received, on the line, in the ring and still to be pushed, place after place, bring a terminal that
  has heard what it has, and holds down what it does, to exactly the keys typed and nothing held.
  `Spaced` says of the tool server that one byte of its is on its way at a time, how many frames it can
  still take by its place in the ring, and that it is a gap behind the one before; in a gap it bounds the
  answers in the ring by the frames gone by, from which the room for the next byte follows.
* **Text display.** `GridInv` says that, no write failed and no size missed, the terminal shows the
  cells the code believes it shows; only between a new grid and its first frame does it believe
  nothing, in cells that no cell of a frame equals.
* **Frame.** `FrameTypes` keeps the layout that was counted at the start, and the registers, while
  rows are drawn.  `Drawn` says that the drawing stands where the lines shown of the rows above end
  (`Stack`, the sum of their numbers, which is the cardinality that `LinesInPlace` speaks of), and
  that all these lines are in place (`InPlace`, at the end also `StatusInPlace`); it needs that the heights drawn are those counted as long as
  `Followed` holds, and that the rows counted fill the screen, with what scrolled out made good by
  the additional row.
* **Descriptions.** `ConfigInv` has two parts.  While the string is split, `ReadTo` says that the
  words read are the first ones meant and that the reader stands between two words, behind some
  pieces of the next one, or behind its closing quotes; where each word and piece begins in the
  string is the sum of the lengths before it (`Offsets`).  While the words are parsed, `Parsed` says
  that there are roles for the words read which every fitting choice of roles for the whole list
  agrees with (`Agreed`), and that `args` is what these roles say (`Summed`).  A word that no role
  suits, or only one already taken, then leaves the list without a meaning (`NothingFits`), and at the
  end the roles found are the only ones.
* **Rows.** `CellInv` relates the bytes read to the characters complete and to what is carried.

What a fold or a recursive function makes of a sequence is proved where it is needed (`Parsed` and
`Number` of the NVR's bits, the keyboard's commands, the terminal's reading of an output) by
well-founded induction over sets of lengths or positions.

### What stays with TLC

* Every liveness property: fairness and ENABLED are outside the prover.
* `ResultsAreArithmetic` and `InterruptsAreInvisible`, which are about the one program of `MCCpu`.

## 6. Plan

Done: all components above, and a proof of every safety property but the two named in section 5.
What would come next: the DUART's interrupt status, to replace that part of `Cpu`'s environment; the attributes of rows
and cells in `FrameLayout` and `RowCells`.

## 7. Not modelled

Glyphs, colours and attributes, key and character tables, JSON, PNG and logging are conversions
without shared state.  What the text display composes (screen text and panels) is any frame.
The interrupt status and mask of the DUART are the environment of `Cpu`.
`main.c` parses arguments and starts a loop.  `vt5xx.c` is a stub that does not boot.  The session
management protocol of `architecture/SSU.md` is spoken by the ROM and no code here implements it.
The ROM itself is data: modules let the firmware do anything the hardware allows, except where a
comment says what they assume of it.
