# Batradio: a verification development

Batradio records ultrasound and VLF signals with an MCP33131 analogue-to-digital
converter on a Raspberry Pi.  Two programs do the work.  `mcp331131_streaming/`
holds the *streamer*: it lets the Pi's DMA controller read the converter
without the processor's help and streams the samples to a FIFO or to UDP.
`batradio_module/` holds a kernel driver that produces the sampling clock from a
fast interrupt (FIQ), its client, and the experiments that led to it.

This directory models both in TLA+, checks the models with TLC and proves
their properties with TLAPS for every value of the constants: safety outright,
liveness on the hypotheses that the program can move and that `memcpy` returns.

    PingPong.tla          the receive buffers: DMA channel B against the fetch functions
    BlockFeed.tla         what the receive side promises, without buffers and flags
    StreamFifo.tla        the main loop of option -S, on top of PingPong
    StreamUdp.tla         the main loop of option -U, on top of PingPong
    Lifecycle.tla         initialisation, terminate, the signal, failures
    CommandLine.tla       the options of the streamer
    Capture.tla           one block, from the command line to the printed line,
                          with PWM, SPI, DMA and a timeout against the clock
    Formats.tla           conversion, CSV, packet, raw data, time stamps
    BatPrograms.tla       the ten kernel modules as tables of steps
    BatRadio.tla          a kernel module, its clients, the timer and the FIQ
    AdcBench.tla          spiadc.c and led.c, one run after the other
    *_proofs.tla          the proofs about PingPong (with BlockFeed), StreamFifo,
                          StreamUdp, Lifecycle, Capture (with CommandLine),
                          Formats, BatRadio (with BatPrograms) and AdcBench
    *.cfg                 the instances TLC checks
    PROJECT.json          runs, mutants, the map from definitions to source lines,
                          findings, hazards, theorems

    tlc -config StreamFifo.cfg StreamFifo.tla
    tlapm PingPong_proofs.tla

All source names below are in `src/mcp331131_streaming/` unless they say
otherwise; line numbers are those of `rpi_adc_stream.c` unless they say
otherwise.

## 1. Inventory

### Ping-pong receive buffers and fetch functions
*State.* In memory shared with the DMA controller (`ADC_DMA_DATA`, 501): two
buffers `rxd1`, `rxd2`, a time stamp `usecs[n]` and a flag `states[n]` for each;
the control blocks the DMA executes.  In the program: `rx_buff`, the loop
variables of the fetch functions, `samp_total`, `overrun_total`.

*Operations.* DMA channel B (control blocks 0 to 5, 522-527): store the clock in
`usecs[n]`, `nsamp` samples in the buffer, the SPI status word in `states[n]`,
the same for the other buffer, and round again, for ever.  The program:
`adc_stream_csv` (621), `adc_stream_raw` (663) and `adc_stream_packet` (723) look at
the flags, copy a filled buffer, look at the *other* flag to see whether the copy
came too late, and clear the flag or count an overrun.

*What is hard.* The parties share nothing but the flags, and the DMA never
waits.  The check (632) and the store that answers it (638) are two steps; the
overrun branch clears the two flags with two stores (634).

*What makes it correct.* A block handed on is whole, correctly dated, newer
than those before; nothing is lost silently; every flag is served; the totals are
honest.

### Streaming to a FIFO
*State.* `fifo_fd`, `fifo_size`, the kernel's pipe, the reader.  *Operations.*
`do_streaming` (553) with `open_fifo_write` (834), `adc_stream_csv`,
`write_fifo` (842), `fifo_freespace` (853), `close`.  *What is hard.* Readers open,
stall and close at any moment, also between `poll` and `write`; the pipe
fills up; lines longer than `PIPE_BUF` are not atomic.  *Correct* when lines
arrive whole and in order, losses are announced, a reader is served, and a slow
reader never stops the program from emptying the receive buffers.

### Streaming to UDP
*State.* `stream_buff` with the packet, the counter `num` of `main`.
*Operations.* `do_streaming_udp` (583), `adc_stream_packet`, `sendto`.  *What is
hard.* Two blocks may be taken in one call, none in another; the network
reorders.  *Correct* when the serial numbers let the receiver restore the order
of the samples.

### Sample conversion and packet layout
Pure functions: `ADC_RAW_VAL` (73), `ADC_VOLTAGE` (71), the line of `adc_stream_csv`,
the bytes and the checksum of `adc_stream_packet`, the bytes of `adc_stream_raw`,
`usec - usec_start` (639, 644) on a clock that wraps.  *Correct* when a receiver can
compute the samples back.

### Command line
`main` 205-266: options and their limits.  *Correct* when the values used (block
length, rate, PWM range) are within what the rest of the program takes for
granted.

### Life cycle
*State.* six register mappings, the mailbox memory (handle, bus address,
virtual address), the FIFO's name, what the DMA and PWM are doing.
*Operations.* `map_devices`, `map_uncached_mem` and the mailbox calls of
`rpi_dma_utils.c`, `create_fifo`, `fail`, `terminate`, the SIGINT handler.  *What is
hard.* `terminate` runs from any point of the initialisation, and as a signal
handler on top of any step, itself included.  *Correct* when everything acquired
is released once, and the DMA is stopped before its memory goes away.

### Sampling hardware pipeline
Control blocks 6 to 9 (529-533) on two more DMA channels, PWM, the SPI FIFO and
their DREQ signals produce the stream of words that channel B stores.  *Correct*
when every word stored is a conversion of its own, in order.

### Single-shot capture and frequency tests
`adc_dma_init(..., 1)`, `dma_wait` (809), `test_spi_frequency`, `test_pwm_frequency`,
`adc_get_sample`.  *What is hard.* `dma_wait` gives up after 10000 naps, and takes
the moment between two control blocks for the end.  *Correct* when what is printed
is the block asked for, or nothing for a stated reason.

### Register helpers and the DMA display tool
`rpi_dma_utils.c`, `rpi_disp_dma.c`: register accesses without state of their own.

### Kernel module batradio
*State.* The ARM timer with its pending interrupt, the FIQ routing, the byte
`status` in the buffer meant to be shared with user space, and what the module
holds of the kernel's resources.  *Operations.* `init_bat`, `exit_bat`, the ioctls,
`mmap` (`batradio_module/bradio.c`), the FIQ handler (`bradio_handler.S`), the client
(`batradio_client.c`).  *What is hard.* The FIQ handler runs on top of everything;
ioctls run concurrently and without a lock; `init_bat` gives nothing back when
it fails; `rmmod` succeeds under an open device.  *Correct* when no interrupt
reaches the handler after the module is gone, the status byte is true, and the
module can be loaded again.

### Earlier drivers and FIQ experiments
`bradio_1.c`, `bradio_3.c`, `fiqtest.c`, `fiqtest_2.c`, `fiqtest_3.c`, `fiqtest_4.c`,
`testfiqtimer.c`: kernel modules built from the same calls in other orders, with
the same state and operations.  `armtimer.c` prints registers, `fiq.S` toggles a pin.

### Stand-alone experiments
`alloctest.c`, `gpiotest.c` are kernel modules as above.  `spiadc.c` reads the
converter by polling the SPI, `led.c` blinks.  *State.* Two mappings and an
allocation; and in the SPI, which outlives the program, its FIFOs and status
bits.  *What is hard.* control-C on top of any step, and what it leaves to the next
run.  `tst5.c` is an empty probe function.

### Not programs, or without state
The circuit boards; `rpi_disp_dma.c`, which prints registers.

### Interaction
PWM -> SPI -> DMA channel B -> (flags) -> fetch function -> FIFO or UDP ->
reader.  The arrow marked with flags is the only place where two parties
write to the same memory, and everything behind it rests on it.  It
is therefore modelled first and in most detail, and the proofs about the two
main loops rest on those about it.

## 2. The models

### PingPong
Each access of either party to the shared memory is one step, so TLC and the
proofs see every interleaving the hardware can produce.

| definition | code |
|---|---|
| `DmaUsec`, `DmaWord`, `DmaState` | control blocks 0/3, 1/4 (one word), 2/5 |
| `Enter`, `EndOfBuffer`, `EndOfScan`, `Return` | the loops of the fetch functions |
| `Test` | `if (dp->states[n])`, `samp_total += nsamp` |
| `CopyWord`, `Stamp` | one word of `memcpy`; `usec = dp->usecs[n]` |
| `Check` | `if (dp->states[n^1])` |
| `DropSecond`, `DropFirst` | `dp->states[0] = dp->states[1] = 0; overrun_total++; break` |
| `Clear` | `dp->states[n] = 0` |
| `Emit` | the block is formatted into the output buffer |

`Fetch` chooses between the control flow of `adc_stream_csv`, which returns after
the first line or an unsuccessful look, and that of the other two, which
always look at both buffers and do not return before they have seen a filled one.

*Abstractions.* A sample is the number of its block, and so is a time stamp: a
block is torn when its words differ, misdated when they differ from the stamp.
The SPI status word that the DMA stores as flag is never zero (transfer active is
set), hence 1.  The memory is uncached and `states`, `usecs` and the buffers are
`volatile`; the model takes the accesses in program order, with `memcpy` between
the test and the check, and the DMA's writes in the order of the control blocks
(`DMA_WAIT_RESP`).  What `memcpy` reads in one word is one sample.

*History variables* (`lap`, `stalled`, `gap`) never influence a step.  `lap`
counts the blocks completed since the program's last deciding access.  `stalled`
is set when two whole blocks were completed between the check (632) and
the store that answers it (638), or inside the overrun branch.  A block takes
`nsamp` sample periods and the window a few instructions, but Linux may take the
processor away for that long, and then the code really loses track: it clears
the flag of a block it never saw.  The properties are stated up to `stalled`, and
the next overrun that is not itself stalled ends it: the model shows both how
far the guarantee reaches and that the code recovers.  `gap` records that a block
was given up on the record.

### BlockFeed
The abstract specification: a feed of whole blocks, each newer than the last,
with every omission recorded in `lossy`, and a flag `degraded` while the promise
is suspended.  `PingPong` implements it with `received <- blk - 1`, `out <- vals`,
`lossy <- gap`, `degraded <- stalled`.

### StreamFifo
`PingPong` with `Fetch = "csv"` inside `do_streaming`.  The actions `Open`,
`OpenFails`, `Again`, `Csv` (every step of the fetch function), `Poll`, `Write`,
`BrokenPipe`, `Close` are the program's; `ReaderOpens`, `ReaderReads`, `ReaderCloses`
are anybody's.  The pipe is modelled from its use: `Slots` pages; a line takes
`Pages`; a non-blocking write of a line longer than a page stores what fits, and
`do_streaming`, which tests the result for 0 only, takes that for success; the
contents vanish when no end is open.  A page in the pipe is the number of its line,
which part of the line it is, and (history) whether the line was formatted in a
stall of the program.  That the kernel merges short lines into one
page is left out (it only makes the pipe larger).  The sleeps (10 us, 0.1 s) are
absent: they delay the program, and any delay is among the interleavings.

### StreamUdp
`PingPong` with `Fetch = "packet"` inside `do_streaming_udp`.  `pkt` is the header
in `stream_buff`, `sent` the set of packets handed to `sendto`; whatever the
network does, a receiver sees members of that set.  The packet in the buffer with
the block it holds is `Outgoing`.  The call that made a packet
is kept beside it as history, to say how far apart two packets are when the
serial number wraps.  `nrpackets`, a counter printed at an overrun, is left out.

### Lifecycle
The whole program, from `map_devices` to `exit`, in all its modes, without the data.
It stands beside `PingPong`: what that module calls the DMA is here one member of
`running`, and what happens in the streaming loop is here one action, `Stream`.

| definition | code |
|---|---|
| `MapDevices` | `map_devices`, one register block per step, `map_periph`, `map_segment` |
| `OpenMbox`, `AllocVc`, `LockVc`, `MapVc` | `map_uncached_mem` and the mailbox calls in it |
| `Signal`, `Divide` | `signal(SIGINT, terminate)`; `pwm_range = ... / sample_rate` |
| `InitSpi`, `Branch` | `init_spi`, and the `if` of `main` that chooses a mode |
| `GetSample`, `Dump` | `adc_get_sample`: the transfers; `fwrite`, `fclose` on what `fopen` gave |
| `Create` | `create_fifo`, `create_udp_channel` |
| `Stream`, `BrokenPipe` | the FIFO opened and closed in `do_streaming`; SIGPIPE in `write_fifo` |
| `CopyBlocks`, `StartAdc`, `StartTest`, `WaitSpi`, `Wait` | `adc_dma_init`, the two tests, `dma_wait` |
| `CallTerminate` | `fail`, `terminate(0)` |
| `SpiDisable`, `StopDma`, `VcUnmap` ... `VcClose`, `UnmapRegs`, `DestroyFifo`, `Exit` | `terminate`, one step per call |
| `ControlC` | delivery of SIGINT |
| `Trigger`, `ChainEnds` | the DMA: control block 9; a control block without successor |

`at` and `sig` are the places of two calls of `terminate`: main's own, and that of the
signal handler, which runs until it ends while main stands still (`Cur`).  `virt` and
`mapped` differ because `unmap_periph_mem` leaves `virt` as it is.  An access to
registers or memory not mapped is the outcome `"segv"`; the division by a rate of 0
is `"sigfpe"` (the ARM has no instruction for it; the library routine the shipped
binary calls raises the signal); a control-C before `Signal`, and a write to the FIFO
without a reader, are `"killed"`.  `fopen` may fail, which nobody looks at (389), and
`fwrite` (415) is told of `sizeof(filebuf)` elements, twice what `filebuf` has: whether
that crashes depends on what lies on the stack behind it, and `Dump` allows both.
`Trigger` and `ChainEnds` go on after each of these outcomes, as the DMA does.
Left out: the PWM and its clock, which `terminate` does not turn off; messages, and
the re-entrancy of `printf` and `exit` in a signal handler.

### CommandLine and Capture
`CommandLine` is the loop over `argv`, one word a step, with the numbers scaled
down: `OptN`, `OptR`, `OptName`, `OptOther`, `NoOption`, `Unrecognised` are its cases,
and `Mode` is the choice `main` makes afterwards.  `Capture` extends it with the
mode in which nothing but a block is asked for.

| definition | code |
|---|---|
| `Divide` | `pwm_range = (PWM_FREQ * 2) / sample_rate` |
| `Start` | `adc_dma_init(..., 1)`, `start_pwm`, into `dma_wait` |
| `Wake`, `Poll`, `TransferLen` | `usleep(10)`; `while (dma_transfer_len(chan) && --n)` |
| `StopPwm`, `Csv` | `adc_stream_stop`; `adc_stream_csv` and the `printf` of its line |
| `Trigger` | the end of a PWM period: control blocks 7 to 9, a sample in the SPI's FIFO |
| `DmaB`, `Load` | control blocks 0 to 2 of channel B; the loading of `next_cb`, 0 after the third |
| `Tick` | the clock of the PWM, against which `usleep` is measured |

The hardware keeps up: the DMA moves what is there before the next tick.
`usleep` may be late by up to `Late`.

### Formats
Pure operators in the widths of the C variables (`uint16`, `int16`, `byte`, C's
division), and a small state machine around them that formats block after block
with `num` and `usec_start` as they are kept between calls, in the three formats side
by side (`csv`, `packet`, `raw`), of which the program is asked for one.  The properties
say what a receiver reads back.

### BatPrograms and BatRadio
`BatPrograms` has `init_bat`, `exit_bat` and the ioctls of each kernel module as
sequences of named steps, in the order of the code; `BatRadio` says what a step
does.  `InitStore`, `InitTake`, `InitFails` are the steps of `init_bat`: a store to a
register, a resource taken, a resource refused, after which only what the program
gives back is given back (`GivenBack`: two of the ten give back one mapping).
`ExitStore`, `ExitGive` are those of `exit_bat`.  The clients run `batradio_client.c`
line by line (`Script`; `Loops = 20` would be `batradio_client_1.c`); each of their
calls is a sequence of stores, and `status += 100` is a load and a store.  `Expire`
and `Fiq` are the timer and the handler.  A kernel crash is the outcome `oops`.

What the model takes from the code as it is: `batradio_fops` has no owner;
`bradio.c` sets up its static buffer `bufbuf` and leaves `fiq_base` 0, so that the
page `mmap` maps is not the buffer (the client's view of `status` is
therefore not modelled, only the driver's); four programs pass an uninitialised
stack pointer to the handler, two of them a null pin address as well.

### AdcBench
`spiadc` and `led` run one after the other (`Start`).  `SetupStep`, `MapSpi`,
`SetupFails`, `SetupSpi`, `Cnvst`, `Activate`, `SendByte`, `Wait`, `ReadByte` are main;
`SetLed`, `Munmap`, `Free`, `End` are `restore_io` and the exit, run by main or by the
signal handler on top of it (`ControlC`); `Shift` is the SPI, which goes on without
the program.  A conversion is a number, a byte of it `<<conversion, which byte>>`.

## 3. What the runs show

| run | instance | shows |
|---|---|---|
| `fifo` | NSamp 2, MaxBlk 6, Slots 3, Pages 2 | of the buffers under `adc_stream_csv`: whole, dated, new blocks in order, no silent loss, honest totals, the feed, the inductive invariant; of the loop: lines in order and without unannounced loss while readers come and go; a line cut off is followed by the start of a newer one, or of one formatted in a stall; readers are served and never hold up the receive side |
| `udp` | NSamp 2, MaxBlk 9, SerialMod 6 | of the buffers under `adc_stream_packet`: the inductive invariant, the feed, every flag is served; of the loop: serial numbers order the blocks, also when they wrap; at most one block at a time is overwritten in the output buffer; every flag leads to a packet |
| `lifecycle` | all modes, all failures, SIGINT | the DMA never runs on memory given back; a program that exits has released everything; `terminate` ends; a crash, of whatever kind, has one of the causes named; the SPI stays active only after sampling in blocks; the inductive invariant holds |
| `driver` | ten kernel modules, two clients, two loads | no interrupt after the module is gone, but for one failure; two ways to crash the kernel; the status byte is true; a reload finds the names free |
| `bench` | N 3, four programs | every sample is of its own conversion, whatever an interrupted run has left; the SPI is left idle; the handler crashes in two windows only |
| `capture` | four words, five numbers | what is printed is the block asked for, or nothing for one of three reasons |
| `formats` | four bytes, two samples, three calls | a receiver gets the samples back, with serial number and clock at their wrap |
| `fifo_sigpipe` | NSamp 1 | *finding*: a reader that leaves between `poll` and `write` kills the program |
| `fifo_lockstep` | NSamp 1 | *finding*: `fifo_freespace` returns the pipe's capacity, so lockstep discards nothing |
| `udp_overrun` | NSamp 2 | *finding*: after an overrun the previous packet is sent again |
| `output_comments` | one sample of one value | *two findings*, both in one block: a value in a line of CSV exceeds full scale (73), and the checksum of a packet does not start from the serial number, as line 721 says, but with the first word of the header (764) |
| `driver_restart` | `bradio`, one client, no failure | *finding*: `FIQ_START` does not route the interrupt that `FIQ_STOP` has turned off, so that only the first start collects |

`PingPong` has no run of its own: it is checked where it runs, below the two main
loops, once with each control flow of the fetch functions.

*Bounds.* `MaxBlk` stops the DMA in the model when block `MaxBlk` is about to be
completed; `CHECK_DEADLOCK` stays on because the program goes on looking at the flags.
Six complete blocks are three rounds of the two buffers: enough for a stall (two
blocks), the overrun that follows it (two) and the recovery (two).  `NSamp = 2` is
the least for which a block can be torn.  With `Slots = 3` and `Pages = 2` a line
finds room for all of it, for half of it, or none.  `MaxBlk = 9` lets `udp` make more
packets than there are serial numbers (`SerialMod` 6 for 65536).
`Lifecycle` is finite and has no bounds.  In `driver` two loads let an `init_bat` meet
what an earlier life of the module has left, `Loops = 1` makes a client start
and stop twice, and two clients make every pair of calls overlap.  In `bench` an
interrupted run, the run that finds its leavings and the ones in between fit in
four programs; three samples show the second sample's bytes in front of the
third's.  In `capture` the five rates are 0, two that fit the limit (with rate 2
a block of two and the sample after it take 18 ticks, longer than the 12 of `dma_wait`'s
patience; with rate 3 exactly 12, and with the default, 4, only 9), one above it with a
range below the pulse, and one that makes the range 0; four words let two options with
their numbers follow each other.  `formats` takes the bytes at which carries
and signs change, 65534 as first number so that it wraps, and a clock of four
values so that it wraps between blocks.
Configurations say `CHECK_DEADLOCK FALSE` where the program is meant to end, and
why.  Deeper instances of `PingPong` add nothing to what the proofs show for
all values of `NSamp` and `MaxBlk`.

*Fairness.* Weak fairness of the program as a whole (`WF_vars(Cpu)`,
`WF_allVars(Program)`): Linux schedules it again and again, and it has always
something to do; in `Lifecycle` `WF_vars(Program)` says the same of main and its
signal handler.  Nothing is asked of the DMA (it may stop at any time, as it does
when the PWM is stopped) nor of readers.  The liveness properties are therefore
statements about what the program does with what it
is given: a flag that is set is cleared, a reader that waits is served.

*Deviations the properties leave room for.*  Where the code departs from what its
author seems to want and a property is bounded by it, the property says so:

- `CrashCauses`: `fail` before the SPI registers are mapped makes `spi_disable` (931)
  write through a null pointer; a control-C during main's own `terminate` makes
  the second call write to registers the first has unmapped; `main` (268) does not look
  at the result of `map_uncached_mem`, and the wrapper `get_uncached_mem` (374) that
  would fail with a message is never called; `adc_get_sample` does not look at that
  of `fopen` (389) and writes more than its buffer (415); `-R 0` divides by zero
  (270); SIGPIPE is not handled (848).  The last four find the VideoCore's memory
  locked and leave it so, for `CleanExit` is about `exit` only.
- `SpiOffAtExit`: a trigger between `spi_disable` and `stop_dma` leaves the SPI active.
  The property excepts programs that sample in blocks, since the code does not prevent
  it there; what it forbids is any other way: after the tests, and after single
  samples, which leave TA set.
- `PagesInOrder`: a line longer than `PIPE_BUF` (about 680 samples) may lose its end;
  and a line that was formatted in a stall may be older than the one before it,
  also when a reader gets to it long after the stall has ended, which is why the
  page, and not the moment of reading, says so.
- `NoStrayFiq`, `OopsCauses`: a failure of `misc_register` (`bradio.c:212`) leaves timer
  and FIQ running on a stack that goes with the module; a client that keeps the device
  open runs into code that is gone.  Of the other programs, `bradio_1.c` and
  `alloctest.c` free their buffer through a pointer in memory already freed, and
  most use whatever stack pointer an uninitialised `regs` holds: `OopsCauses` is stated
  for the two that set one.
- `Reloads`: an `init_bat` that fails leaves its platform device registered.
- `PrintsBlock`: `-R` (238) compares the rate so far with the maximum, takes any
  number, and after one above the maximum no other; the instance has such rates, and
  the property says what is printed.  A rate at which a block and one more sample take 10000 naps or
  more prints nothing, and neither does a `dma_wait` that looked between two control
  blocks.  When the two times are equal it depends on who is first at the last
  tick, the trigger or the poll.  Above
  2.6 MHz the pulse fills the period and nothing is converted.
- `Decodes`: the receiver adds up the whole packet, header included, as the code does
  (`AddsFrom(1)`); one that follows the comment at 721 (`AddsFrom(4)`) is refuted by
  `output_comments`.  `adc_stream_raw` rounds to 0, so the upper byte of a negative
  value is one too high.
- `TimeFromFirst`: a first time stamp of 0 is taken for not set.

In the models without a property of their own: `create_fifo` (826) is content
with any file of that name, and `terminate` removes it; a full pipe makes `write_fifo`
(847) return 0, as if there were no reader; the client
tests `open`'s result for 0, which failure is not.

*Mutants.* For each property of each passing run, `PROJECT.json` names a mutant: a
plausible slip in a mapped definition with which TLC finds the property
violated.

## 4. What is proved

Every property that a passing run checks is also a theorem, for all values of the
constants: the safety and the action properties outright, the liveness properties
under hypotheses named below (*Liveness*).  The only other assumptions are the
`ASSUME`s of the modules, which say what the constants are (`NSamp` positive, `Slots`
positive, `MayFail` a set of calls, and the like), except where the text below says
otherwise.

Each component has an inductive invariant, at the end of its module, made of
named parts.  It was first checked with TLC on the instance of the component's
run, then proved with one lemma per action; the theorems read the properties
off it.  The parts named below are those that make the properties inductive.

| module | theorems |
|---|---|
| `PingPong_proofs` | `Invariance`, `TypeCorrect`, `BlockIsWhole` (`WholeBlock`), `BlocksInOrder` (`NewerBlock`), `LossIsCounted` (`NoSilentLoss`), `NewestIsTaken` (`NewestBlock`), `SampTotalBounded`, `Refinement` (`ImplementsFeed`), `FlagsAreServed` (`FlagServed`) |
| `StreamFifo_proofs` | `FifoInvariance`, `FifoTypeCorrect`, `LinesFollow` (`LineSuccessor`), `WritesFit`, `ReadersSeeOrder` (`PagesInOrder`), `FifoFeeds` (`ImplementsFeed`), `FlagsTakenWhileOpen` (`TakenWhileOpen`), `ReadersAreServed` (`ReaderServed`) |
| `StreamUdp_proofs` | `UdpInvariance`, `UdpTypeCorrect`, `SerialsOrder` (`SerialOrdersBlocks`), `OneOverwritten`, `UdpFeeds` (`ImplementsFeed`), `FlagsAreSent` (`FlagSent`) |
| `Lifecycle_proofs` | `Invariance`, `TypeCorrect`, `DmaMemorySafe` (`DmaOwnsMemory`), `ExitIsClean`, `CrashesExplained` (`CrashCauses`), `SpiIsOff` (`SpiOffAtExit`), `TerminateEnds` (`Ends`) |
| `Capture_proofs` | `CaptureInvariance`, `PrintsTheBlock` (`PrintsBlock`) |
| `Formats_proofs` | `FormatsInvariance`, `TimeCounts` (`TimeFromFirst`), `SamplesAreBack` (`Decodes`) |
| `BatRadio_proofs` | `Invariance`, `TypeCorrect`, `NothingStray` (`NoStrayFiq`), `CausesOfOops`, `ReloadsWell`, `StatusTold` (`StatusTells`) |
| `AdcBench_proofs` | `Invariance`, `SamplesFresh`, `SpiIdle` (`LeavesSpiIdle`), `Windows` (`CrashWindows`) |

*PingPong*, for every `NSamp`, `MaxBlk` and both values of `Fetch`.
None of the properties is inductive: whether a copy is whole
depends on where the DMA was during `memcpy`, of which only the flags are left.
`IInv` says what the flags mean.
`MemoryInv`: the buffer the DMA is not filling holds block `blk - 1`, the other
a prefix of block `blk`.  `FlagInv`: a flag that stands alone belongs to the complete
buffer.  `CopyInv`: while the other flag is clear, what has been copied is block
`blk - 1`.  So a clear other flag at the check means the copy is good.
`ClearInv` and `EmitInv` follow what up to one more block does to this
between the check and the store, which is where `lap` is needed; `DropInv` does
the same inside the overrun branch.  The store order matters there: between the
two stores the flag left standing is `states[0]`, and `FlagInv` is suspended.
`OrderInv` and `GapInv` relate the last block formatted to what the flags
still announce, `CountInv` does so for `samp_total`.  The refinement maps `DmaState` to
`Receive`, `DropFirst` to `GiveUp`, `Emit` to `Deliver` or `GiveUp`, a stalled `Clear`
to `Stall`, and every other step to a stutter.

*StreamFifo*, for every size of the pipe and lines of one or two pages.
Every step of the loop, of the DMA and of a reader is a step of `PingPong` or leaves
its variables alone (`FifoStep`), so `IInv` and the refinement carry over.
`LineInv` says how far the block formatted is ahead of the line written:
one ahead if nothing was lost in between, and no further back than the flags still
announce (`OlderThan`, which `PingPong_proofs` shows to be stable).  `PipeInv`: each page
in the pipe follows the one before it as a reader will see it, the first
follows the page read last, and the last belongs to the last line written; this
turns what a reader sees later into what the writer does now.

*StreamUdp*, for every `SerialMod`.  `CallInv`: a call that returns was paid for with a block, so
there are no more calls than blocks.  `SentInv`: packets of later calls hold
newer blocks.  `PktInv`: the packet in the buffer is of this call and newer than
those sent, or is one of them, which is the case after an overrun.  `StepInv`: a call
formats one block of each buffer at most.  The order of serial numbers
follows by arithmetic modulo `SerialMod` (`SerialDistance`) for calls less than half a
wrap apart.

*Lifecycle*, for every set of modes and of calls that may fail, any rate, with and
without SIGINT.  `MainInv`: main acquires in a fixed order, so that a place in `main`
says what is held; no channel is started before the memory is locked and mapped
and the DMA registers are mapped.  `StopInv`: a call of `terminate` past `stop_dma`
of a channel has stopped it, and none is started again, for main stands
still.  `HeldInv`: a call past `free_vc_mem` has freed the memory; what is held has its
handle and an open descriptor, so freeing succeeds.  `RegsInv`: registers
stay mapped until a call of `terminate` has come to them, which is after its last use
of them; only a second call can then find them gone.  `CrashCauses` is a part of the
invariant, for a crash is explained by the place at which it happens: `Segv`,
`Crash`, `Divide` and `BrokenPipe` are the only steps to one, and nothing moves the
program after it.  All four are stated for
each of the two calls of `terminate`: when the signal interrupts main's own
call, the second goes through the same steps on what the first has left.  What the
proof does not need is that `terminate` works: a crash in `spi_disable`
leaves the DMA running, but also the memory locked.  `SpiInv` stands
beside them: past `spi_disable` only a trigger makes the SPI active, and only
the blocks of `adc_dma_init` hold one.

*Capture*, for every command line, rate, buffer and patience.  That what is printed
is the block rests on `OrderInv`: every sample since the start is in `rxd1` or
still in the SPI's FIFO, in order; and on `ChainInv`: channel B is as far as its
control block says.  That something is printed compares two clocks that
start together: the naps of `dma_wait` and the periods of the PWM.  `WaitInv` says
that the time slept is at most the time the PWM has run (`NapTime <= PwmTime`), so
that `dma_wait` runs out of patience only when the samples take as long.

*Formats*, for every set of bytes, every `NSamp` that fits the buffers (at most 1024) and
every width of the clock.  The samples come back because the bytes cut off
on one side are those put together on the other (`Int16Twice`, `Halves`, `Rounded`
for C's division, `RawVal` for what `ADC_RAW_VAL` leaves above 16 bits), and because the
bytes of each word are where a receiver looks for them (`LaidOut`, `Joined`,
`WordsAre`).  That the words before the checksum add up to it (`ChecksumBack`) compares two sums,
of the words a receiver sees and of the samples `adc_stream_packet` adds up, and
takes an induction over the data.  The provers cannot instantiate an induction
theorem, whose parameter is an operator.  `SubsetInduction` therefore takes a *set*, that of
the subsets for which the claim holds, and follows from the well-foundedness of
strict inclusion (`WFMin`).  From it: the recursive function the library chooses for a sum exists
(`SumsExist`) and is unique; a sum is one of its elements, whichever (`SumOut`), and
the sum of the rest; and the sum of a packet's words is its four words of header
and the sum of its data (`SumHeaded`).  `TimeCounts` needs only that differences of clock values modulo its
width are those of the times (`ModDifference`).

*BatRadio*, for any of the ten programs, any resources that may be
refused, any number of clients, and of insertions.  The proofs use of the tables
in `BatPrograms` only what they have in common (`Fits`: `exit_bat` turns off the
routing that `init_bat` turns on, gives back by name what that takes by name, and
has the device go first), which one lemma shows of all ten.
`RouteInv`: routed to the timer means that `init_bat` did it and `exit_bat` still comes
to `fiq_off`.  `OpenInv`: a descriptor leads to the module as long as it is in.  `NamedInv`:
what is held by name is what the steps so far have taken.  `StatusInv` (for
`StatusTells`) goes through each ioctl store by store (`Within`), and counts the
clients that may have added 100 to the status byte (`Says`).  `StatusTold` has a
hypothesis of its own, that there are at most 27 clients: 28 times 100 added
to 23 is 7 modulo 256, and "started" would read "stopped".

*AdcBench*, for any number of samples and of runs.  `TransferInv` says at each step of
`spiadc` where the bytes of the conversion in progress are: not shifted yet, or
in the receive FIFO.  It holds from the clearing of the FIFOs on, whatever an
interrupted run has left, since no sample is stored before that (`SampleInv`).

*Liveness.*  `FlagServed`, `TakenWhileOpen`, `FlagSent` and `Ends` are proved along the chain of the
places the program goes through, from anywhere in the invariant to the goal:
`Goes(P, Q)` (`Leads`, `Moves`, `Takes`) says that no step of anybody leads from `P` out of `P` and
`Q`, and that each step of the program leads to `Q`.  The lemmas on single steps give
one such fact for each place, the invariant says that there are no other places,
and temporal logic with the weak fairness of the specification does the rest.
`ReaderServed` takes one step, for a closed descriptor means that the program is at
the top of its loop (`FdInvariance`).  Two things cannot be proved here and are
hypotheses of these theorems:

- `NeverStuck` (`FifoNeverStuck`, `UdpNeverStuck`): a step of the program is possible while there is
  something to do.  `ENABLED` is a formula like any other to the prover.  For the FIFO
  this includes that poll, write and open do not block, which is what
  `O_NONBLOCK` and the tests before them are for.
- `MemcpyReturns`: the copy of `NSamp` words comes to an end, for which the words
  would have to be counted in an induction over time.  `Ends` and `ReaderServed` do not
  need it.

On the instances of the runs TLC's check of the properties covers both: a place
in which the program could not move, or a copy without end, with the flag set
(it is, while `memcpy` copies: `CopyInv`), the reader waiting or `terminate` called, would be a
behaviour that violates the property.

*What the proof attempts have corrected.*  Two properties held on their
instances and were false in general.  `PagesInOrder` excused a page by a stall at the moment
it was *read*; a page may be read after the stall has ended, and the instance was
too short for that.  `PrintsBlock` took the time of a block to be longer than the
patience of `dma_wait` when nothing is printed; it may be equal, and no rate of the
instance made it so.  Both are now stated as they hold, and the `capture` run has
the equal case.

*Only model-checked.*  The hypotheses of the liveness theorems, by way of the
properties as said above.  The findings, which are counterexamples.

## 5. Plan

The modules planned are written; `Capture` stands for the planned `DmaChain` and
`SingleShot`, `Formats` for `Packet`.  The proofs planned are done.  What could
still be added:

1. `StatusTold` for 28 clients: the one that starts the timer has mapped the buffer
   before, so that 28 are one too few to turn a 23 into a 7.
2. An abstract specification of `terminate` (everything acquired is released once,
   in an order in which nothing is used after it) that `Lifecycle` refines.
3. An abstract specification of the FIFO as a reader sees it, a sequence of lines
   some of which are cut off, that `StreamFifo` refines.

## 6. What is not modelled, and why

- The feeding of the PWM through its FIFO (control block 7 and DREQ), and
  rates the SPI cannot follow: they depend on the controller's arbitration, of which
  the code says nothing.
- What `test_spi_frequency`, `test_pwm_frequency` and `adc_get_sample` measure; what
  they map, start and stop is in `Lifecycle`.
- `armtimer.c`, `fiq.S`, `tst5.c`, `rpi_disp_dma.c`: they print or toggle, and keep
  nothing.
- GPIO accesses, the level of the CNVST pin, the timer's period.
- The samples of the kernel module: no version writes the buffer yet.
- Circuit boards and libraries.
- The text of messages, `-v` output, and the printing of numbers.
