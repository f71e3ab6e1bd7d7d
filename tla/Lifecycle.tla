----------------------------- MODULE Lifecycle -----------------------------
(***************************************************************************)
(* The streamer from start to end: main maps the peripherals' registers,   *)
(* takes memory from the VideoCore through the mailbox, starts the DMA on  *)
(* it, and terminate takes everything down again.  Terminate runs at the   *)
(* end of main, from fail in the middle of the initialisation, and, once   *)
(* main has called signal, as handler of SIGINT on top of whatever main is *)
(* doing, terminate included.                                              *)
(*                                                                         *)
(* An access to registers or memory that are not mapped ends the process   *)
(* ("segv"), and so does a division by 0 ("sigfpe") or a signal that is    *)
(* not handled ("killed").  The DMA does not end with the process, and     *)
(* neither does the VideoCore's memory go back by itself.                  *)
(***************************************************************************)
EXTENDS Naturals

CONSTANTS
  Modes,    \* what the options ask for: a subset of AllModes
  MayFail,  \* calls of the system that may fail: a subset of Calls
  Sigint    \* whether control-C may be pressed

AllModes == {"test", "sample", "fifo", "udp", "single"}
Calls    == {"map", "mbox", "alloc", "lock", "vcmap", "mkfifo", "socket",
             "fopen", "fwrite"}

ASSUME ModesAssumption   == Modes \subseteq AllModes
ASSUME MayFailAssumption == MayFail \subseteq Calls
ASSUME SigintAssumption  == Sigint \in BOOLEAN

VARIABLES
  mode,      \* testmode, sample_count, fifo_name and ip_addr, by precedence
  fifo_name, \* whether -S was given
  sample_rate, \* 0, or 1 for any other
  pc,        \* where main is
  at,        \* how far main's own call of terminate is; "no": not called
  sig,       \* the same of the call by the signal
  handler,   \* SIGINT is handled by terminate
  virt,      \* members of MEM_MAPs whose virt is not 0: register blocks, "vc"
  mapped,    \* those of them that are mapped
  fd,        \* vc_mem.fd: "none" for 0, "open", or "closed" and still # 0
  h,         \* vc_mem.h # 0
  held,      \* the VideoCore's memory: "none", "allocated", "locked"
  cbs,       \* control blocks in it: "none", "test", "adc"
  running,   \* DMA channels that are active
  spi,       \* SPI transfers are active: TA in its CS register
  file,      \* what the name of -S stands for: "none", "fifo", "other"
  fifo_fd,   \* the FIFO is open
  outcome    \* "running", "exit", "segv", "sigfpe", "killed"

optVars  == <<mode, fifo_name, sample_rate>>
progVars == <<pc, at, sig, handler, outcome>>
memVars  == <<virt, mapped, fd, h, held>>
hwVars   == <<cbs, running, spi>>
fileVars == <<file, fifo_fd>>
vars     == <<optVars, progVars, memVars, hwVars, fileVars>>

Regs     == {"gpio", "dma", "spi_regs", "clk", "pwm", "usec"}
Channels == {"A", "B", "C"}

-----------------------------------------------------------------------------
(* Mutants: memory mapped without having been allocated; the memory given  *)
(* back before the DMA is stopped; the DMA registers unmapped before they  *)
(* are used to stop it.                                                    *)
MapSkipsMbox == [gpio |-> "dma", dma |-> "spi_regs", spi_regs |-> "clk",
                 clk |-> "pwm", pwm |-> "usec", usec |-> "vcmap"]

FreeFirst ==
  [spi_disable |-> "vc_unmap", vc_unmap |-> "vc_unlock",
   vc_unlock |-> "vc_free", vc_free |-> "vc_close", vc_close |-> "stop_A",
   stop_A |-> "stop_B", stop_B |-> "stop_C", stop_C |-> "usec",
   usec |-> "pwm", pwm |-> "clk", clk |-> "spi_regs", spi_regs |-> "dma",
   dma |-> "gpio", gpio |-> "fifo", fifo |-> "exit"]

DmaRegsFirst ==
  [spi_disable |-> "dma", dma |-> "stop_A", stop_A |-> "stop_B",
   stop_B |-> "stop_C", stop_C |-> "vc_unmap", vc_unmap |-> "vc_unlock",
   vc_unlock |-> "vc_free", vc_free |-> "vc_close", vc_close |-> "usec",
   usec |-> "pwm", pwm |-> "clk", clk |-> "spi_regs", spi_regs |-> "gpio",
   gpio |-> "fifo", fifo |-> "exit"]

(* The order of map_devices; the next thing is the mailbox.                *)
NextMap == [gpio |-> "dma", dma |-> "spi_regs", spi_regs |-> "clk",
            clk |-> "pwm", pwm |-> "usec", usec |-> "mbox"]

(* The order of terminate.                                                 *)
Then ==
  [spi_disable |-> "stop_A", stop_A |-> "stop_B", stop_B |-> "stop_C",
   stop_C |-> "vc_unmap", vc_unmap |-> "vc_unlock", vc_unlock |-> "vc_free",
   vc_free |-> "vc_close", vc_close |-> "usec", usec |-> "pwm",
   pwm |-> "clk", clk |-> "spi_regs", spi_regs |-> "dma", dma |-> "gpio",
   gpio |-> "fifo", fifo |-> "exit"]

Init ==
  /\ mode \in Modes
  /\ fifo_name \in BOOLEAN
  /\ mode = "fifo" => fifo_name
  /\ mode \in {"udp", "single"} => ~fifo_name
  /\ sample_rate \in {0, 1}
  /\ pc = "gpio" /\ at = "no" /\ sig = "no" /\ handler = FALSE
  /\ virt = {} /\ mapped = {} /\ fd = "none" /\ h = FALSE /\ held = "none"
  /\ cbs = "none" /\ running = {} /\ spi = FALSE
  /\ file \in {"none", "fifo", "other"} /\ fifo_fd = FALSE
  /\ outcome = "running"

-----------------------------------------------------------------------------
(* Main.                                                                   *)

InMain == outcome = "running" /\ sig = "no" /\ at = "no"

(* fail, and the end of main: a call of terminate                          *)
CallTerminate == pc' = "terminate" /\ at' = "spi_disable"
GoTo(next)    == pc' = next /\ at' = at

(* An access through a pointer that is NULL or not mapped any more         *)
Segv == outcome' = "segv" /\ UNCHANGED <<pc, at>>

MapDevices ==
  /\ InMain /\ pc \in Regs
  /\ \/ /\ virt' = virt \cup {pc} /\ mapped' = mapped \cup {pc}
        /\ GoTo(NextMap[pc])
     \/ /\ "map" \in MayFail
        /\ CallTerminate
        /\ UNCHANGED <<virt, mapped>>
  /\ UNCHANGED <<optVars, sig, handler, outcome, fd, h, held, hwVars, fileVars>>

OpenMbox ==
  /\ InMain /\ pc = "mbox"
  /\ \/ fd' = "open" /\ GoTo("alloc")
     \/ "mbox" \in MayFail /\ CallTerminate /\ UNCHANGED fd
  /\ UNCHANGED <<optVars, sig, handler, outcome, virt, mapped, h, held, hwVars,
                 fileVars>>

(* alloc_vc_mem and lock_vc_mem; their failure is the result 0 of          *)
(* map_uncached_mem, which main does not look at                           *)
AllocVc ==
  /\ InMain /\ pc = "alloc"
  /\ \/ h' = TRUE /\ held' = "allocated" /\ GoTo("lock")
     \/ "alloc" \in MayFail /\ GoTo("signal") /\ UNCHANGED <<h, held>>
  /\ UNCHANGED <<optVars, sig, handler, outcome, virt, mapped, fd, hwVars,
                 fileVars>>

LockVc ==
  /\ InMain /\ pc = "lock"
  /\ \/ held' = "locked" /\ GoTo("vcmap")
     \/ "lock" \in MayFail /\ GoTo("signal") /\ UNCHANGED held
  /\ UNCHANGED <<optVars, sig, handler, outcome, virt, mapped, fd, h, hwVars,
                 fileVars>>

MapVc ==
  /\ InMain /\ pc = "vcmap"
  /\ \/ /\ virt' = virt \cup {"vc"} /\ mapped' = mapped \cup {"vc"}
        /\ GoTo("signal")
     \/ "vcmap" \in MayFail /\ CallTerminate /\ UNCHANGED <<virt, mapped>>
  /\ UNCHANGED <<optVars, sig, handler, outcome, fd, h, held, hwVars, fileVars>>

Signal ==
  /\ InMain /\ pc = "signal"
  /\ handler' = TRUE
  /\ GoTo("divide")
  /\ UNCHANGED <<optVars, sig, outcome, memVars, hwVars, fileVars>>

(* pwm_range = (PWM_FREQ * 2) / sample_rate, by the routine of the ARM     *)
(* that raises SIGFPE                                                      *)
Divide ==
  /\ InMain /\ pc = "divide"
  /\ \/ sample_rate # 0 /\ GoTo("init_spi") /\ UNCHANGED outcome
     \/ sample_rate = 0 /\ outcome' = "sigfpe" /\ UNCHANGED <<pc, at>>
  /\ UNCHANGED <<optVars, sig, handler, memVars, hwVars, fileVars>>

(* init_spi and gpio_mode, then the choice of main                         *)
Branch == [test |-> "test_spi", sample |-> "sample", fifo |-> "create",
           udp |-> "create", single |-> "adc"]

InitSpi ==
  /\ InMain /\ pc = "init_spi"
  /\ spi' = FALSE
  /\ GoTo(Branch[mode])
  /\ UNCHANGED <<optVars, sig, handler, outcome, memVars, cbs, running,
                 fileVars>>

(* adc_get_sample starts transfers by hand and leaves the last one active  *)
GetSample ==
  /\ InMain /\ pc = "sample"
  /\ spi' = TRUE
  /\ GoTo("dump")
  /\ UNCHANGED <<optVars, sig, handler, outcome, memVars, cbs, running,
                 fileVars>>

(* The samples are written to a file of which nobody knows whether fopen   *)
(* has opened it; and fwrite is told of twice as many bytes as filebuf     *)
(* has, so that it depends on what lies behind that on the stack           *)
Dump ==
  /\ InMain /\ pc = "dump"
  /\ \/ GoTo("done") /\ UNCHANGED outcome
     \/ {"fopen", "fwrite"} \cap MayFail # {} /\ Segv
  /\ UNCHANGED <<optVars, sig, handler, memVars, hwVars, fileVars>>

(* create_fifo, which is content with any file of that name, and           *)
(* create_udp_channel                                                      *)
Create ==
  /\ InMain /\ pc = "create"
  /\ \/ /\ file' = IF mode = "fifo" /\ file = "none" THEN "fifo" ELSE file
        /\ GoTo("adc")
     \/ /\ (IF mode = "fifo" THEN "mkfifo" ELSE "socket") \in MayFail
        /\ GoTo("done")
        /\ UNCHANGED file
  /\ UNCHANGED <<optVars, sig, handler, outcome, memVars, hwVars, fifo_fd>>

(* adc_dma_init, test_spi_frequency and test_pwm_frequency first copy      *)
(* their control blocks to the VideoCore's memory; all but the last clear  *)
(* the SPI's CS register                                                   *)
Copied == [adc |-> "start_C", test_spi |-> "start_spi",
           test_pwm |-> "start_pwm"]

CopyBlocks ==
  /\ InMain /\ pc \in {"adc", "test_spi", "test_pwm"}
  /\ IF "vc" \in virt
     THEN /\ cbs' = IF pc = "adc" THEN "adc" ELSE "test"
          /\ GoTo(Copied[pc])
          /\ spi' = IF pc = "test_pwm" THEN spi ELSE FALSE
          /\ UNCHANGED outcome
     ELSE Segv /\ UNCHANGED <<cbs, spi>>
  /\ UNCHANGED <<optVars, sig, handler, memVars, running, fileVars>>

(* start_dma of adc_dma_init: channels C, B, A                             *)
StartAdc ==
  /\ InMain
  /\ \/ pc = "start_C" /\ running' = running \cup {"C"} /\ GoTo("start_B")
     \/ pc = "start_B" /\ running' = running \cup {"B"} /\ GoTo("start_A")
     \/ pc = "start_A" /\ running' = running \cup {"A"}
        /\ GoTo(IF mode = "single" THEN "wait" ELSE "stream")
  /\ UNCHANGED <<optVars, sig, handler, outcome, memVars, cbs, spi, fileVars>>

(* start_dma and dma_wait of the tests, which may time out; the SPI test   *)
(* also starts and ends a transfer                                         *)
StartTest ==
  /\ InMain
  /\ pc \in {"start_spi", "start_pwm"}
  /\ running' = running \cup {"A"}
  /\ spi' = (pc = "start_spi")
  /\ GoTo(IF pc = "start_spi" THEN "wait_spi" ELSE "wait")
  /\ UNCHANGED <<optVars, sig, handler, outcome, memVars, cbs, fileVars>>

WaitSpi ==
  /\ InMain /\ pc = "wait_spi"
  /\ spi' = FALSE
  /\ GoTo("test_pwm")
  /\ UNCHANGED <<optVars, sig, handler, outcome, memVars, cbs, running,
                 fileVars>>

(* dma_wait, stop_pwm and adc_stream_csv of the single block               *)
Wait ==
  /\ InMain /\ pc = "wait"
  /\ GoTo("done")
  /\ UNCHANGED <<optVars, sig, handler, outcome, memVars, hwVars, fileVars>>

(* The streaming loop, of which only the FIFO's descriptor matters here    *)
Stream ==
  /\ InMain /\ pc = "stream" /\ mode = "fifo"
  /\ fifo_fd' = ~fifo_fd
  /\ UNCHANGED <<optVars, progVars, memVars, hwVars, file>>

(* A write without a reader: SIGPIPE, which nobody handles                 *)
BrokenPipe ==
  /\ InMain /\ pc = "stream" /\ fifo_fd
  /\ outcome' = "killed"
  /\ UNCHANGED <<optVars, pc, at, sig, handler, memVars, hwVars, fileVars>>

Done ==
  /\ InMain /\ pc = "done"
  /\ CallTerminate
  /\ UNCHANGED <<optVars, sig, handler, outcome, memVars, hwVars, fileVars>>

Main ==
  \/ MapDevices \/ OpenMbox \/ AllocVc \/ LockVc \/ MapVc \/ Signal \/ Divide
  \/ InitSpi \/ GetSample \/ Dump \/ Create \/ CopyBlocks \/ StartAdc
  \/ StartTest \/ WaitSpi \/ Wait \/ Stream \/ BrokenPipe \/ Done

-----------------------------------------------------------------------------
(* Terminate, in the signal handler if that is active.                     *)

Cur == IF sig # "no" THEN sig ELSE at

Terminating(op) == outcome = "running" /\ Cur = op

Advance(op) ==
  /\ IF sig # "no" THEN sig' = op /\ at' = at ELSE at' = op /\ sig' = sig
  /\ UNCHANGED <<pc, handler, outcome>>

Crash == outcome' = "segv" /\ UNCHANGED <<pc, at, sig, handler>>

(* Mutant: spi_disable keeps the bits it finds in the CS register.         *)
SpiDisableKeeps ==
  /\ Terminating("spi_disable")
  /\ IF "spi_regs" \in mapped THEN Advance(Then["spi_disable"]) ELSE Crash
  /\ UNCHANGED <<optVars, memVars, hwVars, fileVars>>

SpiDisable ==
  /\ Terminating("spi_disable")
  /\ IF "spi_regs" \in mapped
     THEN spi' = FALSE /\ Advance(Then["spi_disable"])
     ELSE Crash /\ UNCHANGED spi
  /\ UNCHANGED <<optVars, memVars, cbs, running, fileVars>>

(* stop_dma does nothing when dma_regs.virt is 0                           *)
StopDma(op, chan) ==
  /\ Terminating(op)
  /\ IF "dma" \in virt /\ "dma" \notin mapped
     THEN Crash /\ UNCHANGED running
     ELSE /\ running' = IF "dma" \in virt THEN running \ {chan} ELSE running
          /\ Advance(Then[op])
  /\ UNCHANGED <<optVars, memVars, cbs, spi, fileVars>>

StopAll == StopDma("stop_A", "A") \/ StopDma("stop_B", "B")
           \/ StopDma("stop_C", "C")

(* unmap_periph_mem(&vc_mem): without a mailbox there is nothing to do     *)
VcUnmap ==
  /\ Terminating("vc_unmap")
  /\ mapped' = mapped \ {"vc"}
  /\ Advance(IF fd = "none" THEN Then["vc_close"] ELSE Then["vc_unmap"])
  /\ UNCHANGED <<optVars, virt, fd, h, held, hwVars, fileVars>>

VcUnlock ==
  /\ Terminating("vc_unlock")
  /\ held' = IF h /\ fd = "open" /\ held = "locked" THEN "allocated" ELSE held
  /\ Advance(Then["vc_unlock"])
  /\ UNCHANGED <<optVars, virt, mapped, fd, h, hwVars, fileVars>>

(* Mutant: the handle is forgotten and not freed.                          *)
VcFreeForgets ==
  /\ Terminating("vc_free")
  /\ h' = FALSE
  /\ Advance(Then["vc_free"])
  /\ UNCHANGED <<optVars, virt, mapped, fd, held, hwVars, fileVars>>

VcFree ==
  /\ Terminating("vc_free")
  /\ held' = IF h /\ fd = "open" THEN "none" ELSE held
  /\ Advance(Then["vc_free"])
  /\ UNCHANGED <<optVars, virt, mapped, fd, h, hwVars, fileVars>>

VcClose ==
  /\ Terminating("vc_close")
  /\ fd' = "closed"
  /\ Advance(Then["vc_close"])
  /\ UNCHANGED <<optVars, virt, mapped, h, held, hwVars, fileVars>>

(* Mutant: virt cleared, too early for unmap_segment to find anything.     *)
UnmapNothing ==
  /\ outcome = "running" /\ Cur \in Regs
  /\ virt' = virt \ {Cur}
  /\ Advance(Then[Cur])
  /\ UNCHANGED <<optVars, mapped, fd, h, held, hwVars, fileVars>>

(* unmap_periph_mem of the registers; their virt keeps its value           *)
UnmapRegs ==
  /\ outcome = "running" /\ Cur \in Regs
  /\ mapped' = mapped \ {Cur}
  /\ Advance(Then[Cur])
  /\ UNCHANGED <<optVars, virt, fd, h, held, hwVars, fileVars>>

(* destroy_fifo, if fifo_name                                              *)
DestroyFifo ==
  /\ Terminating("fifo")
  /\ IF fifo_name THEN file' = "none" /\ fifo_fd' = FALSE
                  ELSE UNCHANGED fileVars
  /\ Advance(Then["fifo"])
  /\ UNCHANGED <<optVars, memVars, hwVars>>

(* Mutant: the handler returns.                                            *)
ExitReturns ==
  /\ Terminating("exit")
  /\ IF sig # "no" THEN sig' = "no" /\ UNCHANGED outcome
                   ELSE outcome' = "exit" /\ UNCHANGED sig
  /\ UNCHANGED <<optVars, pc, at, handler, memVars, hwVars, fileVars>>

Exit ==
  /\ Terminating("exit")
  /\ outcome' = "exit"
  /\ UNCHANGED <<optVars, pc, at, sig, handler, memVars, hwVars, fileVars>>

Terminate ==
  \/ SpiDisable \/ StopAll \/ VcUnmap \/ VcUnlock \/ VcFree \/ VcClose
  \/ UnmapRegs \/ DestroyFifo \/ Exit

-----------------------------------------------------------------------------
(* The world: control-C, and the DMA, which outlives the program.          *)

(* SIGINT is blocked while its handler runs                                *)
ControlC ==
  /\ Sigint /\ outcome = "running" /\ sig = "no"
  /\ IF handler THEN sig' = "spi_disable" /\ UNCHANGED outcome
                ELSE outcome' = "killed"  /\ UNCHANGED sig
  /\ UNCHANGED <<optVars, pc, at, handler, memVars, hwVars, fileVars>>

(* Control block 9 of channel A starts each SPI transfer                   *)
Trigger ==
  /\ "A" \in running /\ cbs = "adc"
  /\ spi' = TRUE
  /\ UNCHANGED <<optVars, progVars, memVars, cbs, running, fileVars>>

(* The chains of the tests, and channel B's in single mode, end            *)
ChainEnds ==
  /\ \/ cbs = "test" /\ running' = running \ {"A"}
     \/ cbs = "adc" /\ mode = "single" /\ running' = running \ {"B"}
  /\ UNCHANGED <<optVars, progVars, memVars, cbs, spi, fileVars>>

Program == Main \/ Terminate
World   == ControlC \/ Trigger \/ ChainEnds

Next == Program \/ World
Spec == Init /\ [][Next]_vars /\ WF_vars(Program)
-----------------------------------------------------------------------------
(* Properties.                                                             *)

MainPcs == Regs \cup
  {"mbox", "alloc", "lock", "vcmap", "signal", "divide", "init_spi",
   "sample", "dump", "create", "adc", "start_C", "start_B", "start_A",
   "test_spi", "start_spi", "wait_spi", "test_pwm", "start_pwm", "wait",
   "stream", "done", "terminate"}
Ops == {"no", "spi_disable", "stop_A", "stop_B", "stop_C", "vc_unmap",
        "vc_unlock", "vc_free", "vc_close", "fifo", "exit"} \cup Regs

ProgOK ==
  /\ mode \in Modes /\ fifo_name \in BOOLEAN /\ sample_rate \in {0, 1}
  /\ pc \in MainPcs /\ at \in Ops /\ sig \in Ops /\ handler \in BOOLEAN
  /\ outcome \in {"running", "exit", "segv", "sigfpe", "killed"}
MemOK ==
  /\ virt \subseteq Regs \cup {"vc"} /\ mapped \subseteq virt
  /\ fd \in {"none", "open", "closed"} /\ h \in BOOLEAN
  /\ held \in {"none", "allocated", "locked"}
HwOK ==
  /\ cbs \in {"none", "test", "adc"} /\ running \subseteq Channels
  /\ spi \in BOOLEAN
FileOK == file \in {"none", "fifo", "other"} /\ fifo_fd \in BOOLEAN

TypeOK == ProgOK /\ MemOK /\ HwOK /\ FileOK

(* Where a call of terminate has not stopped a channel yet, and where it   *)
(* has not unmapped any registers.                                         *)
BeforeStop  == {"no", "spi_disable", "stop_A"}
BeforeUnmap == BeforeStop \cup
  {"stop_B", "stop_C", "vc_unmap", "vc_unlock", "vc_free", "vc_close"}

(* The DMA reads its control blocks from, and writes samples to, memory    *)
(* that is its own: it is stopped before the VideoCore gets the memory     *)
(* back, wherever the initialisation failed, the signal came, or the       *)
(* process crashed.                                                        *)
DmaOwnsMemory == running # {} => held = "locked"

(* A program that ends through exit leaves no memory of the VideoCore      *)
(* behind, which no process could ever free, no channel active, and no     *)
(* FIFO of its making.                                                     *)
CleanExit ==
  outcome = "exit" => /\ held = "none" /\ running = {}
                      /\ fifo_name => file = "none" /\ ~fifo_fd

(* The program crashes in these situations only: terminate is called       *)
(* before the SPI registers are mapped; main starts the DMA without        *)
(* memory; samples taken by hand are dumped to a file that could not be    *)
(* opened, or with more than filebuf has; the signal comes when main's own *)
(* call of terminate is unmapping registers; the rate is 0.  It is killed  *)
(* by a signal only before the handler is installed, and while the FIFO is *)
(* open.  In particular control-C never crashes a program that is          *)
(* initialising, sampling or streaming.                                    *)
CrashCauses ==
  /\ outcome = "segv" =>
       \/ "spi_regs" \notin virt
       \/ "vc" \notin virt /\ pc \in {"adc", "test_spi", "test_pwm"}
       \/ pc = "dump" /\ {"fopen", "fwrite"} \cap MayFail # {}
       \/ sig # "no" /\ at \notin BeforeUnmap
  /\ outcome = "sigfpe" => pc = "divide" /\ sample_rate = 0
  /\ outcome = "killed" => ~handler \/ (pc = "stream" /\ fifo_fd)

(* Once terminate is called, by main or by the signal, the program ends.   *)
Ends == at # "no" \/ sig # "no" ~> outcome # "running"

(* A program that ends through exit with the SPI still active was sampling *)
(* in blocks: there, and nowhere else, a trigger can fall between          *)
(* spi_disable and stop_dma.  After the tests, and after single samples,   *)
(* which leave their last transfer active, the SPI is off, also when the   *)
(* signal came between two of their register accesses.                     *)
SpiOffAtExit == outcome = "exit" /\ spi => cbs = "adc"

-----------------------------------------------------------------------------
(* The inductive invariant behind DmaOwnsMemory, CleanExit and CrashCauses *)
(* (Lifecycle_proofs).                                                     *)

(* Where a call of terminate has given the memory back                     *)
Freed == {"vc_close", "fifo", "exit"} \cup Regs

StopInv ==
  /\ \A op \in {at, sig} :
       /\ op \notin BeforeStop                             => "A" \notin running
       /\ op \notin BeforeStop \cup {"stop_B"}           => "B" \notin running
       /\ op \notin BeforeStop \cup {"stop_B", "stop_C"} => "C" \notin running
  /\ running # {} => held = "locked" /\ {"dma", "vc"} \subseteq virt

HeldInv ==
  /\ at \in Freed \/ sig \in Freed => held = "none"
  /\ held # "none" => h /\ fd = "open"

(* What main has acquired when it is at pc.                                *)
MainInv ==
  /\ at # "no" <=> pc = "terminate"
  /\ pc \notin {"gpio", "dma", "terminate"} => "dma" \in virt
  /\ sig = "no" =>
       /\ pc = "alloc" => fd = "open"
       /\ pc = "lock"  => held = "allocated"
       /\ pc = "vcmap" => held = "locked"
       /\ pc \in Regs \cup {"mbox", "alloc", "lock", "vcmap"}
            => "vc" \notin virt
       /\ at = "no" /\ "vc" \in virt => held = "locked"
  /\ pc \in {"start_A", "start_B", "start_C", "start_spi", "start_pwm"}
       => "vc" \in virt

(* What can be unmapped or removed by a call of terminate only.            *)
RegsInv == {at, sig} \subseteq BeforeUnmap => virt \cap Regs \subseteq mapped
FileInv == "exit" \in {at, sig} /\ fifo_name => file = "none" /\ ~fifo_fd
ExitInv == outcome = "exit" => Cur = "exit"

IInv == /\ TypeOK /\ StopInv /\ HeldInv /\ MainInv /\ RegsInv /\ FileInv
        /\ ExitInv /\ CrashCauses

(* Behind SpiOffAtExit: once the call of terminate that counts has cleared *)
(* the SPI's CS register, only the DMA's trigger can make it active.       *)
SpiInv == Cur \notin {"no", "spi_disable"} /\ spi => cbs = "adc"
=============================================================================
