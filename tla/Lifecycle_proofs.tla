-------------------------- MODULE Lifecycle_proofs --------------------------
(***************************************************************************)
(* Proofs about Lifecycle, for any set of modes, any set of calls that may *)
(* fail, with and without SIGINT.  What main acquires it acquires in a     *)
(* fixed order (MainInv), a call of terminate gives it back in a fixed     *)
(* order (StopInv, HeldInv, RegsInv), and this holds for both calls at     *)
(* once when the signal interrupts main's own.  At the end: terminate      *)
(* comes to an end.                                                        *)
(***************************************************************************)
EXTENDS Lifecycle, TLAPS

(* Nothing of the program has happened yet.                                *)
LEMMA InitIInv == Init => IInv
  BY DEF Init, IInv, TypeOK, ProgOK, MemOK, HwOK, FileOK, StopInv, HeldInv,
     MainInv, RegsInv, FileInv, ExitInv, CrashCauses, Ops, MainPcs, Regs,
     Freed, BeforeStop, BeforeUnmap, Cur

-----------------------------------------------------------------------------
(* Steps of main, which moves when no call of terminate is active.         *)

(* Mapping a register block, or failing to, touches no memory of the       *)
(* VideoCore.                                                              *)
LEMMA MapDevicesStep == IInv /\ MapDevices => IInv'
<1> SUFFICES ASSUME IInv, MapDevices PROVE IInv'
  OBVIOUS
<1> USE DEF IInv, TypeOK, MapDevices, InMain, GoTo, CallTerminate, optVars,
            progVars, memVars, hwVars, fileVars
<1>1. ProgOK'
  BY DEF ProgOK, MainPcs, Ops, Regs, NextMap
<1>2. MemOK'
  BY DEF MemOK, Regs
<1>3. HwOK' /\ FileOK'
  BY DEF HwOK, Channels, FileOK
<1>4. StopInv'
  BY DEF StopInv, BeforeStop, Regs
<1>5. HeldInv'
  BY DEF HeldInv, Freed, Regs
<1>6. MainInv'
  BY DEF MainInv, Regs, NextMap
<1>7. ExitInv' /\ FileInv'
  BY DEF ExitInv, Cur, FileInv
<1>8. RegsInv' /\ CrashCauses'
  BY DEF RegsInv, CrashCauses, BeforeUnmap, BeforeStop, Regs, Cur, MainInv
<1> QED BY <1>1, <1>2, <1>3, <1>4, <1>5, <1>6, <1>7, <1>8

(* The mailbox is open when the memory is asked for.                       *)
LEMMA OpenMboxStep == IInv /\ OpenMbox => IInv'
<1> SUFFICES ASSUME IInv, OpenMbox PROVE IInv'
  OBVIOUS
<1> USE DEF IInv, TypeOK, OpenMbox, InMain, GoTo, CallTerminate, optVars,
            progVars, memVars, hwVars, fileVars
<1>1. ProgOK'
  BY DEF ProgOK, MainPcs, Ops, Regs
<1>2. MemOK'
  BY DEF MemOK, Regs
<1>3. HwOK' /\ FileOK'
  BY DEF HwOK, Channels, FileOK
<1>4. StopInv'
  BY DEF StopInv, BeforeStop, Regs
<1>5. HeldInv'
  BY DEF HeldInv, Freed, Regs
<1>6. MainInv'
  BY DEF MainInv, Regs
<1>7. ExitInv' /\ FileInv'
  BY DEF ExitInv, Cur, FileInv
<1>8. RegsInv' /\ CrashCauses'
  BY DEF RegsInv, CrashCauses, BeforeUnmap, BeforeStop, Regs, Cur, MainInv
<1> QED BY <1>1, <1>2, <1>3, <1>4, <1>5, <1>6, <1>7, <1>8

(* Memory is allocated before any channel is active, as none starts before *)
(* it is mapped.                                                           *)
LEMMA AllocVcStep == IInv /\ AllocVc => IInv'
<1> SUFFICES ASSUME IInv, AllocVc PROVE IInv'
  OBVIOUS
<1> USE DEF IInv, TypeOK, AllocVc, InMain, GoTo, optVars, progVars, memVars,
            hwVars, fileVars
<1>1. ProgOK'
  BY DEF ProgOK, MainPcs, Ops, Regs
<1>2. MemOK'
  BY DEF MemOK, Regs
<1>3. HwOK' /\ FileOK'
  BY DEF HwOK, Channels, FileOK
<1>4. StopInv'
  BY DEF StopInv, BeforeStop, Regs, MainInv
<1>5. HeldInv'
  BY DEF HeldInv, Freed, Regs, MainInv
<1>6. MainInv'
  BY DEF MainInv, Regs
<1>7. ExitInv' /\ FileInv'
  BY DEF ExitInv, Cur, FileInv
<1>8. RegsInv' /\ CrashCauses'
  BY DEF RegsInv, CrashCauses, BeforeUnmap, BeforeStop, Regs, Cur, MainInv
<1> QED BY <1>1, <1>2, <1>3, <1>4, <1>5, <1>6, <1>7, <1>8

(* The same of locking it; a failure leaves it allocated and unmapped.     *)
LEMMA LockVcStep == IInv /\ LockVc => IInv'
<1> SUFFICES ASSUME IInv, LockVc PROVE IInv'
  OBVIOUS
<1> USE DEF IInv, TypeOK, LockVc, InMain, GoTo, optVars, progVars, memVars,
            hwVars, fileVars
<1>1. ProgOK'
  BY DEF ProgOK, MainPcs, Ops, Regs
<1>2. MemOK'
  BY DEF MemOK, Regs
<1>3. HwOK' /\ FileOK'
  BY DEF HwOK, Channels, FileOK
<1>4. StopInv'
  BY DEF StopInv, BeforeStop, Regs, MainInv
<1>5. HeldInv'
  BY DEF HeldInv, Freed, Regs, MainInv
<1>6. MainInv'
  BY DEF MainInv, Regs
<1>7. ExitInv' /\ FileInv'
  BY DEF ExitInv, Cur, FileInv
<1>8. RegsInv' /\ CrashCauses'
  BY DEF RegsInv, CrashCauses, BeforeUnmap, BeforeStop, Regs, Cur, MainInv
<1> QED BY <1>1, <1>2, <1>3, <1>4, <1>5, <1>6, <1>7, <1>8

(* What is mapped is locked.                                               *)
LEMMA MapVcStep == IInv /\ MapVc => IInv'
<1> SUFFICES ASSUME IInv, MapVc PROVE IInv'
  OBVIOUS
<1> USE DEF IInv, TypeOK, MapVc, InMain, GoTo, CallTerminate, optVars,
            progVars, memVars, hwVars, fileVars
<1>1. ProgOK'
  BY DEF ProgOK, MainPcs, Ops, Regs
<1>2. MemOK'
  BY DEF MemOK, Regs
<1>3. HwOK' /\ FileOK'
  BY DEF HwOK, Channels, FileOK
<1>4. StopInv'
  BY DEF StopInv, BeforeStop, Regs
<1>5. HeldInv'
  BY DEF HeldInv, Freed, Regs
<1>6. MainInv'
  BY DEF MainInv, Regs
<1>7. ExitInv' /\ FileInv'
  BY DEF ExitInv, Cur, FileInv
<1>8. RegsInv' /\ CrashCauses'
  BY DEF RegsInv, CrashCauses, BeforeUnmap, BeforeStop, Regs, Cur, MainInv
<1> QED BY <1>1, <1>2, <1>3, <1>4, <1>5, <1>6, <1>7, <1>8

(* Installing the handler changes nothing that terminate depends on.       *)
LEMMA SignalStep == IInv /\ Signal => IInv'
<1> SUFFICES ASSUME IInv, Signal PROVE IInv'
  OBVIOUS
<1> USE DEF IInv, TypeOK, Signal, InMain, GoTo, optVars, progVars, memVars,
            hwVars, fileVars
<1>1. ProgOK'
  BY DEF ProgOK, MainPcs, Ops, Regs
<1>2. MemOK' /\ HwOK' /\ FileOK'
  BY DEF MemOK, HwOK, FileOK
<1>3. StopInv' /\ HeldInv' /\ ExitInv' /\ FileInv'
  BY DEF StopInv, BeforeStop, HeldInv, ExitInv, FileInv
<1>4. MainInv'
  BY DEF MainInv, Regs
<1>5. RegsInv' /\ CrashCauses'
  BY DEF RegsInv, CrashCauses, BeforeUnmap, BeforeStop, Regs
<1> QED BY <1>1, <1>2, <1>3, <1>4, <1>5

(* A rate of 0 ends the process with everything as it is.                  *)
LEMMA DivideStep == IInv /\ Divide => IInv'
<1> SUFFICES ASSUME IInv, Divide PROVE IInv'
  OBVIOUS
<1> USE DEF IInv, TypeOK, Divide, InMain, GoTo, optVars, progVars,
            memVars, hwVars, fileVars
<1>1. ProgOK'
  BY DEF ProgOK, MainPcs, Ops, Regs
<1>2. MemOK' /\ HwOK' /\ FileOK'
  BY DEF MemOK, HwOK, FileOK
<1>3. StopInv' /\ HeldInv' /\ ExitInv' /\ FileInv'
  BY DEF StopInv, BeforeStop, HeldInv, ExitInv, FileInv
<1>4. MainInv'
  BY DEF MainInv, Regs
<1>5. RegsInv' /\ CrashCauses'
  BY DEF RegsInv, CrashCauses, BeforeUnmap, BeforeStop, Regs
<1> QED BY <1>1, <1>2, <1>3, <1>4, <1>5

(* Main goes where the options send it, with the DMA registers mapped.     *)
LEMMA InitSpiStep == IInv /\ InitSpi => IInv'
<1> SUFFICES ASSUME IInv, InitSpi PROVE IInv'
  OBVIOUS
<1> USE DEF IInv, TypeOK, InitSpi, InMain, GoTo, optVars, progVars, memVars,
            hwVars, fileVars
<1>1. ProgOK'
  <2>1. mode \in AllModes
    BY ModesAssumption DEF ProgOK
  <2> QED BY <2>1 DEF ProgOK, MainPcs, Ops, Regs, AllModes, Branch
<1>2. MemOK' /\ HwOK' /\ FileOK'
  BY DEF MemOK, HwOK, FileOK
<1>3. StopInv' /\ HeldInv' /\ ExitInv' /\ FileInv'
  BY DEF StopInv, BeforeStop, HeldInv, ExitInv, FileInv
<1>4. MainInv'
  <2>1. mode \in AllModes
    BY ModesAssumption DEF ProgOK
  <2> QED BY <2>1 DEF MainInv, Regs, AllModes, Branch
<1>5. RegsInv' /\ CrashCauses'
  BY DEF RegsInv, CrashCauses, BeforeUnmap, BeforeStop, Regs
<1> QED BY <1>1, <1>2, <1>3, <1>4, <1>5

(* Sampling by hand leaves memory and DMA alone.                           *)
LEMMA GetSampleStep == IInv /\ GetSample => IInv'
<1> SUFFICES ASSUME IInv, GetSample PROVE IInv'
  OBVIOUS
<1> USE DEF IInv, TypeOK, GetSample, InMain, GoTo, optVars, progVars, memVars,
            hwVars, fileVars
<1>1. ProgOK'
  BY DEF ProgOK, MainPcs, Ops, Regs
<1>2. MemOK' /\ HwOK' /\ FileOK'
  BY DEF MemOK, HwOK, FileOK
<1>3. StopInv' /\ HeldInv' /\ ExitInv' /\ FileInv'
  BY DEF StopInv, BeforeStop, HeldInv, ExitInv, FileInv
<1>4. MainInv'
  BY DEF MainInv, Regs
<1>5. RegsInv' /\ CrashCauses'
  BY DEF RegsInv, CrashCauses, BeforeUnmap, BeforeStop, Regs
<1> QED BY <1>1, <1>2, <1>3, <1>4, <1>5

(* Dumping the samples, or crashing in the attempt, leaves memory and DMA  *)
(* alone.                                                                  *)
LEMMA DumpStep == IInv /\ Dump => IInv'
<1> SUFFICES ASSUME IInv, Dump PROVE IInv'
  OBVIOUS
<1> USE DEF IInv, TypeOK, Dump, InMain, GoTo, Segv, optVars, progVars,
            memVars, hwVars, fileVars
<1>1. ProgOK'
  BY DEF ProgOK, MainPcs, Ops, Regs
<1>2. MemOK' /\ HwOK' /\ FileOK'
  BY DEF MemOK, HwOK, FileOK
<1>3. StopInv' /\ HeldInv' /\ ExitInv' /\ FileInv'
  BY DEF StopInv, BeforeStop, HeldInv, ExitInv, FileInv
<1>4. MainInv'
  BY DEF MainInv, Regs
<1>5. RegsInv' /\ CrashCauses'
  BY DEF RegsInv, CrashCauses, BeforeUnmap, BeforeStop, Regs
<1> QED BY <1>1, <1>2, <1>3, <1>4, <1>5

(* Creating the FIFO or the socket leaves memory and DMA alone.            *)
LEMMA CreateStep == IInv /\ Create => IInv'
<1> SUFFICES ASSUME IInv, Create PROVE IInv'
  OBVIOUS
<1> USE DEF IInv, TypeOK, Create, InMain, GoTo, optVars, progVars, memVars,
            hwVars, fileVars
<1>1. ProgOK'
  BY DEF ProgOK, MainPcs, Ops, Regs
<1>2. MemOK' /\ HwOK' /\ FileOK'
  BY DEF MemOK, HwOK, FileOK
<1>3. StopInv' /\ HeldInv' /\ ExitInv' /\ FileInv'
  BY DEF StopInv, BeforeStop, HeldInv, ExitInv, FileInv
<1>4. MainInv'
  BY DEF MainInv, Regs
<1>5. RegsInv' /\ CrashCauses'
  BY DEF RegsInv, CrashCauses, BeforeUnmap, BeforeStop, Regs
<1> QED BY <1>1, <1>2, <1>3, <1>4, <1>5

(* A channel is only started after the control blocks could be copied,     *)
(* hence with the memory mapped.                                           *)
LEMMA CopyBlocksStep == IInv /\ CopyBlocks => IInv'
<1> SUFFICES ASSUME IInv, CopyBlocks PROVE IInv'
  OBVIOUS
<1> USE DEF IInv, TypeOK, CopyBlocks, InMain, GoTo, Segv, optVars, progVars,
            memVars, hwVars, fileVars
<1>1. ProgOK'
  <2>1. CASE "vc" \in virt
    <3>1. pc' = Copied[pc] /\ at' = at
      BY <2>1
    <3> QED BY <2>1, <3>1 DEF ProgOK, MainPcs, Ops, Regs, Copied
  <2>2. CASE "vc" \notin virt
    BY <2>2 DEF ProgOK
  <2> QED BY <2>1, <2>2
<1>2. MemOK'
  BY DEF MemOK, Regs
<1>3. HwOK' /\ FileOK'
  BY DEF HwOK, Channels, FileOK
<1>4. StopInv'
  BY DEF StopInv, BeforeStop, Regs
<1>5. HeldInv'
  BY DEF HeldInv, Freed, Regs
<1>6. MainInv'
  <2>1. CASE "vc" \in virt
    <3>1. pc' = Copied[pc] /\ at' = at
      BY <2>1
    <3> QED BY <2>1, <3>1 DEF MainInv, Regs, Copied
  <2>2. CASE "vc" \notin virt
    BY <2>2 DEF MainInv
  <2> QED BY <2>1, <2>2
<1>7. ExitInv' /\ FileInv'
  BY DEF ExitInv, Cur, FileInv
<1>8. RegsInv' /\ CrashCauses'
  BY DEF RegsInv, CrashCauses, BeforeUnmap, BeforeStop, Regs, Cur, MainInv
<1> QED BY <1>1, <1>2, <1>3, <1>4, <1>5, <1>6, <1>7, <1>8

(* The DMA is started on memory that main holds and has mapped.            *)
LEMMA StartAdcStep == IInv /\ StartAdc => IInv'
<1> SUFFICES ASSUME IInv, StartAdc PROVE IInv'
  OBVIOUS
<1> USE DEF IInv, TypeOK, StartAdc, InMain, GoTo, optVars, progVars, memVars,
            hwVars, fileVars
<1>1. ProgOK'
  BY DEF ProgOK, MainPcs, Ops, Regs
<1>2. MemOK'
  BY DEF MemOK, Regs
<1>3. HwOK' /\ FileOK'
  BY DEF HwOK, Channels, FileOK
<1>4. StopInv'
  BY DEF StopInv, BeforeStop, Regs, MainInv
<1>5. HeldInv'
  BY DEF HeldInv, Freed, Regs
<1>6. MainInv'
  BY DEF MainInv, Regs
<1>7. ExitInv' /\ FileInv'
  BY DEF ExitInv, Cur, FileInv
<1>8. RegsInv' /\ CrashCauses'
  BY DEF RegsInv, CrashCauses, BeforeUnmap, BeforeStop, Regs, Cur, MainInv
<1> QED BY <1>1, <1>2, <1>3, <1>4, <1>5, <1>6, <1>7, <1>8

(* So is the DMA of the tests.                                             *)
LEMMA StartTestStep == IInv /\ StartTest => IInv'
<1> SUFFICES ASSUME IInv, StartTest PROVE IInv'
  OBVIOUS
<1> USE DEF IInv, TypeOK, StartTest, InMain, GoTo, optVars, progVars, memVars,
            hwVars, fileVars
<1>1. ProgOK'
  BY DEF ProgOK, MainPcs, Ops, Regs
<1>2. MemOK'
  BY DEF MemOK, Regs
<1>3. HwOK' /\ FileOK'
  BY DEF HwOK, Channels, FileOK
<1>4. StopInv'
  BY DEF StopInv, BeforeStop, Regs, MainInv
<1>5. HeldInv'
  BY DEF HeldInv, Freed, Regs
<1>6. MainInv'
  BY DEF MainInv, Regs
<1>7. ExitInv' /\ FileInv'
  BY DEF ExitInv, Cur, FileInv
<1>8. RegsInv' /\ CrashCauses'
  BY DEF RegsInv, CrashCauses, BeforeUnmap, BeforeStop, Regs, Cur, MainInv
<1> QED BY <1>1, <1>2, <1>3, <1>4, <1>5, <1>6, <1>7, <1>8

(* The end of the SPI test leaves memory and DMA alone.                    *)
LEMMA WaitSpiStep == IInv /\ WaitSpi => IInv'
<1> SUFFICES ASSUME IInv, WaitSpi PROVE IInv'
  OBVIOUS
<1> USE DEF IInv, TypeOK, WaitSpi, InMain, GoTo, optVars, progVars, memVars,
            hwVars, fileVars
<1>1. ProgOK'
  BY DEF ProgOK, MainPcs, Ops, Regs
<1>2. MemOK' /\ HwOK' /\ FileOK'
  BY DEF MemOK, HwOK, FileOK
<1>3. StopInv' /\ HeldInv' /\ ExitInv' /\ FileInv'
  BY DEF StopInv, BeforeStop, HeldInv, ExitInv, FileInv
<1>4. MainInv'
  BY DEF MainInv, Regs
<1>5. RegsInv' /\ CrashCauses'
  BY DEF RegsInv, CrashCauses, BeforeUnmap, BeforeStop, Regs
<1> QED BY <1>1, <1>2, <1>3, <1>4, <1>5

(* The end of a wait leaves memory and DMA alone, also after a timeout.    *)
LEMMA WaitStep == IInv /\ Wait => IInv'
<1> SUFFICES ASSUME IInv, Wait PROVE IInv'
  OBVIOUS
<1> USE DEF IInv, TypeOK, Wait, InMain, GoTo, optVars, progVars, memVars,
            hwVars, fileVars
<1>1. ProgOK'
  BY DEF ProgOK, MainPcs, Ops, Regs
<1>2. MemOK' /\ HwOK' /\ FileOK'
  BY DEF MemOK, HwOK, FileOK
<1>3. StopInv' /\ HeldInv' /\ ExitInv' /\ FileInv'
  BY DEF StopInv, BeforeStop, HeldInv, ExitInv, FileInv
<1>4. MainInv'
  BY DEF MainInv, Regs
<1>5. RegsInv' /\ CrashCauses'
  BY DEF RegsInv, CrashCauses, BeforeUnmap, BeforeStop, Regs
<1> QED BY <1>1, <1>2, <1>3, <1>4, <1>5

(* The FIFO is opened and closed by main, before any call of terminate.    *)
LEMMA StreamStep == IInv /\ Stream => IInv'
<1> SUFFICES ASSUME IInv, Stream PROVE IInv'
  OBVIOUS
<1> USE DEF IInv, TypeOK, Stream, InMain, optVars, progVars, memVars, hwVars,
            fileVars
<1>1. ProgOK'
  BY DEF ProgOK, MainPcs, Ops, Regs
<1>2. MemOK'
  BY DEF MemOK, Regs
<1>3. HwOK' /\ FileOK'
  BY DEF HwOK, Channels, FileOK
<1>4. StopInv'
  BY DEF StopInv, BeforeStop, Regs
<1>5. HeldInv'
  BY DEF HeldInv, Freed, Regs
<1>6. MainInv'
  BY DEF MainInv, Regs
<1>7. ExitInv' /\ FileInv'
  BY DEF ExitInv, Cur, FileInv
<1>8. RegsInv' /\ CrashCauses'
  BY DEF RegsInv, CrashCauses, BeforeUnmap, BeforeStop, Regs, Cur, MainInv
<1> QED BY <1>1, <1>2, <1>3, <1>4, <1>5, <1>6, <1>7, <1>8

(* A broken pipe kills the process with the DMA running, and the memory    *)
(* its own still.                                                          *)
LEMMA BrokenPipeStep == IInv /\ BrokenPipe => IInv'
<1> SUFFICES ASSUME IInv, BrokenPipe PROVE IInv'
  OBVIOUS
<1> USE DEF IInv, TypeOK, BrokenPipe, InMain, optVars, progVars,
            memVars, hwVars, fileVars
<1>1. ProgOK'
  BY DEF ProgOK, MainPcs, Ops, Regs
<1>2. MemOK' /\ HwOK' /\ FileOK'
  BY DEF MemOK, HwOK, FileOK
<1>3. StopInv' /\ HeldInv' /\ ExitInv' /\ FileInv'
  BY DEF StopInv, BeforeStop, HeldInv, ExitInv, FileInv
<1>4. MainInv'
  BY DEF MainInv, Regs
<1>5. RegsInv' /\ CrashCauses'
  BY DEF RegsInv, CrashCauses, BeforeUnmap, BeforeStop, Regs
<1> QED BY <1>1, <1>2, <1>3, <1>4, <1>5

(* The end of main enters terminate with nothing stopped or freed yet.     *)
LEMMA DoneStep == IInv /\ Done => IInv'
<1> SUFFICES ASSUME IInv, Done PROVE IInv'
  OBVIOUS
<1> USE DEF IInv, TypeOK, Done, InMain, CallTerminate, optVars, progVars,
            memVars, hwVars, fileVars
<1>1. ProgOK'
  BY DEF ProgOK, MainPcs, Ops, Regs
<1>2. MemOK'
  BY DEF MemOK, Regs
<1>3. HwOK' /\ FileOK'
  BY DEF HwOK, Channels, FileOK
<1>4. StopInv'
  BY DEF StopInv, BeforeStop, Regs
<1>5. HeldInv'
  BY DEF HeldInv, Freed, Regs
<1>6. MainInv'
  BY DEF MainInv, Regs
<1>7. ExitInv' /\ FileInv'
  BY DEF ExitInv, Cur, FileInv
<1>8. RegsInv' /\ CrashCauses'
  BY DEF RegsInv, CrashCauses, BeforeUnmap, BeforeStop, Regs, Cur, MainInv
<1> QED BY <1>1, <1>2, <1>3, <1>4, <1>5, <1>6, <1>7, <1>8

-----------------------------------------------------------------------------
(* Steps of terminate, in main or in the handler of the signal.            *)

(* Disabling the SPI, or crashing in the attempt, stops no channel.        *)
LEMMA SpiDisableStep == IInv /\ SpiDisable => IInv'
<1> SUFFICES ASSUME IInv, SpiDisable PROVE IInv'
  OBVIOUS
<1> USE DEF IInv, TypeOK, SpiDisable, Terminating, Advance, Crash, Cur, Then,
            optVars, progVars, memVars, hwVars, fileVars
<1>1. ProgOK'
  BY DEF ProgOK, MainPcs, Ops, Regs
<1>2. MemOK'
  BY DEF MemOK, Regs
<1>3. HwOK' /\ FileOK'
  BY DEF HwOK, Channels, FileOK
<1>4. StopInv'
  BY DEF StopInv, BeforeStop, Regs
<1>5. HeldInv'
  BY DEF HeldInv, Freed, Regs
<1>6. MainInv'
  BY DEF MainInv, Regs
<1>7. ExitInv' /\ FileInv'
  BY DEF ExitInv, Cur, FileInv
<1>8. RegsInv' /\ CrashCauses'
  BY DEF RegsInv, CrashCauses, BeforeUnmap, BeforeStop, Regs, Cur, MainInv
<1> QED BY <1>1, <1>2, <1>3, <1>4, <1>5, <1>6, <1>7, <1>8

(* Each call of stop_dma makes true what StopInv says of the next place in *)
(* terminate: an active channel implies that dma_regs is mapped.           *)
LEMMA StopAllStep == IInv /\ StopAll => IInv'
<1> SUFFICES ASSUME IInv, StopAll PROVE IInv'
  OBVIOUS
<1> USE DEF IInv, TypeOK, StopAll, StopDma, Terminating, Advance, Crash, Cur,
            Then, optVars, progVars, memVars, hwVars, fileVars
<1>1. ProgOK'
  BY DEF ProgOK, MainPcs, Ops, Regs
<1>2. MemOK'
  BY DEF MemOK, Regs
<1>3. HwOK' /\ FileOK'
  BY DEF HwOK, Channels, FileOK
<1>4. StopInv'
  BY DEF StopInv, BeforeStop, Regs
<1>5. HeldInv'
  BY DEF HeldInv, Freed, Regs
<1>6. MainInv'
  BY DEF MainInv, Regs
<1>7. ExitInv' /\ FileInv'
  BY DEF ExitInv, Cur, FileInv
<1>8. RegsInv' /\ CrashCauses'
  BY DEF RegsInv, CrashCauses, BeforeUnmap, BeforeStop, Regs, Cur, MainInv
<1> QED BY <1>1, <1>2, <1>3, <1>4, <1>5, <1>6, <1>7, <1>8

(* Unmapping the memory comes after all channels have been stopped;        *)
(* without a mailbox nothing was ever held.                                *)
LEMMA VcUnmapStep == IInv /\ VcUnmap => IInv'
<1> SUFFICES ASSUME IInv, VcUnmap PROVE IInv'
  OBVIOUS
<1> USE DEF IInv, TypeOK, VcUnmap, Terminating, Advance, Crash, Cur, Then,
            optVars, progVars, memVars, hwVars, fileVars
<1>1. ProgOK'
  BY DEF ProgOK, MainPcs, Ops, Regs
<1>2. MemOK'
  BY DEF MemOK, Regs
<1>3. HwOK' /\ FileOK'
  BY DEF HwOK, Channels, FileOK
<1>4. StopInv'
  BY DEF StopInv, BeforeStop, Regs
<1>5. HeldInv'
  BY DEF HeldInv, Freed, Regs
<1>6. MainInv'
  BY DEF MainInv, Regs
<1>7. ExitInv' /\ FileInv'
  BY DEF ExitInv, Cur, FileInv
<1>8. RegsInv' /\ CrashCauses'
  BY DEF RegsInv, CrashCauses, BeforeUnmap, BeforeStop, Regs, Cur, MainInv
<1> QED BY <1>1, <1>2, <1>3, <1>4, <1>5, <1>6, <1>7, <1>8

(* So does unlocking it.                                                   *)
LEMMA VcUnlockStep == IInv /\ VcUnlock => IInv'
<1> SUFFICES ASSUME IInv, VcUnlock PROVE IInv'
  OBVIOUS
<1> USE DEF IInv, TypeOK, VcUnlock, Terminating, Advance, Crash, Cur, Then,
            optVars, progVars, memVars, hwVars, fileVars
<1>1. ProgOK'
  BY DEF ProgOK, MainPcs, Ops, Regs
<1>2. MemOK'
  BY DEF MemOK, Regs
<1>3. HwOK' /\ FileOK'
  BY DEF HwOK, Channels, FileOK
<1>4. StopInv'
  <2>1. running = {}
    BY DEF StopInv, BeforeStop, HwOK, Channels
  <2> QED BY <2>1 DEF StopInv, BeforeStop, Regs
<1>5. HeldInv'
  BY DEF HeldInv, Freed, Regs
<1>6. MainInv'
  BY DEF MainInv, Regs
<1>7. ExitInv' /\ FileInv'
  BY DEF ExitInv, Cur, FileInv
<1>8. RegsInv' /\ CrashCauses'
  BY DEF RegsInv, CrashCauses, BeforeUnmap, BeforeStop, Regs, Cur, MainInv
<1> QED BY <1>1, <1>2, <1>3, <1>4, <1>5, <1>6, <1>7, <1>8

(* So does freeing it; the other call of terminate may have done so        *)
(* before.                                                                 *)
LEMMA VcFreeStep == IInv /\ VcFree => IInv'
<1> SUFFICES ASSUME IInv, VcFree PROVE IInv'
  OBVIOUS
<1> USE DEF IInv, TypeOK, VcFree, Terminating, Advance, Crash, Cur, Then,
            optVars, progVars, memVars, hwVars, fileVars
<1>1. ProgOK'
  BY DEF ProgOK, MainPcs, Ops, Regs
<1>2. MemOK'
  BY DEF MemOK, Regs
<1>3. HwOK' /\ FileOK'
  BY DEF HwOK, Channels, FileOK
<1>4. StopInv'
  <2>1. running = {}
    BY DEF StopInv, BeforeStop, HwOK, Channels
  <2> QED BY <2>1 DEF StopInv, BeforeStop, Regs
<1>5. HeldInv'
  BY DEF HeldInv, Freed, Regs
<1>6. MainInv'
  BY DEF MainInv, Regs
<1>7. ExitInv' /\ FileInv'
  BY DEF ExitInv, Cur, FileInv
<1>8. RegsInv' /\ CrashCauses'
  BY DEF RegsInv, CrashCauses, BeforeUnmap, BeforeStop, Regs, Cur, MainInv
<1> QED BY <1>1, <1>2, <1>3, <1>4, <1>5, <1>6, <1>7, <1>8

(* The mailbox is closed when nothing is held any more.                    *)
LEMMA VcCloseStep == IInv /\ VcClose => IInv'
<1> SUFFICES ASSUME IInv, VcClose PROVE IInv'
  OBVIOUS
<1> USE DEF IInv, TypeOK, VcClose, Terminating, Advance, Crash, Cur, Then,
            optVars, progVars, memVars, hwVars, fileVars
<1>1. ProgOK'
  BY DEF ProgOK, MainPcs, Ops, Regs
<1>2. MemOK'
  BY DEF MemOK, Regs
<1>3. HwOK' /\ FileOK'
  BY DEF HwOK, Channels, FileOK
<1>4. StopInv'
  BY DEF StopInv, BeforeStop, Regs
<1>5. HeldInv'
  BY DEF HeldInv, Freed, Regs
<1>6. MainInv'
  BY DEF MainInv, Regs
<1>7. ExitInv' /\ FileInv'
  BY DEF ExitInv, Cur, FileInv
<1>8. RegsInv' /\ CrashCauses'
  BY DEF RegsInv, CrashCauses, BeforeUnmap, BeforeStop, Regs, Cur, MainInv
<1> QED BY <1>1, <1>2, <1>3, <1>4, <1>5, <1>6, <1>7, <1>8

(* Register blocks are unmapped when nothing is held any more, and no call *)
(* of terminate that has come here uses them again.                        *)
LEMMA UnmapRegsStep == IInv /\ UnmapRegs => IInv'
<1> SUFFICES ASSUME IInv, UnmapRegs PROVE IInv'
  OBVIOUS
<1> USE DEF IInv, TypeOK, UnmapRegs, Terminating, Advance, Crash, Cur, Then,
            optVars, progVars, memVars, hwVars, fileVars
<1>1. ProgOK'
  BY DEF ProgOK, MainPcs, Ops, Regs
<1>2. MemOK'
  BY DEF MemOK, Regs
<1>3. HwOK' /\ FileOK'
  BY DEF HwOK, Channels, FileOK
<1>4. StopInv'
  BY DEF StopInv, BeforeStop, Regs
<1>5. HeldInv'
  BY DEF HeldInv, Freed, Regs
<1>6. MainInv'
  BY DEF MainInv, Regs
<1>7. ExitInv' /\ FileInv'
  BY DEF ExitInv, Cur, FileInv, Regs
<1>8. RegsInv' /\ CrashCauses'
  <2>1. outcome' = "running"
    OBVIOUS
  <2>2. Then[Cur] \in Regs \cup {"fifo"}
    BY DEF Regs
  <2>3. at' = Then[Cur] \/ sig' = Then[Cur]
    OBVIOUS
  <2>4. ~({at', sig'} \subseteq BeforeUnmap)
    BY <2>2, <2>3 DEF Regs, BeforeUnmap, BeforeStop
  <2> QED BY <2>1, <2>4 DEF RegsInv, CrashCauses
<1> QED BY <1>1, <1>2, <1>3, <1>4, <1>5, <1>6, <1>7, <1>8

(* Removing the FIFO leaves memory and DMA alone; main does not open it    *)
(* again.                                                                  *)
LEMMA DestroyFifoStep == IInv /\ DestroyFifo => IInv'
<1> SUFFICES ASSUME IInv, DestroyFifo PROVE IInv'
  OBVIOUS
<1> USE DEF IInv, TypeOK, DestroyFifo, Terminating, Advance, Crash, Cur, Then,
            optVars, progVars, memVars, hwVars, fileVars
<1>1. ProgOK'
  BY DEF ProgOK, MainPcs, Ops, Regs
<1>2. MemOK'
  BY DEF MemOK, Regs
<1>3. HwOK' /\ FileOK'
  BY DEF HwOK, Channels, FileOK
<1>4. StopInv'
  BY DEF StopInv, BeforeStop, Regs
<1>5. HeldInv'
  BY DEF HeldInv, Freed, Regs
<1>6. MainInv'
  BY DEF MainInv, Regs
<1>7. ExitInv' /\ FileInv'
  BY DEF ExitInv, Cur, FileInv
<1>8. RegsInv' /\ CrashCauses'
  BY DEF RegsInv, CrashCauses, BeforeUnmap, BeforeStop, Regs, Cur, MainInv
<1> QED BY <1>1, <1>2, <1>3, <1>4, <1>5, <1>6, <1>7, <1>8

(* The program exits from the last place of terminate.                     *)
LEMMA ExitStep == IInv /\ Exit => IInv'
<1> SUFFICES ASSUME IInv, Exit PROVE IInv'
  OBVIOUS
<1> USE DEF IInv, TypeOK, Exit, Terminating, Advance, Crash, Cur, Then,
            optVars, progVars, memVars, hwVars, fileVars
<1>1. ProgOK'
  BY DEF ProgOK, MainPcs, Ops, Regs
<1>2. MemOK'
  BY DEF MemOK, Regs
<1>3. HwOK' /\ FileOK'
  BY DEF HwOK, Channels, FileOK
<1>4. StopInv'
  BY DEF StopInv, BeforeStop, Regs
<1>5. HeldInv'
  BY DEF HeldInv, Freed, Regs
<1>6. MainInv'
  BY DEF MainInv, Regs
<1>7. ExitInv' /\ FileInv'
  BY DEF ExitInv, Cur, FileInv
<1>8. RegsInv' /\ CrashCauses'
  BY DEF RegsInv, CrashCauses, BeforeUnmap, BeforeStop, Regs, Cur, MainInv
<1> QED BY <1>1, <1>2, <1>3, <1>4, <1>5, <1>6, <1>7, <1>8

-----------------------------------------------------------------------------
(* The world.                                                              *)

(* The signal enters terminate with nothing stopped or freed by its own    *)
(* call, and leaves what main's call has done.                             *)
LEMMA ControlCStep == IInv /\ ControlC => IInv'
<1> SUFFICES ASSUME IInv, ControlC PROVE IInv'
  OBVIOUS
<1> USE DEF IInv, TypeOK, ControlC, optVars, progVars, memVars, hwVars,
            fileVars
<1>1. ProgOK'
  BY DEF ProgOK, MainPcs, Ops, Regs
<1>2. MemOK'
  BY DEF MemOK, Regs
<1>3. HwOK' /\ FileOK'
  BY DEF HwOK, Channels, FileOK
<1>4. StopInv'
  BY DEF StopInv, BeforeStop, Regs
<1>5. HeldInv'
  BY DEF HeldInv, Freed, Regs
<1>6. MainInv'
  BY DEF MainInv, Regs
<1>7. ExitInv' /\ FileInv'
  BY DEF ExitInv, Cur, FileInv
<1>8. RegsInv' /\ CrashCauses'
  BY DEF RegsInv, CrashCauses, BeforeUnmap, BeforeStop, Regs, Cur, MainInv
<1> QED BY <1>1, <1>2, <1>3, <1>4, <1>5, <1>6, <1>7, <1>8

(* A triggered transfer changes the SPI only.                              *)
LEMMA TriggerStep == IInv /\ Trigger => IInv'
<1> SUFFICES ASSUME IInv, Trigger PROVE IInv'
  OBVIOUS
<1> USE DEF IInv, TypeOK, Trigger, optVars, progVars, memVars, hwVars, fileVars
<1>1. ProgOK'
  BY DEF ProgOK, MainPcs, Ops, Regs
<1>2. MemOK' /\ HwOK' /\ FileOK'
  BY DEF MemOK, HwOK, FileOK
<1>3. StopInv' /\ HeldInv' /\ ExitInv' /\ FileInv'
  BY DEF StopInv, BeforeStop, HeldInv, ExitInv, FileInv, Cur
<1>4. MainInv'
  BY DEF MainInv, Regs
<1>5. RegsInv' /\ CrashCauses'
  BY DEF RegsInv, CrashCauses, BeforeUnmap, BeforeStop, Regs
<1> QED BY <1>1, <1>2, <1>3, <1>4, <1>5

(* A chain that ends makes one channel less active.                        *)
LEMMA ChainEndsStep == IInv /\ ChainEnds => IInv'
<1> SUFFICES ASSUME IInv, ChainEnds PROVE IInv'
  OBVIOUS
<1> USE DEF IInv, TypeOK, ChainEnds, optVars, progVars, memVars, hwVars,
            fileVars
<1>1. ProgOK'
  BY DEF ProgOK, MainPcs, Ops, Regs
<1>2. MemOK'
  BY DEF MemOK, Regs
<1>3. HwOK' /\ FileOK'
  BY DEF HwOK, Channels, FileOK
<1>4. StopInv'
  BY DEF StopInv, BeforeStop, Regs
<1>5. HeldInv'
  BY DEF HeldInv, Freed, Regs
<1>6. MainInv'
  BY DEF MainInv, Regs
<1>7. ExitInv' /\ FileInv'
  BY DEF ExitInv, Cur, FileInv
<1>8. RegsInv' /\ CrashCauses'
  BY DEF RegsInv, CrashCauses, BeforeUnmap, BeforeStop, Regs, Cur, MainInv
<1> QED BY <1>1, <1>2, <1>3, <1>4, <1>5, <1>6, <1>7, <1>8

(* Every step of the program, of the user and of the DMA keeps the         *)
(* invariant.                                                              *)
THEOREM IInvNext == IInv /\ [Next]_vars => IInv'
<1> SUFFICES ASSUME IInv, [Next]_vars PROVE IInv'
  OBVIOUS
<1>1. CASE Main
  BY <1>1, MapDevicesStep, OpenMboxStep, AllocVcStep, LockVcStep, MapVcStep,
     SignalStep, DivideStep, InitSpiStep, GetSampleStep, DumpStep,
     CreateStep, CopyBlocksStep, StartAdcStep, StartTestStep, WaitSpiStep,
     WaitStep, StreamStep, BrokenPipeStep, DoneStep
  DEF Main
<1>2. CASE Terminate
  BY <1>2, SpiDisableStep, StopAllStep, VcUnmapStep, VcUnlockStep, VcFreeStep,
     VcCloseStep, UnmapRegsStep, DestroyFifoStep, ExitStep DEF Terminate
<1>3. CASE World
  BY <1>3, ControlCStep, TriggerStep, ChainEndsStep DEF World
<1>4. CASE UNCHANGED vars
  <2> USE <1>4 DEF vars, optVars, progVars, memVars, hwVars, fileVars, IInv
  <2>1. TypeOK'
    BY DEF TypeOK, ProgOK, MemOK, HwOK, FileOK
  <2>2. StopInv' /\ HeldInv'
    BY DEF StopInv, HeldInv
  <2>3. MainInv' /\ ExitInv' /\ FileInv'
    BY DEF MainInv, ExitInv, FileInv, Cur
  <2>4. RegsInv' /\ CrashCauses'
    BY DEF RegsInv, CrashCauses
  <2> QED BY <2>1, <2>2, <2>3, <2>4
<1> QED BY <1>1, <1>2, <1>3, <1>4 DEF Next, Program

(* The inductive invariant holds in every reachable state.                 *)
THEOREM Invariance == Spec => []IInv
  BY InitIInv, IInvNext, PTL DEF Spec

(* Every variable keeps its type, whatever fails and whenever the signal   *)
(* comes.                                                                  *)
THEOREM TypeCorrect == Spec => []TypeOK
<1>1. IInv => TypeOK
  BY DEF IInv
<1> QED BY Invariance, <1>1, PTL

(* The DMA never runs on memory that the VideoCore has got back: terminate *)
(* stops the channels first, also when it interrupts itself.               *)
THEOREM DmaMemorySafe == Spec => []DmaOwnsMemory
<1>1. IInv => DmaOwnsMemory
  BY DEF IInv, StopInv, DmaOwnsMemory
<1> QED BY Invariance, <1>1, PTL

(* A program that reaches exit has given the VideoCore's memory back,      *)
(* stopped every channel, and removed its FIFO.                            *)
THEOREM ExitIsClean == Spec => []CleanExit
<1>1. IInv => CleanExit
  <2> SUFFICES ASSUME IInv, outcome = "exit" PROVE CleanExit
    BY DEF CleanExit
  <2>1. at = "exit" \/ sig = "exit"
    BY DEF IInv, ExitInv, Cur
  <2>2. held = "none"
    BY <2>1 DEF IInv, HeldInv, Freed
  <2>3. running = {}
    BY <2>2 DEF IInv, StopInv
  <2>4. fifo_name => file = "none" /\ ~fifo_fd
    BY <2>1 DEF IInv, FileInv
  <2> QED BY <2>2, <2>3, <2>4 DEF CleanExit
<1> QED BY Invariance, <1>1, PTL

(* Whatever fails and whenever the signal comes, the process dies of the   *)
(* causes that CrashCauses lists: a null pointer of the SPI registers or   *)
(* of the memory, the dump of the samples, a second call of terminate on   *)
(* top of one that is unmapping, a rate of 0, a control-C before there is  *)
(* a handler, and a pipe without a reader.                                 *)
THEOREM CrashesExplained == Spec => []CrashCauses
<1>1. IInv => CrashCauses
  BY DEF IInv
<1> QED BY Invariance, <1>1, PTL

-----------------------------------------------------------------------------
(* The SPI.                                                                *)

(* Main switches the SPI on only while no call of terminate is active;     *)
(* each call, the signal's on top of main's too, begins with clearing it.  *)
LEMMA SpiInvNext == IInv /\ SpiInv /\ [Next]_vars => SpiInv'
<1> SUFFICES ASSUME IInv, SpiInv, [Next]_vars PROVE SpiInv'
  OBVIOUS
<1>1. CASE Main
  <2>1. at = "no" /\ sig = "no" /\ at' \in {"no", "spi_disable"} /\ sig' = "no"
    BY <1>1 DEF Main, MapDevices, OpenMbox, AllocVc, LockVc, MapVc, Signal,
       Divide, InitSpi, GetSample, Dump, Create, CopyBlocks, StartAdc,
       StartTest, WaitSpi, Wait, Stream, BrokenPipe, Done, InMain, GoTo,
       CallTerminate, Segv, progVars
  <2> QED BY <2>1 DEF SpiInv, Cur
<1>2. CASE SpiDisable
  <2>1. CASE "spi_regs" \in mapped
    BY <1>2, <2>1 DEF SpiDisable, SpiInv
  <2>2. CASE "spi_regs" \notin mapped
    BY <1>2, <2>2 DEF SpiDisable, Crash, SpiInv, Cur
  <2> QED BY <2>1, <2>2
<1>3. CASE Terminate /\ ~SpiDisable
  <2>1. /\ outcome = "running" /\ Cur \notin {"no", "spi_disable"}
        /\ spi' = spi /\ cbs' = cbs
    BY <1>3 DEF Terminate, StopAll, StopDma, VcUnmap, VcUnlock, VcFree,
       VcClose, UnmapRegs, DestroyFifo, Exit, Terminating, hwVars, Regs
  <2> QED BY <2>1 DEF SpiInv
<1>4. CASE World
  <2>1. CASE ControlC
    BY <2>1 DEF ControlC, SpiInv, Cur, hwVars
  <2>2. CASE Trigger \/ ChainEnds
    BY <2>2 DEF Trigger, ChainEnds, SpiInv, Cur, progVars
  <2> QED BY <1>4, <2>1, <2>2 DEF World
<1>5. CASE UNCHANGED vars
  BY <1>5 DEF vars, progVars, hwVars, SpiInv, Cur
<1> QED BY <1>1, <1>2, <1>3, <1>4, <1>5 DEF Next, Program

(* When the program leaves through exit, only sampling in blocks can have  *)
(* left the SPI active.                                                    *)
THEOREM SpiIsOff == Spec => []SpiOffAtExit
<1>1. Init => SpiInv
  BY DEF Init, SpiInv, Cur
<1>2. IInv /\ SpiInv => SpiOffAtExit
  BY DEF IInv, ExitInv, SpiInv, SpiOffAtExit
<1> QED BY Invariance, SpiInvNext, <1>1, <1>2, PTL DEF Spec

-----------------------------------------------------------------------------
(* Terminate ends.  What a step does is proved; that one is possible as    *)
(* long as one is left is a matter of ENABLED, and a hypothesis.           *)

(* The call by the signal, or else main's own, is at op.                   *)
SigAt(op) == outcome = "running" /\ sig = op
OwnAt(op) == outcome = "running" /\ sig = "no" /\ at = op
Over      == outcome # "running"
Busy      == outcome = "running" /\ Cur # "no"

(* Where the call is afterwards; without a mailbox there is no memory to   *)
(* give back.                                                              *)
After(op) ==
  IF op = "exit" THEN {}
  ELSE IF op = "vc_unmap" THEN {"vc_unlock", "usec"} ELSE {Then[op]}

(* Nothing but the end takes the program from P to anywhere but Q, and     *)
(* its next step takes it there.                                           *)
Takes(P, Q) ==
  /\ P => Busy
  /\ P /\ [Next]_vars => (P \/ Q \/ Over)'
  /\ P /\ <<Program>>_vars => (Q \/ Over)'

(* The program runs, as long as it can.                                    *)
Scheduled == [][Next]_vars /\ WF_vars(Program)

(* In every state of a call the program can make a step.                   *)
NeverStuck == [](Busy => ENABLED <<Program>>_vars)

(* A step of the program takes a call of terminate from one place to the   *)
(* next, or the process is over.                                           *)
LEMMA TerminateSteps ==
  ASSUME NEW op \in Ops \ {"no"}, Program, outcome = "running", Cur = op
  PROVE  \/ outcome' # "running"
         \/ /\ outcome' = "running"
            /\ \E next \in After(op) :
                 IF sig # "no" THEN sig' = next /\ at' = at
                               ELSE at' = next /\ sig' = sig
<1>1. ~ Main
  BY DEF Main, MapDevices, OpenMbox, AllocVc, LockVc, MapVc, Signal, Divide,
     InitSpi, GetSample, Dump, Create, CopyBlocks, StartAdc, StartTest,
     WaitSpi, Wait, Stream, BrokenPipe, Done, InMain, Cur
<1>2. CASE SpiDisable \/ StopAll
  BY <1>2 DEF SpiDisable, StopAll, StopDma, Terminating, Crash, Advance, After
<1>3. CASE VcUnmap \/ VcUnlock \/ VcFree \/ VcClose
  BY <1>3 DEF VcUnmap, VcUnlock, VcFree, VcClose, Terminating, Advance, Then,
     After
<1>4. CASE UnmapRegs \/ DestroyFifo \/ Exit
  BY <1>4 DEF UnmapRegs, DestroyFifo, Exit, Terminating, Advance, Regs, After
<1> QED BY <1>1, <1>2, <1>3, <1>4 DEF Program, Terminate

(* Nobody else moves a call of terminate, or only by one on top of it.     *)
LEMMA WorldSteps ==
  ASSUME [Next]_vars, ~ Program, Busy
  PROVE  \/ outcome' # "running"
         \/ outcome' = "running" /\ UNCHANGED <<at, sig>>
         \/ sig = "no" /\ sig' = "spi_disable" /\ outcome' = "running"
BY DEF Next, World, ControlC, Trigger, ChainEnds, vars, progVars, Busy

(* The same for each of the two calls.                                     *)
LEMMA SigStep ==
  ASSUME NEW op \in Ops \ {"no"}
  PROVE  /\ SigAt(op) => Busy
         /\ SigAt(op) /\ [Next]_vars
              => \/ outcome' # "running"
                 \/ outcome' = "running" /\ sig' = op
                 \/ outcome' = "running" /\ sig' \in After(op)
         /\ SigAt(op) /\ Program
              => \/ outcome' # "running"
                 \/ outcome' = "running" /\ sig' \in After(op)
<1>1. SigAt(op) => Busy
  BY DEF SigAt, Busy, Cur
<1>2. SigAt(op) /\ Program
        => \/ outcome' # "running"
           \/ outcome' = "running" /\ sig' \in After(op)
  BY TerminateSteps DEF SigAt, Cur
<1>3. SigAt(op) /\ [Next]_vars /\ ~ Program
        => outcome' # "running" \/ (outcome' = "running" /\ sig' = op)
  BY <1>1, WorldSteps DEF SigAt
<1> QED BY <1>1, <1>2, <1>3

LEMMA OwnStep ==
  ASSUME NEW op \in Ops \ {"no"}
  PROVE  /\ OwnAt(op) => Busy
         /\ OwnAt(op) /\ [Next]_vars
              => \/ outcome' # "running"
                 \/ outcome' = "running" /\ sig' = "no" /\ at' = op
                 \/ outcome' = "running" /\ sig' = "no" /\ at' \in After(op)
                 \/ outcome' = "running" /\ sig' = "spi_disable"
         /\ OwnAt(op) /\ Program
              => \/ outcome' # "running"
                 \/ outcome' = "running" /\ sig' = "no" /\ at' \in After(op)
<1>1. OwnAt(op) => Busy
  BY DEF OwnAt, Busy, Cur
<1>2. OwnAt(op) /\ Program
        => \/ outcome' # "running"
           \/ outcome' = "running" /\ sig' = "no" /\ at' \in After(op)
  BY TerminateSteps DEF OwnAt, Cur
<1>3. OwnAt(op) /\ [Next]_vars /\ ~ Program
        => \/ outcome' # "running"
           \/ outcome' = "running" /\ sig' = "no" /\ at' = op
           \/ outcome' = "running" /\ sig' = "spi_disable"
  BY <1>1, WorldSteps DEF OwnAt
<1> QED BY <1>1, <1>2, <1>3

(* The call by the signal, of which nothing stands on top, ends.           *)
LEMMA SignalCallEnds ==
  Scheduled /\ NeverStuck
    => (outcome = "running" /\ sig \in Ops \ {"no"} ~> Over)
<1> USE DEF Takes, SigAt, Over, Ops, Regs, After, Then
<1>1. Takes(SigAt("spi_disable"), SigAt("stop_A"))
  BY SigStep
<1>2. Takes(SigAt("stop_A"), SigAt("stop_B"))
  BY SigStep
<1>3. Takes(SigAt("stop_B"), SigAt("stop_C"))
  BY SigStep
<1>4. Takes(SigAt("stop_C"), SigAt("vc_unmap"))
  BY SigStep
<1>5. Takes(SigAt("vc_unmap"), SigAt("vc_unlock") \/ SigAt("usec"))
  BY SigStep
<1>6. Takes(SigAt("vc_unlock"), SigAt("vc_free"))
  BY SigStep
<1>7. Takes(SigAt("vc_free"), SigAt("vc_close"))
  BY SigStep
<1>8. Takes(SigAt("vc_close"), SigAt("usec"))
  BY SigStep
<1>9. Takes(SigAt("usec"), SigAt("pwm"))
  BY SigStep
<1>10. Takes(SigAt("pwm"), SigAt("clk"))
  BY SigStep
<1>11. Takes(SigAt("clk"), SigAt("spi_regs"))
  BY SigStep
<1>12. Takes(SigAt("spi_regs"), SigAt("dma"))
  BY SigStep
<1>13. Takes(SigAt("dma"), SigAt("gpio"))
  BY SigStep
<1>14. Takes(SigAt("gpio"), SigAt("fifo"))
  BY SigStep
<1>15. Takes(SigAt("fifo"), SigAt("exit"))
  BY SigStep
<1>16. Takes(SigAt("exit"), FALSE)
  BY SigStep
<1>17. outcome = "running" /\ sig \in Ops \ {"no"}
         => SigAt("spi_disable") \/ SigAt("stop_A") \/ SigAt("stop_B")
            \/ SigAt("stop_C") \/ SigAt("vc_unmap") \/ SigAt("vc_unlock")
            \/ SigAt("vc_free") \/ SigAt("vc_close") \/ SigAt("usec")
            \/ SigAt("pwm") \/ SigAt("clk") \/ SigAt("spi_regs")
            \/ SigAt("dma") \/ SigAt("gpio") \/ SigAt("fifo")
            \/ SigAt("exit")
  OBVIOUS
<1> HIDE DEF SigAt, Ops, Regs, After, Then
<1> QED BY <1>1, <1>2, <1>3, <1>4, <1>5, <1>6, <1>7, <1>8, <1>9, <1>10, <1>11,
           <1>12, <1>13, <1>14, <1>15, <1>16, <1>17, PTL
   DEF Takes, Scheduled, NeverStuck

(* Main's own call ends, or a signal comes on top of it.                   *)
LEMMA OwnCallEnds ==
  Scheduled /\ NeverStuck
    => (outcome = "running" /\ sig = "no" /\ at \in Ops \ {"no"} ~> Over)
<1> USE DEF Takes, OwnAt, SigAt, Over, Ops, Regs, After, Then
<1>1. Takes(OwnAt("spi_disable"), OwnAt("stop_A") \/ SigAt("spi_disable"))
  BY OwnStep
<1>2. Takes(OwnAt("stop_A"), OwnAt("stop_B") \/ SigAt("spi_disable"))
  BY OwnStep
<1>3. Takes(OwnAt("stop_B"), OwnAt("stop_C") \/ SigAt("spi_disable"))
  BY OwnStep
<1>4. Takes(OwnAt("stop_C"), OwnAt("vc_unmap") \/ SigAt("spi_disable"))
  BY OwnStep
<1>5. Takes(OwnAt("vc_unmap"),
          OwnAt("vc_unlock") \/ OwnAt("usec") \/ SigAt("spi_disable"))
  BY OwnStep
<1>6. Takes(OwnAt("vc_unlock"), OwnAt("vc_free") \/ SigAt("spi_disable"))
  BY OwnStep
<1>7. Takes(OwnAt("vc_free"), OwnAt("vc_close") \/ SigAt("spi_disable"))
  BY OwnStep
<1>8. Takes(OwnAt("vc_close"), OwnAt("usec") \/ SigAt("spi_disable"))
  BY OwnStep
<1>9. Takes(OwnAt("usec"), OwnAt("pwm") \/ SigAt("spi_disable"))
  BY OwnStep
<1>10. Takes(OwnAt("pwm"), OwnAt("clk") \/ SigAt("spi_disable"))
  BY OwnStep
<1>11. Takes(OwnAt("clk"), OwnAt("spi_regs") \/ SigAt("spi_disable"))
  BY OwnStep
<1>12. Takes(OwnAt("spi_regs"), OwnAt("dma") \/ SigAt("spi_disable"))
  BY OwnStep
<1>13. Takes(OwnAt("dma"), OwnAt("gpio") \/ SigAt("spi_disable"))
  BY OwnStep
<1>14. Takes(OwnAt("gpio"), OwnAt("fifo") \/ SigAt("spi_disable"))
  BY OwnStep
<1>15. Takes(OwnAt("fifo"), OwnAt("exit") \/ SigAt("spi_disable"))
  BY OwnStep
<1>16. Takes(OwnAt("exit"), SigAt("spi_disable"))
  BY OwnStep
<1>17. outcome = "running" /\ sig = "no" /\ at \in Ops \ {"no"}
         => OwnAt("spi_disable") \/ OwnAt("stop_A") \/ OwnAt("stop_B")
            \/ OwnAt("stop_C") \/ OwnAt("vc_unmap") \/ OwnAt("vc_unlock")
            \/ OwnAt("vc_free") \/ OwnAt("vc_close") \/ OwnAt("usec")
            \/ OwnAt("pwm") \/ OwnAt("clk") \/ OwnAt("spi_regs")
            \/ OwnAt("dma") \/ OwnAt("gpio") \/ OwnAt("fifo")
            \/ OwnAt("exit")
  OBVIOUS
<1> HIDE DEF OwnAt, SigAt, Ops, Regs, After, Then
<1>18. SigAt("spi_disable") => outcome = "running" /\ sig \in Ops \ {"no"}
  BY DEF SigAt, Ops
<1> QED BY <1>1, <1>2, <1>3, <1>4, <1>5, <1>6, <1>7, <1>8, <1>9, <1>10, <1>11,
           <1>12, <1>13, <1>14, <1>15, <1>16, <1>17, <1>18, SignalCallEnds,
           PTL
   DEF Takes, Scheduled, NeverStuck

(* Once main or the signal has called terminate the program ends: each     *)
(* call goes through its places once, wherever the other one stands.       *)
THEOREM TerminateEnds == Spec /\ NeverStuck => Ends
<1>1. IInv /\ (at # "no" \/ sig # "no")
        => \/ outcome # "running"
           \/ outcome = "running" /\ sig \in Ops \ {"no"}
           \/ outcome = "running" /\ sig = "no" /\ at \in Ops \ {"no"}
  BY DEF IInv, TypeOK, ProgOK
<1> QED BY <1>1, Invariance, SignalCallEnds, OwnCallEnds, PTL
   DEF Spec, Scheduled, Ends, Over
=============================================================================
