------------------------------ MODULE AdcBench ------------------------------
(***************************************************************************)
(* The programs that try out the board without the streamer: spiadc.c      *)
(* reads samples from the ADC by polling the SPI, led.c blinks.  They are  *)
(* run one after the other, end by themselves or by control-C, whose       *)
(* handler runs on top of any of their steps, and leave the SPI to the     *)
(* next run as it happens to be.                                           *)
(*                                                                         *)
(* The ADC and the SPI are modelled from their use: a conversion is a      *)
(* number, of which the ADC shifts out two bytes, the upper one first;     *)
(* while TA is set a byte goes out of the transmit FIFO and one comes into *)
(* the receive FIFO.  Left out: the pins and clock, which every run sets   *)
(* up first, write_dac, which nobody calls, and the values written.        *)
(***************************************************************************)
EXTENDS Naturals, Sequences

CONSTANTS
  N,        \* samples of a run of spiadc: 10000
  MaxRuns   \* bound: how many programs are run

ASSUME NAssumption       == N \in Nat \ {0}
ASSUME MaxRunsAssumption == MaxRuns \in Nat

VARIABLES
  prog,     \* the program that runs, or ran last: "spiadc", "led"
  pc,       \* where its main is
  sig,      \* where intHandler is; "no": not called
  i,        \* samples stored in arr
  v,        \* bytes of the current sample, as read from the FIFO
  arr,      \* the sample stored last, as <<v1, v2>>
  maps,     \* what is mapped: subset of {"gpio", "spi0"}
  heap,     \* spi0_mem_orig: "null", "allocated", "freed"
  outcome,  \* "running", "exit", "error", "segv", "abort"
  runs,
  ta, done, \* bits of the SPI's CS register
  tx,       \* bytes in the transmit FIFO
  rx,       \* bytes in the receive FIFO, each <<conversion, which byte>>
  conv,     \* conversions so far
  out       \* bytes of the current one that have been shifted out

progVars == <<prog, pc, sig, i, v, arr>>
memVars  == <<maps, heap>>
spiVars  == <<ta, done, tx, rx, conv, out>>
vars     == <<progVars, memVars, outcome, runs, spiVars>>

Init ==
  /\ prog = "spiadc" /\ pc = "end" /\ sig = "no" /\ i = 0 /\ v = <<>>
  /\ arr = <<>> /\ maps = {} /\ heap = "null" /\ outcome = "exit" /\ runs = 0
  /\ ta = FALSE /\ done = FALSE /\ tx = 0 /\ rx = <<>>
  /\ conv = 0 /\ out = 0

(* A program is started; signal(SIGINT, intHandler) is the first it does.  *)
Start ==
  /\ outcome # "running" /\ runs < MaxRuns
  /\ prog' \in {"spiadc", "led"}
  /\ pc' = "open" /\ sig' = "no" /\ i' = 0 /\ v' = <<>> /\ arr' = <<>>
  /\ maps' = {} /\ heap' = "null" /\ outcome' = "running" /\ runs' = runs + 1
  /\ UNCHANGED spiVars

-----------------------------------------------------------------------------
(* The steps of main.                                                      *)

At(p) == outcome = "running" /\ sig = "no" /\ pc = p
Go(p) == pc' = p /\ UNCHANGED <<prog, sig>>
Kept  == UNCHANGED <<i, v, arr>>

(* setup_io: open /dev/mem, map the GPIO, allocate and map over it the     *)
(* SPI, close; any of it may fail, which is an exit without restore_io     *)
SetupNext == [open |-> "mmap", mmap |-> "malloc", malloc |-> "mmap_spi"]

SetupStep ==
  \E p \in DOMAIN SetupNext :
    /\ At(p)
    /\ maps' = IF p = "mmap" THEN maps \cup {"gpio"} ELSE maps
    /\ heap' = IF p = "malloc" THEN "allocated" ELSE heap
    /\ Go(IF prog = "led" /\ p = "mmap" THEN "blink" ELSE SetupNext[p])
    /\ Kept /\ UNCHANGED <<outcome, runs, spiVars>>

MapSpi ==
  /\ At("mmap_spi")
  /\ maps' = maps \cup {"spi0"}
  /\ Go("setup_spi")
  /\ Kept /\ UNCHANGED <<heap, outcome, runs, spiVars>>

SetupFails ==
  /\ \E p \in DOMAIN SetupNext \cup {"mmap_spi"} : At(p)
  /\ outcome' = "error"
  /\ UNCHANGED <<progVars, memVars, runs, spiVars>>

(* Mutant: the FIFOs are not cleared.                                      *)
SetupSpiKeeps ==
  /\ At("setup_spi")
  /\ ta' = FALSE /\ done' = FALSE
  /\ Go("cnvst")
  /\ Kept /\ UNCHANGED <<memVars, outcome, runs, tx, rx, conv, out>>

(* setup_spi: CLRALL, then DONE                                            *)
SetupSpi ==
  /\ At("setup_spi")
  /\ ta' = FALSE /\ done' = FALSE /\ tx' = 0 /\ rx' = <<>>
  /\ Go("cnvst")
  /\ Kept /\ UNCHANGED <<memVars, outcome, runs, conv, out>>

(* The pulse of CNVST starts a conversion; then all of arr is printed.     *)
Cnvst ==
  /\ At("cnvst")
  /\ IF i < N
     THEN conv' = conv + 1 /\ out' = 0 /\ Go("activate")
     ELSE UNCHANGED <<conv, out>> /\ Go("munmap_spi")
  /\ Kept /\ UNCHANGED <<memVars, outcome, runs, ta, done, tx, rx>>

(* read_adc                                                                *)
Activate ==
  /\ At("activate")
  /\ ta' = TRUE
  /\ Go("send1")
  /\ Kept /\ UNCHANGED <<memVars, outcome, runs, done, tx, rx, conv, out>>

SendByte ==
  /\ \/ At("send1") /\ Go("send2")
     \/ At("send2") /\ Go("wait")
  /\ tx' = tx + 1 /\ done' = FALSE
  /\ Kept /\ UNCHANGED <<memVars, outcome, runs, ta, rx, conv, out>>

(* Mutant: TA stays set.                                                 *)
WaitStaysActive ==
  /\ At("wait") /\ done
  /\ done' = FALSE
  /\ Go("read1")
  /\ Kept /\ UNCHANGED <<memVars, outcome, runs, ta, tx, rx, conv, out>>

(* the loop until DONE is seen; the store that clears it clears TA as well *)
Wait ==
  /\ At("wait") /\ done
  /\ ta' = FALSE /\ done' = FALSE
  /\ Go("read1")
  /\ Kept /\ UNCHANGED <<memVars, outcome, runs, tx, rx, conv, out>>

NoByte == <<0, 0>>
ReadByte ==
  /\ At("read1") \/ At("read2")
  /\ rx' = IF rx = <<>> THEN rx ELSE Tail(rx)
  /\ LET b == IF rx = <<>> THEN NoByte ELSE Head(rx) IN
     IF pc = "read1"
     THEN v' = <<b>> /\ Go("read2") /\ UNCHANGED <<i, arr>>
     ELSE v' = <<>> /\ Go("cnvst") /\ i' = i + 1 /\ arr' = Append(v, b)
  /\ UNCHANGED <<memVars, outcome, runs, ta, done, tx, conv, out>>

-----------------------------------------------------------------------------
(* restore_io, called by main and by intHandler; its end is the end of the *)
(* process.  led's handler turns the LED off first.                        *)

(* Mutant: the memory is freed before the GPIO is unmapped.                *)
RestoreNextFrees == [set_led |-> "munmap", munmap_spi |-> "free",
                     munmap |-> "exit", free |-> "munmap"]

RestoreNext == [set_led |-> "munmap", munmap_spi |-> "munmap",
                munmap |-> "free", free |-> "exit"]

In(op) == outcome = "running" /\ (sig = op \/ (sig = "no" /\ pc = op))
Advance(op) ==
  IF sig # "no" THEN sig' = RestoreNext[op] /\ UNCHANGED <<prog, pc>>
                ELSE pc' = RestoreNext[op] /\ UNCHANGED <<prog, sig>>

SetLed ==
  /\ In("set_led")
  /\ IF "gpio" \in maps THEN Advance("set_led") /\ UNCHANGED outcome
                        ELSE outcome' = "segv" /\ UNCHANGED <<prog, pc, sig>>
  /\ Kept /\ UNCHANGED <<memVars, runs, spiVars>>

Munmap ==
  \E op \in {"munmap_spi", "munmap"} :
    /\ In(op)
    /\ maps' = maps \ {IF op = "munmap" THEN "gpio" ELSE "spi0"}
    /\ Advance(op)
    /\ Kept /\ UNCHANGED <<heap, outcome, runs, spiVars>>

(* free(NULL) does nothing, a second free aborts                           *)
Free ==
  /\ In("free")
  /\ IF heap = "freed"
     THEN outcome' = "abort" /\ UNCHANGED <<heap, prog, pc, sig>>
     ELSE /\ heap' = IF heap = "allocated" THEN "freed" ELSE heap
          /\ Advance("free") /\ UNCHANGED outcome
  /\ Kept /\ UNCHANGED <<maps, runs, spiVars>>

End ==
  /\ In("exit")
  /\ outcome' = "exit"
  /\ UNCHANGED <<progVars, memVars, runs, spiVars>>

ControlC ==
  /\ outcome = "running" /\ sig = "no"
  /\ sig' = IF prog = "led" THEN "set_led" ELSE "munmap_spi"
  /\ UNCHANGED <<prog, pc, i, v, arr, memVars, outcome, runs, spiVars>>

-----------------------------------------------------------------------------
(* The SPI shifts a byte, whether the program still runs or not.           *)
Shift ==
  /\ ta /\ tx > 0
  /\ tx' = tx - 1 /\ out' = out + 1
  /\ rx' = Append(rx, <<conv, out + 1>>)
  /\ done' = (tx = 1)
  /\ UNCHANGED <<progVars, memVars, outcome, runs, ta, conv>>

Main == SetupStep \/ MapSpi \/ SetupFails \/ SetupSpi \/ Cnvst \/ Activate
        \/ SendByte \/ Wait \/ ReadByte
Restore == SetLed \/ Munmap \/ Free \/ End

Next == Start \/ Main \/ Restore \/ ControlC \/ Shift
Spec == Init /\ [][Next]_vars
-----------------------------------------------------------------------------
(* Properties.                                                             *)

(* Every sample is the two bytes of the conversion started for it, also    *)
(* when an earlier run was interrupted between any two accesses to the     *)
(* SPI and has left bytes in its FIFOs, or a transfer going.               *)
SampleFresh ==
  arr # <<>> /\ pc = "cnvst" => arr = <<<<conv, 1>>, <<conv, 2>>>>

(* What spiadc leaves behind when nobody presses control-C: no transfer    *)
(* going, nothing in the FIFOs ("Wat laat ik niet goed achter?").          *)
LeavesSpiIdle ==
  outcome = "exit" /\ sig = "no" /\ runs > 0 /\ prog = "spiadc" =>
    ~ta /\ tx = 0 /\ rx = <<>>

(* The handler crashes the program in two windows only: led's before the   *)
(* GPIO is mapped, spiadc's after main's own restore_io has freed the      *)
(* memory.                                                                 *)
CrashWindows ==
  /\ outcome = "segv" => prog = "led" /\ pc \in {"open", "mmap"}
  /\ outcome = "abort" => pc = "exit" /\ sig = "free"
-----------------------------------------------------------------------------
(* The inductive invariant of the proofs.                                  *)

SetupPcs   == {"open", "mmap", "malloc", "mmap_spi", "setup_spi", "blink"}
SamplePcs  == {"cnvst", "activate", "send1", "send2", "wait", "read1", "read2"}
RestorePcs == {"munmap_spi", "munmap", "free", "exit"}

ProgOK ==
  /\ prog \in {"spiadc", "led"}
  /\ pc \in {"end"} \cup SetupPcs \cup SamplePcs \cup RestorePcs
  /\ sig \in {"no", "set_led"} \cup RestorePcs
  /\ i \in Nat /\ runs \in Nat
  /\ maps \subseteq {"gpio", "spi0"}
  /\ heap \in {"null", "allocated", "freed"}
  /\ outcome \in {"running", "exit", "error", "segv", "abort"}
SpiOK ==
  /\ ta \in BOOLEAN /\ done \in BOOLEAN /\ tx \in Nat
  /\ rx \in Seq(Nat \X Nat) /\ conv \in Nat /\ out \in Nat

(* led has none of spiadc's steps, and only its handler turns a LED off.   *)
LedInv ==
  /\ prog = "led" => pc \in {"open", "mmap", "blink"}
  /\ sig = "set_led" => prog = "led"
  /\ prog = "led" /\ pc = "blink" /\ sig \in {"no", "set_led"} =>
       "gpio" \in maps

(* Main frees its memory and goes to exit, or the handler does.            *)
HeapInv == heap = "freed" => pc = "exit" \/ sig = "exit"

(* A program that has ended by itself was at its end.                      *)
EndInv == outcome = "exit" /\ sig = "no" /\ runs > 0 => pc = "exit"

(* The n bytes that have been sent for this conversion: those not shifted  *)
(* yet, and those received.                                                *)
Idle == ~ta /\ tx = 0 /\ rx = <<>>
Sent(n) ==
  \/ tx = n /\ out = 0 /\ rx = <<>>
  \/ tx + 1 = n /\ out = 1 /\ rx = <<<<conv, 1>>>>
  \/ tx + 2 = n /\ out = 2 /\ rx = <<<<conv, 1>>, <<conv, 2>>>>

(* No sample is stored before the FIFOs are cleared.                       *)
SampleInv == SampleFresh /\ (pc \in SetupPcs => arr = <<>>)

(* Where the bytes are, step by step, from the clearing of the FIFOs on.   *)
TransferInv ==
  /\ pc \in {"cnvst"} \cup RestorePcs => Idle
  /\ pc = "activate" => Idle /\ out = 0
  /\ pc = "send1" => ta /\ Sent(0)
  /\ pc = "send2" => ta /\ Sent(1)
  /\ pc = "wait"  => ta /\ Sent(2) /\ (done => tx = 0)
  /\ pc = "read1" => /\ ~ta /\ tx = 0
                     /\ rx = <<<<conv, 1>>, <<conv, 2>>>>
  /\ pc = "read2" => /\ ~ta /\ tx = 0
                     /\ rx = <<<<conv, 2>>>> /\ v = <<<<conv, 1>>>>

IInv == ProgOK /\ SpiOK /\ LedInv /\ HeapInv /\ EndInv /\ CrashWindows
        /\ TransferInv /\ SampleInv
=============================================================================
