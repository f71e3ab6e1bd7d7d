-------------------------- MODULE AdcBench_proofs ---------------------------
(***************************************************************************)
(* Proofs about AdcBench, for any number of samples and of runs.  The      *)
(* argument is where the bytes of the conversion in progress are at each   *)
(* step of spiadc (TransferInv): from the clearing of the FIFOs on, none   *)
(* is there but those that the program itself has sent for.                *)
(***************************************************************************)
EXTENDS AdcBench, SequenceTheorems, TLAPS

(* Two bytes in a row.                                                     *)
LEMMA AppendOne ==
  ASSUME NEW S, NEW b \in S, NEW c \in S
  PROVE  Append(<<>>, b) = <<b>> /\ Append(<<b>>, c) = <<b, c>>
<1>1. /\ <<b>> \in Seq(S) /\ <<b, c>> \in Seq(S)
      /\ Append(<<b>>, c) \in Seq(S) /\ Append(<<>>, b) \in Seq(S)
  OBVIOUS
<1>2. /\ Len(<<b>>) = 1 /\ Len(<<b, c>>) = 2
      /\ Len(Append(<<b>>, c)) = 2 /\ Len(Append(<<>>, b)) = 1
  OBVIOUS
<1>3. \A k \in 1..2 : Append(<<b>>, c)[k] = <<b, c>>[k]
  BY <1>1, <1>2
<1>4. \A k \in 1..1 : Append(<<>>, b)[k] = <<b>>[k]
  BY <1>1, <1>2
<1>5. Append(<<b>>, c) = <<b, c>>
  BY <1>1, <1>2, <1>3, SeqEqual
<1>6. Append(<<>>, b) = <<b>>
  BY <1>1, <1>2, <1>4, SeqEqual
<1> QED BY <1>5, <1>6

(* The two bytes of a conversion, read or shifted in.                      *)
LEMMA BothBytes ==
  ASSUME SpiOK
  PROVE  /\ Append(<<>>, <<conv, 1>>) = <<<<conv, 1>>>>
         /\ Append(<<<<conv, 1>>>>, <<conv, 2>>) = <<<<conv, 1>>, <<conv, 2>>>>
<1>1. <<conv, 1>> \in Nat \X Nat /\ <<conv, 2>> \in Nat \X Nat
  BY DEF SpiOK
<1>2. \A b, c \in Nat \X Nat :
        Append(<<>>, b) = <<b>> /\ Append(<<b>>, c) = <<b, c>>
  BY AppendOne
<1> QED BY <1>1, <1>2

(* No program has run yet.                                                 *)
LEMMA InitIInv == Init => IInv
<1> SUFFICES ASSUME Init PROVE IInv
  OBVIOUS
<1> USE DEF Init, SetupPcs, SamplePcs, RestorePcs
<1>1. ProgOK /\ SpiOK
  <2>1. ta \in BOOLEAN /\ done \in BOOLEAN
    BY DEF Init
  <2> QED BY <2>1 DEF ProgOK, SpiOK
<1>2. LedInv /\ HeapInv /\ EndInv /\ CrashWindows /\ SampleInv
  BY DEF LedInv, HeapInv, EndInv, CrashWindows, SampleInv, SampleFresh
<1>3. TransferInv
  BY DEF TransferInv
<1> QED BY <1>1, <1>2, <1>3 DEF IInv

(* A program starts with what the last one has left in the SPI.            *)
LEMMA StartStep == IInv /\ Start => IInv'
<1> SUFFICES ASSUME IInv, Start PROVE IInv'
  OBVIOUS
<1> USE DEF IInv, Start, spiVars, SetupPcs, SamplePcs, RestorePcs
<1>1. ProgOK' /\ SpiOK'
  BY DEF ProgOK, SpiOK
<1>2. LedInv' /\ HeapInv' /\ EndInv' /\ CrashWindows' /\ SampleInv'
  BY DEF LedInv, HeapInv, EndInv, CrashWindows, SampleInv, SampleFresh
<1>3. TransferInv'
  BY DEF TransferInv
<1> QED BY <1>1, <1>2, <1>3

-----------------------------------------------------------------------------
(* Steps of main.                                                          *)

(* setup_io does not touch the SPI; led has its LED mapped at the end.     *)
LEMMA SetupStepStep == IInv /\ SetupStep => IInv'
<1> SUFFICES ASSUME IInv, NEW p \in DOMAIN SetupNext, At(p),
                    maps' = IF p = "mmap" THEN maps \cup {"gpio"} ELSE maps,
                    heap' = IF p = "malloc" THEN "allocated" ELSE heap,
                    Go(IF prog = "led" /\ p = "mmap" THEN "blink"
                                                    ELSE SetupNext[p]),
                    Kept, UNCHANGED <<outcome, runs, spiVars>>
             PROVE  IInv'
  BY DEF SetupStep
<1> USE DEF IInv, At, Go, Kept, spiVars, SetupPcs, SamplePcs, RestorePcs
<1>1. /\ p \in {"open", "mmap", "malloc"} /\ pc = p
      /\ pc' \in {"mmap", "malloc", "mmap_spi", "blink"}
      /\ pc' = "blink" <=> prog = "led" /\ p = "mmap"
      /\ pc' = "mmap" <=> p = "open"
  BY DEF SetupNext
<1>2. ProgOK' /\ SpiOK'
  BY <1>1 DEF ProgOK, SpiOK
<1>3. LedInv'
  BY <1>1 DEF LedInv, ProgOK
<1>4. HeapInv' /\ EndInv' /\ CrashWindows' /\ SampleInv'
  BY <1>1 DEF HeapInv, EndInv, CrashWindows, SampleInv, SampleFresh
<1>5. TransferInv'
  BY <1>1 DEF TransferInv
<1> QED BY <1>2, <1>3, <1>4, <1>5

(* The SPI is mapped, by spiadc only.                                      *)
LEMMA MapSpiStep == IInv /\ MapSpi => IInv'
<1> SUFFICES ASSUME IInv, MapSpi PROVE IInv'
  OBVIOUS
<1> USE DEF IInv, MapSpi, At, Go, Kept, spiVars, SetupPcs, SamplePcs,
            RestorePcs
<1>1. ProgOK' /\ SpiOK'
  BY DEF ProgOK, SpiOK
<1>2. LedInv' /\ HeapInv' /\ EndInv' /\ CrashWindows' /\ SampleInv'
  BY DEF LedInv, HeapInv, EndInv, CrashWindows, SampleInv, SampleFresh
<1>3. TransferInv'
  BY DEF TransferInv
<1> QED BY <1>1, <1>2, <1>3

(* A failure of setup_io ends the program where it is.                     *)
LEMMA SetupFailsStep == IInv /\ SetupFails => IInv'
<1> SUFFICES ASSUME IInv, SetupFails PROVE IInv'
  OBVIOUS
<1> USE DEF IInv, SetupFails, progVars, memVars, spiVars
<1>1. ProgOK' /\ SpiOK'
  BY DEF ProgOK, SpiOK
<1>2. LedInv' /\ HeapInv' /\ EndInv' /\ CrashWindows' /\ SampleInv'
  BY DEF LedInv, HeapInv, EndInv, CrashWindows, SampleInv, SampleFresh
<1>3. TransferInv'
  BY DEF TransferInv, Idle, Sent
<1> QED BY <1>1, <1>2, <1>3

(* setup_spi stops a transfer that is going and clears the FIFOs.          *)
LEMMA SetupSpiStep == IInv /\ SetupSpi => IInv'
<1> SUFFICES ASSUME IInv, SetupSpi PROVE IInv'
  OBVIOUS
<1> USE DEF IInv, SetupSpi, At, Go, Kept, memVars, SetupPcs, SamplePcs,
            RestorePcs
<1>1. ProgOK' /\ SpiOK'
  <2>1. ta' \in BOOLEAN /\ done' \in BOOLEAN
    BY DEF SetupSpi
  <2> QED BY <2>1 DEF ProgOK, SpiOK
<1>2. LedInv' /\ HeapInv' /\ EndInv' /\ CrashWindows'
  BY DEF LedInv, HeapInv, EndInv, CrashWindows
<1>3. SampleInv'
  BY DEF SampleInv, SampleFresh
<1>4. TransferInv'
  BY DEF TransferInv, Idle
<1> QED BY <1>1, <1>2, <1>4, <1>3

(* A conversion starts, none of whose bytes has been shifted out yet.      *)
LEMMA CnvstStep == IInv /\ Cnvst => IInv'
<1> SUFFICES ASSUME IInv, Cnvst PROVE IInv'
  OBVIOUS
<1> USE DEF IInv, Cnvst, At, Go, Kept, memVars, SetupPcs, SamplePcs,
            RestorePcs
<1>1. ProgOK'
  BY DEF ProgOK
<1>2. SpiOK'
  BY DEF SpiOK, ProgOK
<1>3. LedInv' /\ HeapInv' /\ EndInv' /\ CrashWindows'
  BY DEF LedInv, HeapInv, EndInv, CrashWindows
<1>4. TransferInv'
  BY DEF TransferInv, Idle
<1>5. SampleInv'
  BY DEF SampleInv, SampleFresh
<1> QED BY <1>1, <1>2, <1>3, <1>4, <1>5

(* TA is set while nothing is there to send.                               *)
LEMMA ActivateStep == IInv /\ Activate => IInv'
<1> SUFFICES ASSUME IInv, Activate PROVE IInv'
  OBVIOUS
<1> USE DEF IInv, Activate, At, Go, Kept, memVars, SetupPcs, SamplePcs,
            RestorePcs
<1>1. ProgOK'
  BY DEF ProgOK
<1>2. SpiOK'
  BY DEF SpiOK
<1>3. LedInv' /\ HeapInv' /\ EndInv' /\ CrashWindows'
  BY DEF LedInv, HeapInv, EndInv, CrashWindows
<1>4. TransferInv'
  BY DEF TransferInv, Idle, Sent
<1>5. SampleInv'
  BY DEF SampleInv, SampleFresh
<1> QED BY <1>1, <1>2, <1>3, <1>4, <1>5

(* A byte is sent for the conversion, while the one before it may or may   *)
(* not be shifted out.                                                     *)
LEMMA SendByteStep == IInv /\ SendByte => IInv'
<1> SUFFICES ASSUME IInv, SendByte PROVE IInv'
  OBVIOUS
<1> USE DEF IInv, SendByte, At, Go, Kept, memVars, SetupPcs, SamplePcs,
            RestorePcs
<1>1. ProgOK'
  BY DEF ProgOK
<1>2. SpiOK'
  <2>1. done' = FALSE /\ tx' = tx + 1 /\ UNCHANGED <<ta, rx, conv, out>>
    OBVIOUS
  <2>2. done' \in BOOLEAN
    BY <2>1
  <2>3. tx' \in Nat
    BY <2>1 DEF SpiOK
  <2> QED BY <2>1, <2>2, <2>3 DEF SpiOK
<1>3. LedInv' /\ HeapInv' /\ EndInv' /\ CrashWindows'
  BY DEF LedInv, HeapInv, EndInv, CrashWindows
<1>4. TransferInv'
  BY DEF TransferInv, Sent, SpiOK
<1>5. SampleInv'
  BY DEF SampleInv, SampleFresh
<1> QED BY <1>1, <1>2, <1>3, <1>4, <1>5

(* DONE is seen: both bytes are there, and TA is cleared.                  *)
LEMMA WaitStep == IInv /\ Wait => IInv'
<1> SUFFICES ASSUME IInv, Wait PROVE IInv'
  OBVIOUS
<1> USE DEF IInv, Wait, At, Go, Kept, memVars, SetupPcs, SamplePcs,
            RestorePcs
<1>1. ProgOK'
  BY DEF ProgOK
<1>2. SpiOK'
  BY DEF SpiOK
<1>3. LedInv' /\ HeapInv' /\ EndInv' /\ CrashWindows'
  BY DEF LedInv, HeapInv, EndInv, CrashWindows
<1>4. TransferInv'
  BY DEF TransferInv, Sent, SpiOK
<1>5. SampleInv'
  BY DEF SampleInv, SampleFresh
<1> QED BY <1>1, <1>2, <1>3, <1>4, <1>5

(* A byte is read: first the upper one of the conversion, then the lower.  *)
LEMMA ReadByteStep == IInv /\ ReadByte => IInv'
<1> SUFFICES ASSUME IInv, ReadByte PROVE IInv'
  OBVIOUS
<1> USE DEF IInv, At, Go, memVars, SetupPcs, SamplePcs, RestorePcs
<1>1. CASE pc = "read1"
  <2>1. rx = <<<<conv, 1>>, <<conv, 2>>>> /\ ~ta /\ tx = 0
    BY <1>1 DEF TransferInv
  <2>2. Head(rx) = <<conv, 1>> /\ Tail(rx) = <<<<conv, 2>>>> /\ rx # <<>>
    BY <2>1
  <2>3. /\ rx' = <<<<conv, 2>>>> /\ v' = <<<<conv, 1>>>> /\ pc' = "read2"
        /\ UNCHANGED <<prog, sig, i, arr, maps, heap, outcome, runs, ta, done,
                      tx, conv, out>>
    BY <1>1, <2>2 DEF ReadByte
  <2>4. ProgOK' /\ LedInv' /\ HeapInv' /\ EndInv' /\ CrashWindows'
    BY <1>1, <2>3 DEF ProgOK, LedInv, HeapInv, EndInv, CrashWindows, ReadByte
  <2>5. SpiOK'
    BY <2>3 DEF SpiOK
  <2>6. TransferInv' /\ SampleInv'
    BY <2>1, <2>3 DEF TransferInv, SampleInv, SampleFresh
  <2> QED BY <2>4, <2>5, <2>6
<1>2. CASE pc = "read2"
  <2>1. rx = <<<<conv, 2>>>> /\ v = <<<<conv, 1>>>> /\ ~ta /\ tx = 0
    BY <1>2 DEF TransferInv
  <2>2. Head(rx) = <<conv, 2>> /\ Tail(rx) = <<>> /\ rx # <<>>
    BY <2>1
  <2>3. /\ rx' = <<>> /\ pc' = "cnvst" /\ i' = i + 1
        /\ arr' = Append(v, <<conv, 2>>)
        /\ UNCHANGED <<prog, sig, maps, heap, outcome, runs, ta, done,
                      tx, conv, out>>
    BY <1>2, <2>2 DEF ReadByte
  <2>4. ProgOK' /\ LedInv' /\ HeapInv' /\ EndInv' /\ CrashWindows'
    BY <1>2, <2>3 DEF ProgOK, LedInv, HeapInv, EndInv, CrashWindows, ReadByte
  <2>5. SpiOK'
    BY <2>3 DEF SpiOK
  <2>6. TransferInv'
    BY <2>1, <2>3 DEF TransferInv, Idle
  <2>7. arr' = <<<<conv, 1>>, <<conv, 2>>>>
    BY <2>1, <2>3, BothBytes
  <2>8. SampleInv'
    BY <2>3, <2>7 DEF SampleInv, SampleFresh
  <2> QED BY <2>4, <2>5, <2>6, <2>8
<1> QED BY <1>1, <1>2 DEF ReadByte

-----------------------------------------------------------------------------
(* Steps of restore_io, of main's or of the handler's.                     *)

(* Where a step of restore_io leads; the other of the two stays.           *)
LEMMA AdvanceTo ==
  ASSUME IInv, NEW op \in {"set_led"} \cup RestorePcs, In(op), op # "exit",
         Advance(op)
  PROVE  /\ \/ /\ sig = op /\ sig' = RestoreNext[op] /\ pc' = pc
            \/ /\ sig = "no" /\ pc = op /\ pc' = RestoreNext[op] /\ sig' = sig
               /\ op # "set_led"
         /\ prog' = prog /\ RestoreNext[op] \in {"munmap", "free", "exit"}
         /\ outcome = "running"
<1>1. RestoreNext[op] \in {"munmap", "free", "exit"}
  BY DEF RestoreNext, RestorePcs
<1>2. pc # "set_led"
  BY DEF IInv, ProgOK, SetupPcs, SamplePcs, RestorePcs
<1> QED BY <1>1, <1>2 DEF In, Advance, RestorePcs

(* The SPI and the samples are left alone by restore_io, and where main    *)
(* is there nothing is left in the SPI.                                    *)
LEMMA RestoreKeeps ==
  ASSUME IInv, Kept, UNCHANGED spiVars,
         pc' = pc \/ (pc \in RestorePcs /\ pc' \in RestorePcs)
  PROVE  SpiOK' /\ TransferInv' /\ SampleInv'
<1> USE DEF IInv, Kept, spiVars, SetupPcs, SamplePcs, RestorePcs
<1>1. SpiOK'
  BY DEF SpiOK
<1>2. TransferInv'
  BY DEF TransferInv, Idle, Sent
<1>3. SampleInv'
  BY DEF SampleInv, SampleFresh
<1> QED BY <1>1, <1>2, <1>3

(* led's handler turns the LED off: if the GPIO is not mapped, main was    *)
(* not past mapping it.                                                    *)
LEMMA SetLedStep == IInv /\ SetLed => IInv'
<1> SUFFICES ASSUME IInv, SetLed PROVE IInv'
  OBVIOUS
<1>1. sig = "set_led" /\ pc' = pc /\ prog' = prog /\ prog = "led"
  BY AdvanceTo DEF SetLed, IInv, ProgOK, LedInv, In, Advance, SetupPcs,
     SamplePcs, RestorePcs
<1>2. SpiOK' /\ TransferInv' /\ SampleInv'
  BY <1>1, RestoreKeeps DEF SetLed
<1>3. CASE "gpio" \in maps
  <2>1. sig' = "munmap" /\ UNCHANGED <<outcome, maps, heap, i, runs>>
    BY <1>1, <1>3 DEF SetLed, Advance, RestoreNext, memVars, Kept
  <2>2. ProgOK' /\ LedInv' /\ HeapInv' /\ EndInv' /\ CrashWindows'
    BY <1>1, <2>1 DEF IInv, ProgOK, LedInv, HeapInv, EndInv, CrashWindows,
       RestorePcs, SetLed, In
  <2> QED BY <1>2, <2>2 DEF IInv
<1>4. CASE "gpio" \notin maps
  <2>1. outcome' = "segv" /\ UNCHANGED <<sig, maps, heap, i, runs>>
    BY <1>4 DEF SetLed, memVars, Kept
  <2>2. pc \in {"open", "mmap"}
    BY <1>1, <1>4 DEF IInv, LedInv
  <2>3. ProgOK' /\ LedInv' /\ HeapInv' /\ EndInv' /\ CrashWindows'
    BY <1>1, <2>1, <2>2 DEF IInv, ProgOK, LedInv, HeapInv, EndInv,
       CrashWindows
  <2> QED BY <1>2, <2>3 DEF IInv
<1> QED BY <1>3, <1>4

(* Unmapping the SPI disturbs nothing, and the GPIO is unmapped only after *)
(* the LED is turned off.                                                  *)
LEMMA MunmapStep == IInv /\ Munmap => IInv'
<1> SUFFICES ASSUME IInv, NEW op \in {"munmap_spi", "munmap"}, In(op),
                    maps' = maps \ {IF op = "munmap" THEN "gpio" ELSE "spi0"},
                    Advance(op), Kept,
                    UNCHANGED <<heap, outcome, runs, spiVars>>
             PROVE  IInv'
  BY DEF Munmap
<1>1. /\ \/ sig = op /\ sig' = RestoreNext[op] /\ pc' = pc
         \/ sig = "no" /\ pc = op /\ pc' = RestoreNext[op] /\ sig' = sig
      /\ prog' = prog /\ RestoreNext[op] \in {"munmap", "free", "exit"}
      /\ outcome = "running"
  BY AdvanceTo DEF RestorePcs
<1>2. SpiOK' /\ TransferInv' /\ SampleInv'
  BY <1>1, RestoreKeeps DEF RestorePcs
<1>3. ProgOK'
  BY <1>1 DEF IInv, ProgOK, RestorePcs, Kept
<1>4. LedInv'
  BY <1>1 DEF IInv, LedInv
<1>5. HeapInv' /\ EndInv' /\ CrashWindows'
  BY <1>1 DEF IInv, HeapInv, EndInv, CrashWindows
<1> QED BY <1>2, <1>3, <1>4, <1>5 DEF IInv

(* The memory is freed: a second time only by a handler that interrupted   *)
(* main after its own free.                                                *)
LEMMA FreeStep == IInv /\ Free => IInv'
<1> SUFFICES ASSUME IInv, Free PROVE IInv'
  OBVIOUS
<1>1. CASE heap = "freed"
  <2>1. outcome' = "abort" /\ UNCHANGED <<heap, prog, pc, sig, maps, runs, i>>
    BY <1>1 DEF Free, Kept
  <2>2. pc = "exit" /\ sig = "free"
    BY <1>1 DEF Free, In, IInv, HeapInv
  <2>3. SpiOK' /\ TransferInv' /\ SampleInv'
    BY <2>1, RestoreKeeps DEF Free
  <2>4. ProgOK' /\ LedInv' /\ HeapInv' /\ EndInv' /\ CrashWindows'
    BY <2>1, <2>2 DEF IInv, ProgOK, LedInv, HeapInv, EndInv, CrashWindows
  <2> QED BY <2>3, <2>4 DEF IInv
<1>2. CASE heap # "freed"
  <2>1. /\ \/ sig = "free" /\ sig' = "exit" /\ pc' = pc
           \/ sig = "no" /\ pc = "free" /\ pc' = "exit" /\ sig' = sig
        /\ prog' = prog /\ outcome = "running"
    BY <1>2, AdvanceTo DEF Free, RestorePcs, RestoreNext
  <2>2. /\ heap' = IF heap = "allocated" THEN "freed" ELSE heap
        /\ UNCHANGED <<outcome, maps, runs, i>>
    BY <1>2 DEF Free, Kept
  <2>3. SpiOK' /\ TransferInv' /\ SampleInv'
    BY <2>1, RestoreKeeps DEF Free, RestorePcs
  <2>4. ProgOK' /\ LedInv'
    BY <2>1, <2>2 DEF IInv, ProgOK, LedInv, RestorePcs
  <2>5. HeapInv' /\ EndInv' /\ CrashWindows'
    BY <2>1, <2>2 DEF IInv, HeapInv, EndInv, CrashWindows
  <2> QED BY <2>3, <2>4, <2>5 DEF IInv
<1> QED BY <1>1, <1>2

(* exit                                                                    *)
LEMMA EndStep == IInv /\ End => IInv'
<1> SUFFICES ASSUME IInv, End PROVE IInv'
  OBVIOUS
<1> USE DEF IInv, End, In, progVars, memVars
<1>1. SpiOK' /\ TransferInv' /\ SampleInv'
  BY RestoreKeeps DEF Kept
<1>2. ProgOK' /\ LedInv' /\ HeapInv' /\ EndInv' /\ CrashWindows'
  BY DEF ProgOK, LedInv, HeapInv, EndInv, CrashWindows
<1> QED BY <1>1, <1>2

(* control-C, at any step of main.                                         *)
LEMMA ControlCStep == IInv /\ ControlC => IInv'
<1> SUFFICES ASSUME IInv, ControlC PROVE IInv'
  OBVIOUS
<1> USE DEF IInv, ControlC, memVars
<1>1. SpiOK' /\ TransferInv' /\ SampleInv'
  BY RestoreKeeps DEF Kept
<1>2. ProgOK' /\ LedInv' /\ HeapInv' /\ EndInv' /\ CrashWindows'
  BY DEF ProgOK, LedInv, HeapInv, EndInv, CrashWindows, RestorePcs
<1> QED BY <1>1, <1>2

-----------------------------------------------------------------------------
(* The SPI shifts a byte: one of an earlier run, or the next one of the    *)
(* conversion in progress.                                                 *)
LEMMA ShiftStep == IInv /\ Shift => IInv'
<1> SUFFICES ASSUME IInv, Shift PROVE IInv'
  OBVIOUS
<1> USE DEF IInv, Shift, progVars, memVars, SetupPcs, SamplePcs, RestorePcs
<1>1. ProgOK' /\ LedInv' /\ HeapInv' /\ EndInv' /\ CrashWindows'
  BY DEF ProgOK, LedInv, HeapInv, EndInv, CrashWindows
<1>2. SpiOK'
  <2>1. done' \in BOOLEAN
    BY Zenon
  <2>2. tx' \in Nat /\ out' \in Nat /\ rx' \in Seq(Nat \X Nat)
    BY DEF SpiOK
  <2> QED BY <2>1, <2>2 DEF SpiOK
<1>3. \A n \in {0, 1, 2} : Sent(n) => Sent(n)'
  <2>1. ASSUME NEW n \in {0, 1, 2}, Sent(n)
        PROVE  Sent(n)'
    <3>1. CASE tx = n /\ out = 0 /\ rx = <<>>
      <4>1. rx' = <<<<conv, 1>>>>
        BY <3>1, BothBytes
      <4> QED BY <3>1, <4>1 DEF Sent, SpiOK
    <3>2. CASE tx + 1 = n /\ out = 1 /\ rx = <<<<conv, 1>>>>
      <4>1. rx' = <<<<conv, 1>>, <<conv, 2>>>>
        BY <3>2, BothBytes
      <4>2. conv' = conv /\ out' = 2 /\ tx' + 2 = n
        BY <3>2 DEF SpiOK
      <4> QED BY <4>1, <4>2 DEF Sent
    <3>3. CASE tx + 2 = n
      BY <3>3 DEF SpiOK
    <3> QED BY <2>1, <3>1, <3>2, <3>3 DEF Sent
  <2> QED BY <2>1
<1>4. TransferInv'
  <2>1. done' => tx = 1
    BY Zenon
  <2>2. done' => tx' = 0
    BY <2>1
  <2> QED BY <1>3, <2>2 DEF TransferInv, Idle, SpiOK
<1>5. SampleInv'
  BY DEF SampleInv, SampleFresh
<1> QED BY <1>1, <1>2, <1>4, <1>5

-----------------------------------------------------------------------------
(* The invariant and what follows from it.                                 *)

(* Every step keeps the invariant.                                         *)
LEMMA IInvNext == IInv /\ [Next]_vars => IInv'
<1> SUFFICES ASSUME IInv, [Next]_vars PROVE IInv'
  OBVIOUS
<1>1. CASE UNCHANGED vars
  <2> USE <1>1 DEF IInv, vars, progVars, memVars, spiVars
  <2>1. SpiOK' /\ TransferInv' /\ SampleInv'
    BY RestoreKeeps DEF Kept
  <2>2. ProgOK' /\ LedInv' /\ HeapInv' /\ EndInv' /\ CrashWindows'
    BY DEF ProgOK, LedInv, HeapInv, EndInv, CrashWindows
  <2> QED BY <2>1, <2>2
<1> QED BY <1>1, StartStep, SetupStepStep, MapSpiStep, SetupFailsStep,
           SetupSpiStep, CnvstStep, ActivateStep, SendByteStep, WaitStep,
           ReadByteStep, SetLedStep, MunmapStep, FreeStep, EndStep,
           ControlCStep, ShiftStep DEF Next, Main, Restore

(* The invariant holds of every sequence of runs.                          *)
THEOREM Invariance == Spec => []IInv
  BY InitIInv, IInvNext, PTL DEF Spec

(* Every sample that spiadc stores is of the conversion started for it,    *)
(* whatever an interrupted run before has left in the SPI.                 *)
THEOREM SamplesFresh == Spec => []SampleFresh
<1>1. IInv => SampleFresh
  BY DEF IInv, SampleInv
<1> QED BY <1>1, Invariance, PTL

(* A run of spiadc that ends by itself leaves nothing in the SPI.          *)
THEOREM SpiIdle == Spec => []LeavesSpiIdle
<1>1. IInv => LeavesSpiIdle
  BY DEF IInv, EndInv, TransferInv, Idle, LeavesSpiIdle, RestorePcs
<1> QED BY <1>1, Invariance, PTL

(* Control-C crashes the programs in two windows only.                     *)
THEOREM Windows == Spec => []CrashWindows
<1>1. IInv => CrashWindows
  BY DEF IInv
<1> QED BY <1>1, Invariance, PTL
=============================================================================
