-------------------------- MODULE PingPong_proofs --------------------------
(***************************************************************************)
(* Proofs about PingPong, for every block length NSamp, every bound MaxBlk *)
(* and both kinds of fetch function.  The argument is the inductive        *)
(* invariant IInv of PingPong: InitIInv and IInvNext show that it is one,  *)
(* with one lemma per action, and the theorems after them read the         *)
(* properties off it.  At the end: every flag is served.                   *)
(***************************************************************************)
EXTENDS PingPong, TLAPS

-----------------------------------------------------------------------------
(* Facts about the operators.                                              *)

(* A copy is the block k when each of its words is.                        *)
LEMMA BlockPointwise ==
  ASSUME NEW S, NEW f \in [Word -> S], NEW k
  PROVE  f = Block(k) <=> \A j \in Word : f[j] = k
  BY DEF Block

(* Arithmetic of sample counts: NSamp samples for each flag.               *)
LEMMA Distribute ==
  ASSUME NEW a \in Int, NEW b \in Int, b <= a + 1
  PROVE  NSamp * (a + 1) = NSamp * a + NSamp /\ NSamp * b <= NSamp * a + NSamp
  BY NSampAssumption

(* A bound on t + x survives when x grows by d at most, and the bound by d.*)
LEMMA Slack ==
  ASSUME NEW t \in Int, NEW x \in Int, NEW y \in Int, NEW z \in Int,
         NEW w \in Int, NEW d \in Int, t + x <= w, y <= x + d, z = w + d
  PROVE  t + y <= z
  OBVIOUS

(* A bound on a count survives one more flag and one more block.           *)
LEMMA CountUp ==
  ASSUME NEW t \in Int, NEW k \in Int, NEW m \in Int, NEW b \in Int,
         t + NSamp * k <= NSamp * (b - 1), m <= k + 1
  PROVE  t + NSamp * m <= NSamp * b
<1>1. NSamp * m <= NSamp * k + NSamp
  BY Distribute
<1>2. NSamp * b = NSamp * (b - 1) + NSamp
  BY Distribute
<1>3. NSamp * k \in Int /\ NSamp * m \in Int /\ NSamp * b \in Int
      /\ NSamp * (b - 1) \in Int
  BY NSampAssumption
<1> QED BY <1>1, <1>2, <1>3, Slack, NSampAssumption

(* There are two buffers: the one being filled and the complete one.       *)
LEMMA Buffers ==
  ASSUME TypeOK
  PROVE  /\ Filling \in Buf /\ Complete \in Buf /\ Complete # Filling
         /\ \A b \in Buf : b = Filling \/ b = Complete
         /\ \A b \in Buf : Other(b) \in Buf /\ Other(b) # b
         /\ Other(Filling) = Complete /\ Other(Complete) = Filling
  BY DEF TypeOK, Buf, Other, Filling, Complete

-----------------------------------------------------------------------------
(* The invariant holds initially.                                          *)

(* The program starts with the zeroed memory of adc_dma_init, in which the *)
(* invariant holds.                                                        *)
THEOREM InitIInv == Init => IInv
<1> SUFFICES ASSUME Init PROVE IInv
  OBVIOUS
<1>1. Block(0) \in [Word -> 0..MaxBlk]
  BY MaxBlkAssumption DEF Block
<1>2. TypeOK
  <2>1. rx_buff \in [Word -> 0..MaxBlk] /\ vals \in BlockRec
    BY <1>1, MaxBlkAssumption DEF Init, CpuInit, BlockRec
  <2>2. rxd \in [Buf -> [Word -> 0..MaxBlk]] /\ usecs \in [Buf -> 0..MaxBlk]
    BY <1>1, MaxBlkAssumption DEF Init, DmaInit
  <2>3. /\ cb \in 0..5 /\ off \in 0..(NSamp - 1) /\ blk \in 1..MaxBlk
        /\ states \in [Buf -> {0, 1}]
    BY NSampAssumption, MaxBlkAssumption DEF Init, DmaInit
  <2>4. /\ n \in Buf /\ i \in 0..NSamp /\ usec \in 0..MaxBlk
        /\ samp_total \in Nat /\ overrun_total \in Nat /\ lap \in 0..2
    BY NSampAssumption, MaxBlkAssumption DEF Init, CpuInit, Buf
  <2> QED BY <2>1, <2>2, <2>3, <2>4 DEF Init, CpuInit, TypeOK
<1>3. MemoryInv
  BY DEF Init, DmaInit, MemoryInv, Filled, Filling, Complete, Other, Buf
<1>4. FlagInv /\ CopyInv /\ ClearInv /\ EmitInv /\ DropInv
  BY DEF Init, DmaInit, CpuInit, FlagInv, CopyInv, ClearInv, EmitInv, DropInv
<1>5. OrderInv /\ GapInv
  BY <1>2, Buffers
  DEF Init, DmaInit, CpuInit, OrderInv, NewerBlock, GapInv, NoSilentLoss
<1>6. CountInv
  BY NSampAssumption DEF Init, DmaInit, CpuInit, CountInv, Counted, Buf
<1> QED BY <1>2, <1>3, <1>4, <1>5, <1>6 DEF IInv

-----------------------------------------------------------------------------
(* The steps of the DMA.                                                   *)

(* The DMA stores a time stamp in the buffer it is about to fill, which no *)
(* flag vouches for yet.                                                   *)
LEMMA DmaUsecStep ==
  ASSUME IInv, DmaUsec PROVE IInv'
<1> USE DEF IInv
<1>1. /\ Filling' = Filling /\ Complete' = Complete /\ Filled' = 0
      /\ cb' \in {1, 4}
  <2>1. cb' \in {1, 4} /\ Filling' = Filling
    BY DEF DmaUsec, TypeOK, Filling, NextCb
  <2>2. off' = 0
    BY DEF DmaUsec, MemoryInv
  <2> QED BY <2>1, <2>2 DEF Filled, Complete, Other
<1>2. /\ usecs' \in [Buf -> 0..MaxBlk] /\ usecs'[Filling] = blk
      /\ usecs'[Complete] = usecs[Complete]
  BY Buffers DEF DmaUsec, TypeOK
<1>3. TypeOK'
  BY <1>1, <1>2 DEF DmaUsec, TypeOK, loopVars, dataVars, histVars
<1>4. MemoryInv'
  BY <1>1, <1>2, Buffers DEF DmaUsec, TypeOK, MemoryInv
<1>5. FlagInv' /\ CopyInv' /\ CountInv'
  BY <1>1 DEF DmaUsec, FlagInv, CopyInv, CountInv, Counted, loopVars,
     dataVars, histVars
<1>6. ClearInv' /\ EmitInv' /\ DropInv' /\ OrderInv' /\ GapInv'
  BY <1>1 DEF DmaUsec, ClearInv, EmitInv, DropInv, OrderInv, NewerBlock,
     GapInv, NoSilentLoss, loopVars, dataVars, histVars
<1> QED BY <1>3, <1>4, <1>5, <1>6

(* The DMA stores a word in the buffer it is filling; the complete buffer  *)
(* is untouched.                                                           *)
LEMMA DmaWordStep ==
  ASSUME IInv, DmaWord PROVE IInv'
<1> USE DEF IInv
<1>1. /\ Filling' = Filling /\ Complete' = Complete /\ Filled = off
      /\ Filled' = off + 1 /\ cb' \in 0..5 \ {0, 3}
      /\ off' \in 0..(NSamp - 1) /\ (cb' \notin {1, 4} => off' = 0)
  <2>1. Filling' = Filling /\ Filled = off /\ cb' \in 0..5 \ {0, 3}
    BY DEF DmaWord, TypeOK, Filling, Filled, NextCb
  <2>2. CASE off + 1 = NSamp
    <3>1. cb' \in {2, 5} /\ off' = 0
      BY <2>2 DEF DmaWord, NextCb
    <3> QED BY <2>1, <2>2, <3>1, NSampAssumption DEF Filled, Complete, Other
  <2>3. CASE off + 1 # NSamp
    <3>1. cb' \in {1, 4} /\ off' = off + 1
      BY <2>3 DEF DmaWord
    <3> QED BY <2>1, <2>3, <3>1, NSampAssumption
            DEF Filled, Complete, Other, TypeOK
  <2> QED BY <2>2, <2>3
<1>w. off + 1 \in Word
  BY NSampAssumption DEF TypeOK, Word
<1> DEFINE new == [rxd[Filling] EXCEPT ![off + 1] = blk]
<1>3. rxd' = [rxd EXCEPT ![Filling] = new]
  BY DEF DmaWord
<1>4. new \in [Word -> 0..MaxBlk]
  BY Buffers, <1>w, MaxBlkAssumption DEF TypeOK
<1>5. \A j \in 1..(off + 1) : new[j] = blk
  <2>1. rxd[Filling] \in [Word -> 0..MaxBlk]
        /\ \A j \in 1..off : rxd[Filling][j] = blk
    BY <1>1, Buffers DEF TypeOK, MemoryInv
  <2>2. off + 1 \in Word /\ \A j \in 1..(off + 1) : j \in Word
        /\ (j # off + 1 => j \in 1..off)
    BY <1>w, NSampAssumption DEF TypeOK, Word
  <2> QED BY <2>1, <2>2
<1> HIDE DEF new
<1>6. /\ rxd' \in [Buf -> [Word -> 0..MaxBlk]]
      /\ rxd'[Complete] = rxd[Complete] /\ rxd'[Filling] = new
  BY <1>3, <1>4, Buffers DEF TypeOK
<1>7. TypeOK'
  BY <1>1, <1>6 DEF DmaWord, TypeOK, loopVars, dataVars, histVars
<1>8. MemoryInv'
  BY <1>1, <1>5, <1>6 DEF DmaWord, TypeOK, MemoryInv
<1>9. FlagInv' /\ CopyInv' /\ CountInv'
  BY <1>1 DEF DmaWord, FlagInv, CopyInv, CountInv, Counted, loopVars,
     dataVars, histVars
<1>10. ClearInv' /\ EmitInv' /\ DropInv' /\ OrderInv' /\ GapInv'
  BY <1>1 DEF DmaWord, ClearInv, EmitInv, DropInv, OrderInv, NewerBlock,
     GapInv, NoSilentLoss, loopVars, dataVars, histVars
<1> QED BY <1>7, <1>8, <1>9, <1>10

(* The DMA sets a flag and goes to the other buffer: the filled one        *)
(* becomes the complete one, and lap counts it.                            *)
LEMMA DmaStateStep ==
  ASSUME IInv, DmaState PROVE IInv'
<1> USE DEF IInv
<1>1. /\ Filling' = Complete /\ Complete' = Filling
      /\ Filled = NSamp /\ Filled' = 0 /\ off = 0
      /\ cb' \in {0, 3} /\ blk' = blk + 1 /\ blk' \in 1..MaxBlk
  <2>1. cb' \in {0, 3} /\ Filling' = Complete /\ Complete' = Filling
    BY DEF DmaState, TypeOK, Filling, Complete, NextCb, Other
  <2>2. off = 0 /\ off' = 0 /\ Filled = NSamp
    BY DEF DmaState, TypeOK, MemoryInv, Filled
  <2>3. blk' = blk + 1 /\ blk' \in 1..MaxBlk
    BY MaxBlkAssumption DEF DmaState, TypeOK
  <2> QED BY <2>1, <2>2, <2>3 DEF Filled
<1>2. /\ states' \in [Buf -> {0, 1}] /\ states'[Filling] = 1
      /\ states'[Complete] = states[Complete]
  BY Buffers DEF DmaState, TypeOK
<1>3. rxd[Filling] = Block(blk) /\ usecs[Filling] = blk
  <2>1. rxd[Filling] \in [Word -> 0..MaxBlk]
        /\ \A j \in Word : rxd[Filling][j] = blk
    BY <1>1, Buffers DEF TypeOK, MemoryInv, Word
  <2>2. rxd[Filling] = Block(blk)
    BY <2>1, BlockPointwise
  <2> QED BY <1>1, <2>2 DEF DmaState, MemoryInv
<1>4. TypeOK'
  BY <1>1, <1>2 DEF DmaState, TypeOK, loopVars, dataVars
<1>5. MemoryInv'
  BY <1>1, <1>3, Buffers DEF DmaState, TypeOK, MemoryInv
<1>6. FlagInv'
  BY <1>1, <1>2, Buffers DEF DmaState, TypeOK, FlagInv, loopVars
<1>7. CopyInv'
  BY <1>1, <1>2, Buffers
  DEF DmaState, TypeOK, CopyInv, FlagInv, loopVars, dataVars
<1>8. vals' = vals /\ vals.usec \in 0..MaxBlk
  BY DEF DmaState, TypeOK, BlockRec, dataVars
<1>9. ClearInv'
  BY <1>1, <1>2, Buffers
  DEF DmaState, TypeOK, ClearInv, OrderInv, loopVars, dataVars
<1>10. EmitInv'
  BY <1>1, <1>2, Buffers DEF DmaState, TypeOK, EmitInv, loopVars, dataVars
<1>11. DropInv'
  BY <1>1, <1>2, <1>8, Buffers DEF DmaState, TypeOK, DropInv, loopVars, Buf
<1>12. OrderInv'
  BY <1>1, <1>2, <1>8, Buffers
  DEF DmaState, TypeOK, OrderInv, NewerBlock, FlagInv, loopVars, dataVars
<1>13. GapInv'
  BY <1>1, <1>2, <1>8, Buffers DEF DmaState, TypeOK, GapInv, NoSilentLoss,
     OrderInv, FlagInv, loopVars, dataVars
<1>14. CountInv'
  <2> DEFINE k == states[0] + states[1] - Counted
  <2>1. k \in Int /\ k' \in Int /\ k' <= k + 1
    BY <1>2, Buffers DEF TypeOK, Counted, DmaState, loopVars, Buf
  <2>2. samp_total + NSamp * k <= NSamp * (blk - 1)
    BY DEF CountInv
  <2>3. samp_total' = samp_total /\ samp_total \in Int /\ blk \in Int
        /\ blk' - 1 = blk
    BY <1>1 DEF DmaState, dataVars, TypeOK
  <2> HIDE DEF k
  <2>4. samp_total + NSamp * k' <= NSamp * blk
    BY <2>1, <2>2, <2>3, CountUp
  <2>5. samp_total' + NSamp * k' <= NSamp * (blk' - 1)
    BY <2>3, <2>4
  <2> QED BY <2>5 DEF CountInv, k
<1> QED BY <1>4, <1>5, <1>6, <1>7, <1>9, <1>10, <1>11, <1>12, <1>13, <1>14

-----------------------------------------------------------------------------
(* The steps of the program.                                               *)

(* The loops of the fetch functions end in a further test or a return.     *)
LEMMA EndOfBufferNext ==
  ASSUME TypeOK, NEW d, EndOfBuffer(d)
  PROVE  pc' \in {"ret", "test"} /\ n' \in Buf
  BY DEF TypeOK, EndOfBuffer, EndOfScan, Buf

(* Where the program goes at the end of a look is one of the places IInv   *)
(* knows.                                                                  *)
LEMMA EndOfScanNext ==
  ASSUME TypeOK, NEW d, EndOfScan(d)
  PROVE  pc' \in {"ret", "test"} /\ n' \in Buf
  BY DEF TypeOK, EndOfScan, Buf

(* What the DMA is doing depends on its own registers only.                *)
LEMMA DmaSame ==
  ASSUME UNCHANGED <<cb, off, blk>>
  PROVE  Filling' = Filling /\ Complete' = Complete /\ Filled' = Filled
  BY DEF Filling, Complete, Filled, Other

(* A call of a fetch function touches no shared memory.                    *)
LEMMA EnterStep ==
  ASSUME IInv, Enter PROVE IInv'
<1> USE DEF IInv
<1>1. pc = "call" /\ pc' = "test" /\ n' = 0 /\ done' = FALSE
      /\ UNCHANGED <<dmaVars, i, dataVars, histVars>>
  BY DEF Enter
<1> USE DmaSame DEF dmaVars, dataVars, histVars
<1>2. TypeOK' /\ MemoryInv'
  BY <1>1 DEF TypeOK, MemoryInv, Buf
<1>3. FlagInv' /\ CopyInv' /\ ClearInv' /\ EmitInv' /\ DropInv' /\ CountInv'
  BY <1>1 DEF FlagInv, CopyInv, ClearInv, EmitInv, DropInv, CountInv, Counted
<1>4. OrderInv' /\ GapInv'
  BY <1>1 DEF OrderInv, NewerBlock, GapInv, NoSilentLoss
<1> QED BY <1>2, <1>3, <1>4

(* Nor does the return from one.                                           *)
LEMMA ReturnStep ==
  ASSUME IInv, Return PROVE IInv'
<1> USE DEF IInv
<1>1. pc = "ret" /\ pc' = "call" /\ UNCHANGED <<dmaVars, n, i, done,
                                                dataVars, histVars>>
  BY DEF Return
<1> USE DmaSame DEF dmaVars, dataVars, histVars
<1>2. TypeOK' /\ MemoryInv'
  BY <1>1 DEF TypeOK, MemoryInv, Buf
<1>3. FlagInv' /\ CopyInv' /\ ClearInv' /\ EmitInv' /\ DropInv' /\ CountInv'
  BY <1>1 DEF FlagInv, CopyInv, ClearInv, EmitInv, DropInv, CountInv, Counted
<1>4. OrderInv' /\ GapInv'
  BY <1>1 DEF OrderInv, NewerBlock, GapInv, NoSilentLoss
<1> QED BY <1>2, <1>3, <1>4

(* A flag that is seen set belongs to a complete block not counted before. *)
LEMMA TestStep ==
  ASSUME IInv, Test PROVE IInv'
<1> USE DEF IInv
<1>1. pc = "test" /\ UNCHANGED <<dmaVars, rx_buff, usec, vals, overrun_total,
                                 histVars>>
  BY DEF Test
<1> USE DmaSame DEF dmaVars, histVars
<1>2. CASE /\ EndOfBuffer(done) /\ UNCHANGED <<i, done, samp_total>>
  <2>1. pc' \in {"ret", "test"} /\ n' \in Buf
    BY <1>2, EndOfBufferNext
  <2>2. TypeOK' /\ MemoryInv'
    BY <1>1, <1>2, <2>1 DEF TypeOK, MemoryInv
  <2>3. FlagInv' /\ CopyInv' /\ ClearInv' /\ EmitInv' /\ DropInv' /\ CountInv'
    BY <1>1, <1>2, <2>1
    DEF FlagInv, CopyInv, ClearInv, EmitInv, DropInv, CountInv, Counted
  <2>4. OrderInv' /\ GapInv'
    BY <1>1, <1>2, <2>1 DEF OrderInv, NewerBlock, GapInv, NoSilentLoss
  <2> QED BY <2>2, <2>3, <2>4
<1>3. CASE /\ states[n] = 1 /\ pc' = "copy" /\ i' = 0 /\ n' = n
           /\ done' = (done \/ Fetch = "packet")
           /\ samp_total' = samp_total + NSamp
  <2>1. TypeOK' /\ MemoryInv'
    BY <1>1, <1>3, NSampAssumption DEF TypeOK, MemoryInv
  <2>2. FlagInv' /\ CopyInv' /\ ClearInv' /\ EmitInv' /\ DropInv'
    BY <1>1, <1>3, NSampAssumption
    DEF FlagInv, CopyInv, ClearInv, EmitInv, DropInv
  <2>3. OrderInv' /\ GapInv'
    BY <1>1, <1>3 DEF OrderInv, NewerBlock, GapInv, NoSilentLoss
  <2>4. CountInv'
    <3> DEFINE k == states[0] + states[1] - Counted
    <3>1. k \in Int /\ k' = k - 1
      BY <1>1, <1>3 DEF TypeOK, Counted, Buf
    <3>2. samp_total + NSamp * k <= NSamp * (blk - 1)
      BY DEF CountInv
    <3> HIDE DEF k
    <3>3. NSamp * k = NSamp * (k - 1) + NSamp
      BY <3>1, Distribute
    <3>4. NSamp * (k - 1) \in Int /\ NSamp * (blk - 1) \in Int
      BY <3>1, NSampAssumption DEF TypeOK
    <3>5. samp_total' + NSamp * k' <= NSamp * (blk' - 1)
      BY <1>1, <1>3, <3>1, <3>2, <3>3, <3>4, NSampAssumption DEF TypeOK
    <3> QED BY <3>5 DEF CountInv, k
  <2> QED BY <2>1, <2>2, <2>3, <2>4
<1> QED BY <1>2, <1>3 DEF Test

(* While the other flag is clear, a copied word is one of the complete     *)
(* block.                                                                  *)
LEMMA CopyWordStep ==
  ASSUME IInv, CopyWord PROVE IInv'
<1> USE DEF IInv
<1>1. /\ pc = "copy" /\ pc' = (IF i + 1 = NSamp THEN "stamp" ELSE "copy")
      /\ i' = i + 1
      /\ UNCHANGED <<dmaVars, n, done, usec, vals, samp_total, overrun_total,
                     histVars>>
  BY DEF CopyWord
<1>2. i + 1 \in Word /\ i' \in 0..NSamp
  BY <1>1, NSampAssumption DEF TypeOK, CopyInv, Word
<1>3. /\ rx_buff' \in [Word -> 0..MaxBlk]
      /\ rx_buff'[i + 1] = rxd[n][i + 1]
      /\ \A j \in Word \ {i + 1} : rx_buff'[j] = rx_buff[j]
  BY <1>2 DEF CopyWord, TypeOK
<1> USE DmaSame DEF dmaVars, histVars
<1>4. TypeOK' /\ MemoryInv'
  BY <1>1, <1>2, <1>3 DEF TypeOK, MemoryInv
<1>5. FlagInv' /\ ClearInv' /\ EmitInv' /\ DropInv' /\ CountInv'
  BY <1>1 DEF FlagInv, ClearInv, EmitInv, DropInv, CountInv, Counted
<1>6. CopyInv'
  <2>1. /\ states[n] = 1 /\ (pc' = "copy" => i' < NSamp)
        /\ (pc' # "copy" => i' = NSamp)
    BY <1>1, <1>2, NSampAssumption DEF CopyInv, Word, TypeOK
  <2>2. ASSUME ~stalled, states[Other(n)] = 0
        PROVE \A j \in 1..i' : rx_buff'[j] = blk - 1
    <3>1. n = Complete
      BY <1>1, <2>1, <2>2 DEF FlagInv, TypeOK
    <3>2. rx_buff'[i + 1] = blk - 1
      BY <1>2, <1>3, <3>1 DEF MemoryInv, Block
    <3>3. \A j \in 1..i : rx_buff[j] = blk - 1
      BY <1>1, <2>2 DEF CopyInv
    <3>4. \A j \in 1..i' : j \in Word /\ (j = i + 1 \/ j \in 1..i)
      BY <1>1, <1>2, NSampAssumption DEF TypeOK, Word
    <3>5. \A j \in 1..i : j # i + 1
      BY DEF TypeOK
    <3> QED BY <1>3, <3>2, <3>3, <3>4, <3>5
  <2> QED BY <1>1, <2>1, <2>2 DEF CopyInv, Other
<1>7. OrderInv' /\ GapInv'
  BY <1>1 DEF OrderInv, NewerBlock, GapInv, NoSilentLoss
<1> QED BY <1>4, <1>5, <1>6, <1>7

(* The stamp read while the other flag is clear is that of the complete    *)
(* block.                                                                  *)
LEMMA StampStep ==
  ASSUME IInv, Stamp PROVE IInv'
<1> USE DEF IInv
<1>1. /\ pc = "stamp" /\ pc' = "check" /\ usec' = usecs[n]
      /\ UNCHANGED <<dmaVars, n, i, done, rx_buff, vals, samp_total,
                     overrun_total, histVars>>
  BY DEF Stamp
<1> USE DmaSame DEF dmaVars, histVars
<1>2. n \in Buf /\ usec' \in 0..MaxBlk /\ usec' <= blk
      /\ (usec' = blk => n = Filling)
  BY <1>1, Buffers DEF TypeOK, MemoryInv
<1>3. TypeOK' /\ MemoryInv'
  BY <1>1, <1>2 DEF TypeOK, MemoryInv
<1>4. FlagInv' /\ ClearInv' /\ EmitInv' /\ DropInv' /\ CountInv'
  BY <1>1 DEF FlagInv, ClearInv, EmitInv, DropInv, CountInv, Counted
<1>5. CopyInv'
  BY <1>1, <1>2 DEF CopyInv, FlagInv, MemoryInv, Other
<1>6. OrderInv' /\ GapInv'
  BY <1>1, <1>2 DEF OrderInv, NewerBlock, GapInv, NoSilentLoss
<1> QED BY <1>3, <1>4, <1>5, <1>6

(* A clear other flag makes the copy whole and newest; a set one leads to  *)
(* the overrun branch.                                                     *)
LEMMA CheckStep ==
  ASSUME IInv, Check PROVE IInv'
<1> USE DEF IInv
<1>1. /\ pc = "check"
      /\ pc' = (IF states[Other(n)] = 1 THEN "drop1" ELSE "clear")
      /\ lap' = 0 /\ UNCHANGED <<dmaVars, n, i, done, dataVars, stalled, gap>>
  BY DEF Check
<1> USE DmaSame DEF dmaVars, dataVars
<1>2. n \in Buf /\ Other(n) \in Buf /\ states[n] = 1
      /\ states[Other(n)] \in {0, 1}
  BY <1>1, Buffers DEF TypeOK, CopyInv
<1>3. TypeOK' /\ MemoryInv'
  BY <1>1 DEF TypeOK, MemoryInv
<1>4. FlagInv' /\ CopyInv' /\ EmitInv' /\ CountInv'
  BY <1>1 DEF FlagInv, CopyInv, EmitInv, CountInv, Counted
<1>5. DropInv'
  BY <1>1, <1>2 DEF DropInv, Buf, Other
<1>6. ASSUME ~stalled, pc' = "clear"
      PROVE  n = Complete /\ usec = blk - 1 /\ rx_buff = Block(usec)
      /\ states[Other(n)] = 0
  <2>1. states[Other(n)] = 0
    BY <1>1, <1>2, <1>6
  <2>2. n = Complete
    BY <1>1, <1>2, <1>6, <2>1 DEF FlagInv
  <2>3. usec = blk - 1 /\ \A j \in Word : rx_buff[j] = blk - 1
    BY <1>1, <1>6, <2>1 DEF CopyInv, Word
  <2>4. rx_buff = Block(blk - 1)
    BY <2>3, BlockPointwise DEF TypeOK
  <2> QED BY <2>1, <2>2, <2>3, <2>4
<1>7. ClearInv'
  BY <1>1, <1>2, <1>6 DEF ClearInv, Other
<1>8. vals.usec \in 0..MaxBlk
  BY DEF TypeOK, BlockRec
<1>9. OrderInv'
  BY <1>1, <1>2, <1>6, <1>8, Buffers DEF OrderInv, NewerBlock, TypeOK
<1>10. GapInv'
  BY <1>1, <1>2, <1>6, <1>8, Buffers DEF GapInv, NoSilentLoss, TypeOK
<1> QED BY <1>3, <1>4, <1>5, <1>7, <1>9, <1>10

(* The first store of the overrun branch leaves at most the flag of buffer *)
(* 0 standing.                                                             *)
LEMMA DropSecondStep ==
  ASSUME IInv, DropSecond PROVE IInv'
<1> USE DEF IInv
<1>1. /\ pc = "drop1" /\ pc' = "drop0" /\ lap' = 0
      /\ states' = [states EXCEPT ![1] = 0]
      /\ UNCHANGED <<cb, off, blk, usecs, rxd, n, i, done, dataVars, stalled,
                     gap>>
  BY DEF DropSecond
<1>2. states' \in [Buf -> {0, 1}] /\ states'[1] = 0 /\ states'[0] = 1
      /\ states[0] = 1 /\ states[1] = 1
  BY <1>1 DEF TypeOK, DropInv, Buf
<1> USE DmaSame DEF dataVars
<1>3. TypeOK' /\ MemoryInv'
  BY <1>1, <1>2 DEF TypeOK, MemoryInv
<1>4. FlagInv' /\ CopyInv' /\ ClearInv' /\ EmitInv' /\ GapInv'
  BY <1>1 DEF FlagInv, CopyInv, ClearInv, EmitInv, GapInv, NoSilentLoss
<1>5. vals.usec \in 0..MaxBlk /\ vals.usec < blk
  BY <1>2, Buffers DEF OrderInv, TypeOK, BlockRec, Buf
<1>6. DropInv'
  BY <1>1, <1>2, <1>5 DEF DropInv
<1>7. OrderInv'
  BY <1>1, <1>5 DEF OrderInv, NewerBlock, TypeOK
<1>8. CountInv'
  BY <1>1, <1>2 DEF CountInv, Counted
<1> QED BY <1>3, <1>4, <1>6, <1>7, <1>8

(* The second store ends the overrun: no flag older than the last two      *)
(* blocks stands.                                                          *)
LEMMA DropFirstStep ==
  ASSUME IInv, DropFirst PROVE IInv'
<1> USE DEF IInv
<1>1. /\ pc = "drop0" /\ stalled' = (lap = 2) /\ gap' = TRUE
      /\ states' = [states EXCEPT ![0] = 0]
      /\ overrun_total' = overrun_total + 1
      /\ EndOfScan(done)
      /\ UNCHANGED <<cb, off, blk, usecs, rxd, i, done, rx_buff, usec, vals,
                     samp_total, lap>>
  BY DEF DropFirst
<1>2. pc' \in {"ret", "test"} /\ n' \in Buf
  BY <1>1, EndOfScanNext
<1>3. states' \in [Buf -> {0, 1}] /\ states'[0] = 0 /\ states'[1] = states[1]
  BY <1>1 DEF TypeOK, Buf
<1>4. vals.usec \in 0..MaxBlk /\ states[0] \in {0, 1} /\ states[1] \in {0, 1}
  BY DEF TypeOK, BlockRec, Buf
<1> USE DmaSame
<1>5. TypeOK' /\ MemoryInv'
  BY <1>1, <1>2, <1>3 DEF TypeOK, MemoryInv
<1>6. CopyInv' /\ ClearInv' /\ EmitInv' /\ DropInv' /\ GapInv'
  BY <1>1, <1>2 DEF CopyInv, ClearInv, EmitInv, DropInv, GapInv, NoSilentLoss
<1>7. /\ lap = 2 \/ (lap = 0 /\ states[1] = 0 /\ vals.usec < blk)
         \/ (lap = 1 /\ vals.usec < blk - 1 /\ (states[1] = 1 => Filling = 0))
  BY <1>1 DEF DropInv, TypeOK
<1>8. FlagInv'
  BY <1>1, <1>3, <1>7, Buffers DEF FlagInv, Buf
<1>9. OrderInv'
  <2>1. vals.usec = blk => states'[Filling] = 0
    BY <1>3, Buffers DEF OrderInv, Buf
  <2>2. ASSUME ~stalled'
        PROVE  vals.usec < blk
        /\ (states'[Complete] = 1 => vals.usec < blk - 1)
    <3>1. lap # 2
      BY <1>1, <2>2, Zenon
    <3>2. CASE lap = 0
      BY <1>3, <1>7, <3>2, Buffers DEF Buf
    <3>3. CASE lap = 1
      BY <1>3, <1>4, <1>7, <3>3, Buffers DEF TypeOK, Buf
    <3> QED BY <1>7, <3>1, <3>2, <3>3
  <2> QED BY <1>1, <1>2, <2>1, <2>2 DEF OrderInv, NewerBlock
<1>10. CountInv'
  <2>1. Counted = 0 /\ Counted' = 0
    BY <1>1, <1>2 DEF Counted
  <2>2. CASE states[0] = 0
    BY <1>1, <1>3, <2>1, <2>2 DEF CountInv
  <2>3. CASE states[0] = 1
    <3>1. NSamp * (states[1] + 1) = NSamp * states[1] + NSamp
      BY <1>4, Distribute
    <3>2. samp_total + NSamp * (states[1] + 1) <= NSamp * (blk - 1)
      <4>1. states[0] + states[1] - Counted = states[1] + 1
        BY <1>4, <2>1, <2>3
      <4> QED BY <4>1 DEF CountInv
    <3>3. samp_total + NSamp * states[1] <= NSamp * (blk - 1)
      <4>1. NSamp * states[1] \in Int /\ NSamp * (blk - 1) \in Int
        BY <1>4, NSampAssumption DEF TypeOK
      <4> QED BY <3>1, <3>2, <4>1, NSampAssumption DEF TypeOK
    <3>4. states'[0] + states'[1] - Counted' = states[1]
      BY <1>3, <1>4, <2>1
    <3> QED BY <1>1, <3>3, <3>4 DEF CountInv
  <2> QED BY <1>4, <2>2, <2>3
<1> QED BY <1>5, <1>6, <1>8, <1>9, <1>10

(* The store that answers the check clears the flag of the block copied,   *)
(* unless the program was stalled.                                         *)
LEMMA ClearStep ==
  ASSUME IInv, Clear PROVE IInv'
<1> USE DEF IInv
<1>1. /\ pc = "clear" /\ pc' = "emit" /\ stalled' = (stalled \/ lap = 2)
      /\ states' = [states EXCEPT ![n] = 0]
      /\ UNCHANGED <<cb, off, blk, usecs, rxd, n, i, done, dataVars, lap, gap>>
  BY DEF Clear
<1>2. /\ n \in Buf /\ states[n] = 1 /\ states' \in [Buf -> {0, 1}]
      /\ states'[n] = 0 /\ states'[Other(n)] = states[Other(n)]
  BY <1>1, Buffers DEF TypeOK, ClearInv
<1>3. vals.usec \in 0..MaxBlk
  BY DEF TypeOK, BlockRec
<1> USE DmaSame DEF dataVars
<1>4. TypeOK' /\ MemoryInv'
  BY <1>1, <1>2 DEF TypeOK, MemoryInv
<1>5. CopyInv' /\ ClearInv' /\ DropInv'
  BY <1>1 DEF CopyInv, ClearInv, DropInv
<1>6. ASSUME ~stalled' PROVE ~stalled /\ lap \in {0, 1}
  <2>1. lap \in {0, 1, 2}
    BY DEF TypeOK
  <2>2. ~stalled /\ lap # 2
    BY <1>1, <1>6, Zenon
  <2> QED BY <2>1, <2>2
<1>7. FlagInv'
  BY <1>1, <1>2, <1>6, Buffers DEF FlagInv, ClearInv
<1>8. EmitInv'
  <2> SUFFICES ASSUME ~stalled' PROVE EmitInv'
    BY DEF EmitInv
  <2>1. CASE lap = 0
    <3>1. states'[Filling] = 0 /\ states'[Complete] = 0 /\ usec = blk - 1
      BY <1>1, <1>2, <1>6, <2>1, Buffers DEF ClearInv
    <3> QED BY <1>1, <1>6, <3>1 DEF EmitInv, ClearInv, TypeOK
  <2>2. CASE lap = 1
    <3>1. states'[Filling] = 0 /\ states'[Complete] = 1 /\ usec = blk - 2
      BY <1>1, <1>2, <1>6, <2>2, Buffers DEF ClearInv
    <3> QED BY <1>1, <1>6, <3>1 DEF EmitInv, ClearInv, TypeOK
  <2> QED BY <1>6, <2>1, <2>2
<1>9. OrderInv'
  BY <1>1, <1>2, <1>3, <1>6, Buffers DEF OrderInv, NewerBlock, ClearInv, TypeOK
<1>10. GapInv'
  BY <1>1, <1>6 DEF GapInv, NoSilentLoss
<1>11. CountInv'
  <2>1. Counted = 1 /\ Counted' = 0
    BY <1>1 DEF Counted
  <2>2. states[0] + states[1] - Counted = states'[0] + states'[1] - Counted'
    BY <1>1, <1>2, <2>1 DEF TypeOK, Buf
  <2> QED BY <1>1, <2>2 DEF CountInv
<1> QED BY <1>4, <1>5, <1>7, <1>8, <1>9, <1>10, <1>11

(* The block formatted is newer than the last one, and a gap between them  *)
(* is on record.                                                           *)
LEMMA EmitStep ==
  ASSUME IInv, NEW keep \in BOOLEAN, Emit(keep) PROVE IInv'
<1> USE DEF IInv
<1>1. /\ pc = "emit" /\ gap' = ~keep /\ EndOfBuffer(done')
      /\ vals' = IF keep THEN [words |-> rx_buff, usec |-> usec] ELSE vals
      /\ done' = (done \/ keep)
      /\ UNCHANGED <<dmaVars, i, rx_buff, usec, samp_total, overrun_total,
                     lap, stalled>>
  BY DEF Emit
<1>2. pc' \in {"ret", "test"} /\ n' \in Buf
  BY <1>1, EndOfBufferNext
<1>3. /\ vals' \in BlockRec /\ (keep => vals'.usec = usec)
      /\ (~keep => vals' = vals)
      /\ vals.usec \in 0..MaxBlk
  BY <1>1 DEF TypeOK, BlockRec
<1> USE DmaSame DEF dmaVars
<1>4. TypeOK' /\ MemoryInv'
  BY <1>1, <1>2, <1>3 DEF TypeOK, MemoryInv
<1>5. FlagInv' /\ CopyInv' /\ ClearInv' /\ EmitInv' /\ DropInv' /\ CountInv'
  BY <1>1, <1>2
  DEF FlagInv, CopyInv, ClearInv, EmitInv, DropInv, CountInv, Counted
<1>6. OrderInv'
  BY <1>1, <1>2, <1>3, Buffers DEF OrderInv, NewerBlock, EmitInv, TypeOK
<1>7. GapInv'
  BY <1>1, <1>2, <1>3, Buffers DEF GapInv, NoSilentLoss, EmitInv
<1> QED BY <1>4, <1>5, <1>6, <1>7

-----------------------------------------------------------------------------
(* The theorems.                                                           *)

(* No access of the DMA or of the program to the shared memory breaks the  *)
(* invariant.                                                              *)
THEOREM IInvNext == IInv /\ [Next]_vars => IInv'
<1> SUFFICES ASSUME IInv, [Next]_vars PROVE IInv'
  OBVIOUS
<1>1. CASE Dma
  BY <1>1, DmaUsecStep, DmaWordStep, DmaStateStep DEF Dma
<1>2. CASE Cpu
  <2>1. CASE FetchStep
    BY <2>1, TestStep, CopyWordStep, StampStep, CheckStep, DropSecondStep,
       DropFirstStep, ClearStep DEF FetchStep
  <2> QED BY <1>2, <2>1, EnterStep, EmitStep, ReturnStep DEF Cpu
<1>3. CASE UNCHANGED vars
  <2> USE <1>3, DmaSame DEF IInv, vars, dmaVars, loopVars, dataVars, histVars
  <2>1. TypeOK' /\ MemoryInv' /\ FlagInv' /\ CopyInv'
    BY DEF TypeOK, MemoryInv, FlagInv, CopyInv
  <2>2. ClearInv' /\ EmitInv' /\ DropInv' /\ CountInv'
    BY DEF ClearInv, EmitInv, DropInv, CountInv, Counted
  <2>3. OrderInv' /\ GapInv'
    BY DEF OrderInv, NewerBlock, GapInv, NoSilentLoss
  <2> QED BY <2>1, <2>2, <2>3
<1> QED BY <1>1, <1>2, <1>3 DEF Next

(* The inductive invariant holds in every reachable state.                 *)
THEOREM Invariance == Spec => []IInv
  BY InitIInv, IInvNext, PTL DEF Spec

(* No step of the DMA or the program leaves the types: no word is written  *)
(* outside a buffer, and memcpy stops at the block's end.                  *)
THEOREM TypeCorrect == Spec => []TypeOK
<1>1. IInv => TypeOK
  BY DEF IInv
<1> QED BY Invariance, <1>1, PTL

(* adc_stream_csv and adc_stream_packet never format words of two          *)
(* different blocks, or a foreign time stamp, unless the program was       *)
(* stalled for two whole blocks in a decision window since the last        *)
(* overrun.                                                                *)
THEOREM BlockIsWhole == Spec => []WholeBlock
<1>1. IInv => WholeBlock
  BY DEF IInv, ClearInv, EmitInv, WholeBlock
<1> QED BY Invariance, <1>1, PTL

(* No block is formatted twice or after a newer one (same proviso).        *)
THEOREM BlocksInOrder == Spec => []NewerBlock
<1>1. IInv => NewerBlock
  BY DEF IInv, OrderInv
<1> QED BY Invariance, <1>1, PTL

(* A block is skipped only after an overrun was counted or a block was     *)
(* discarded, with the same proviso.                                       *)
THEOREM LossIsCounted == Spec => []NoSilentLoss
<1>1. IInv => NoSilentLoss
  BY DEF IInv, GapInv
<1> QED BY Invariance, <1>1, PTL

(* The block that passes the check is the newest complete one.             *)
THEOREM NewestIsTaken == Spec => NewestBlock
<1>1. IInv /\ [Next]_vars =>
        [pc = "check" /\ pc' = "clear" /\ ~stalled => usec = blk - 1]_vars
  <2> SUFFICES ASSUME IInv, [Next]_vars, pc = "check", pc' = "clear", ~stalled
               PROVE  usec = blk - 1
    OBVIOUS
  <2>1. states[Other(n)] # 1
    BY DEF Next, vars, Dma, Cpu, FetchStep, loopVars, DmaUsec, DmaWord,
       DmaState, Enter, Test, CopyWord, Stamp, Check, DropSecond, DropFirst,
       Clear, Emit, Return
  <2>2. states[Other(n)] = 0
    BY <2>1, Buffers DEF IInv, TypeOK
  <2> QED BY <2>2 DEF IInv, CopyInv
<1> QED BY Invariance, <1>1, PTL DEF Spec, NewestBlock

(* Every flag was counted once at most.                                    *)
LEMMA CountBounds ==
  ASSUME IInv PROVE SampTotalBound
<1> DEFINE k == states[0] + states[1] - Counted
<1>1. k \in Nat
  BY Buffers DEF IInv, TypeOK, CopyInv, ClearInv, DropInv, Counted, Buf
<1>2. samp_total + NSamp * k <= NSamp * (blk - 1)
  BY DEF IInv, CountInv
<1> HIDE DEF k
<1>3. NSamp * k \in Nat /\ NSamp * (blk - 1) \in Int /\ samp_total \in Nat
  BY <1>1, NSampAssumption DEF IInv, TypeOK
<1> QED BY <1>2, <1>3 DEF SampTotalBound

(* The total printed by terminate never exceeds the samples received.      *)
THEOREM SampTotalBounded == Spec => []SampTotalBound
<1>1. IInv => SampTotalBound
  BY CountBounds
<1> QED BY Invariance, <1>1, PTL

-----------------------------------------------------------------------------
(* Blocks formatted earlier, for the loops around the fetch functions.     *)

(* A block that is older than whatever is still to be taken stays so, also *)
(* when the flags are cleared and the DMA goes on.                         *)
LEMMA OlderStep ==
  ASSUME NEW w \in Nat, IInv, [Next]_vars, OlderThan(w)
  PROVE  OlderThan(w)'
<1> USE Buffers DEF IInv
<1>1. CASE DmaUsec \/ DmaWord
  <2>1. /\ Filling' = Filling /\ Complete' = Complete
        /\ UNCHANGED <<blk, states, pc, usec, lap, stalled>>
    BY <1>1 DEF DmaUsec, DmaWord, NextCb, Filling, Complete, TypeOK,
       loopVars, dataVars, histVars
  <2> QED BY <2>1 DEF OlderThan
<1>2. CASE DmaState
  <2>1. /\ Filling' = Complete /\ Complete' = Filling /\ blk' = blk + 1
        /\ UNCHANGED <<pc, usec, stalled>>
    BY <1>2 DEF DmaState, NextCb, Filling, Complete, Other, TypeOK, loopVars,
       dataVars
  <2>2. /\ lap' = IF lap < 2 THEN lap + 1 ELSE lap
        /\ states'[Filling] = 1 /\ states'[Complete] = states[Complete]
    BY <1>2 DEF DmaState, TypeOK
  <2> QED BY <2>1, <2>2 DEF OlderThan, TypeOK
<1> USE DmaSame
<1>3. CASE Enter \/ CopyWord \/ Stamp \/ Return
  <2>1. /\ pc' \notin {"clear", "emit", "drop0"} /\ pc # "drop0"
        /\ UNCHANGED <<cb, off, blk, states, stalled>>
    BY <1>3 DEF Enter, CopyWord, Stamp, Return, dmaVars, histVars
  <2> QED BY <2>1 DEF OlderThan
<1>4. CASE Test
  <2>1. /\ pc' \in {"ret", "test", "copy"} /\ pc = "test"
        /\ UNCHANGED <<cb, off, blk, states, stalled>>
    BY <1>4, EndOfBufferNext DEF Test, dmaVars, histVars
  <2> QED BY <2>1 DEF OlderThan
<1>5. CASE Check
  <2>1. /\ pc' \in {"clear", "drop1"} /\ pc = "check" /\ states[n] = 1
        /\ (pc' = "clear" => states[Other(n)] # 1) /\ n \in Buf
        /\ UNCHANGED <<cb, off, blk, states, stalled, usec>>
    BY <1>5 DEF Check, CopyInv, TypeOK, dmaVars, dataVars
  <2>2. ~stalled /\ pc' = "clear" => n = Complete /\ usec = blk - 1
    BY <2>1 DEF FlagInv, CopyInv, TypeOK
  <2> QED BY <2>1, <2>2 DEF OlderThan
<1>6. CASE DropSecond
  <2>1. /\ pc = "drop1" /\ pc' = "drop0" /\ lap' = 0
        /\ states' = [states EXCEPT ![1] = 0]
        /\ UNCHANGED <<cb, off, blk, stalled, usec>>
    BY <1>6 DEF DropSecond, dataVars
  <2>2. w < blk
    BY <2>1 DEF OlderThan, DropInv, TypeOK, Buf
  <2> QED BY <2>1, <2>2 DEF OlderThan, TypeOK
<1>7. CASE DropFirst
  <2>1. /\ pc = "drop0" /\ stalled' = (lap = 2)
        /\ states' = [states EXCEPT ![0] = 0]
        /\ UNCHANGED <<cb, off, blk, usec>>
    BY <1>7 DEF DropFirst
  <2>2. pc' \in {"ret", "test"}
    BY <1>7, EndOfScanNext DEF DropFirst
  <2>3. states'[0] = 0 /\ states'[1] = states[1]
    BY <2>1 DEF TypeOK, Buf
  <2>4. w <= blk /\ (w = blk => states'[Filling] = 0)
    BY <2>3 DEF OlderThan, TypeOK, Buf
  <2>5. ASSUME ~stalled'
        PROVE  w < blk /\ (states'[Complete] = 1 => w < blk - 1)
    <3>1. lap = 0 \/ lap = 1
      <4>1. lap # 2
        BY <2>1, <2>5, Zenon
      <4> QED BY <4>1 DEF TypeOK
    <3>2. (lap = 0 => w < blk) /\ (lap = 1 => w < blk - 1)
      BY <2>1 DEF OlderThan
    <3>3. lap = 0 => states'[Complete] = 0
      BY <2>1, <2>3 DEF DropInv, Buf
    <3> QED BY <3>1, <3>2, <3>3 DEF TypeOK
  <2> QED BY <2>1, <2>2, <2>4, <2>5 DEF OlderThan
<1>8. CASE Clear
  <2>1. /\ pc = "clear" /\ pc' = "emit" /\ (stalled => stalled')
        /\ states' = [states EXCEPT ![n] = 0]
        /\ UNCHANGED <<cb, off, blk, usec>>
    BY <1>8 DEF Clear, dataVars
  <2>2. \A b \in Buf : states'[b] = 1 => states[b] = 1
    BY <2>1 DEF TypeOK
  <2>3. \A b \in Buf : states[b] = 0 => states'[b] = 0
    BY <2>1 DEF TypeOK
  <2> QED BY <2>1, <2>2, <2>3 DEF OlderThan
<1>9. ASSUME NEW keep \in BOOLEAN, Emit(keep) PROVE OlderThan(w)'
  <2>1. /\ pc = "emit" /\ UNCHANGED <<cb, off, blk, states, stalled>>
    BY <1>9 DEF Emit, dmaVars
  <2>2. pc' \in {"ret", "test"}
    BY <1>9, EndOfBufferNext DEF Emit
  <2> QED BY <2>1, <2>2 DEF OlderThan
<1>10. CASE UNCHANGED vars
  BY <1>10 DEF vars, dmaVars, loopVars, dataVars, histVars, OlderThan
<1> QED BY <1>1, <1>2, <1>3, <1>4, <1>5, <1>6, <1>7, <1>8, <1>9, <1>10
        DEF Next, Dma, Cpu, FetchStep

(* Between two calls the block formatted last is such a block.             *)
LEMMA ValsOlder ==
  ASSUME IInv, pc = "call" PROVE OlderThan(vals.usec)
  BY DEF IInv, OrderInv, OlderThan

-----------------------------------------------------------------------------
(* Refinement of BlockFeed.                                                *)

(* The accesses that neither complete, give up nor deliver a block do not  *)
(* exist for the reader of the feed.                                       *)
LEMMA FeedStutter ==
  ASSUME DmaUsec \/ DmaWord \/ Enter \/ Test \/ CopyWord \/ Stamp \/ Check
         \/ DropSecond \/ Return
  PROVE  UNCHANGED Feed!vars
  BY DEF Feed!vars, DmaUsec, DmaWord, Enter, Test, CopyWord, Stamp, Check,
     DropSecond, Return, dmaVars, loopVars, dataVars, histVars

(* Emit delivers a block to the feed or gives one up.                      *)
LEMMA FeedEmit ==
  ASSUME IInv, NEW keep \in BOOLEAN, Emit(keep)
  PROVE  Feed!GiveUp \/ Feed!Deliver
<1>1. /\ pc = "emit" /\ gap' = ~keep /\ stalled' = stalled /\ blk' = blk
      /\ vals' = IF keep THEN [words |-> rx_buff, usec |-> usec] ELSE vals
  BY DEF Emit, dmaVars
<1>2. CASE ~keep
  BY <1>1, <1>2 DEF Feed!GiveUp, IInv, TypeOK
<1>3. CASE keep /\ stalled
  <2>1. vals' \in Feed!Anything
    BY <1>1, <1>3 DEF IInv, TypeOK, Feed!Anything, Word, Feed!Word
  <2> QED BY <1>1, <1>3, <2>1 DEF Feed!Deliver
<1>4. CASE keep /\ ~stalled
  <2>1. vals' = Feed!Whole(usec)
    BY <1>1, <1>4 DEF IInv, EmitInv, Feed!Whole, Block, Word, Feed!Word
  <2>2. usec \in (vals.usec + 1)..(blk - 1)
    BY <1>1, <1>4
    DEF IInv, TypeOK, BlockRec, EmitInv, OrderInv, NewerBlock
  <2>3. gap \/ usec = vals.usec + 1
    BY <1>1, <1>4 DEF IInv, GapInv, NoSilentLoss
  <2> QED BY <1>1, <1>4, <2>1, <2>2, <2>3 DEF Feed!Deliver
<1> QED BY <1>2, <1>3, <1>4

(* Every access of the DMA or of the program is a step of the feed or      *)
(* changes nothing a reader of the feed can see.                           *)
THEOREM FeedNext == IInv /\ [Next]_vars => [Feed!Next]_(Feed!vars)
<1> SUFFICES ASSUME IInv, [Next]_vars PROVE [Feed!Next]_(Feed!vars)
  OBVIOUS
<1>1. CASE DmaState
  <2>1. blk - 1 < MaxBlk - 1 /\ blk' - 1 = (blk - 1) + 1
    BY <1>1, MaxBlkAssumption DEF DmaState, IInv, TypeOK
  <2> QED BY <1>1, <2>1 DEF DmaState, dataVars, Feed!Next, Feed!Receive
<1>2. CASE DropFirst
  BY <1>2 DEF DropFirst, Feed!Next, Feed!GiveUp
<1>3. CASE Clear
  <2>1. CASE stalled' = TRUE
    BY <1>3, <2>1 DEF Clear, dataVars, Feed!Next, Feed!Stall
  <2>2. CASE stalled' = stalled
    BY <1>3, <2>2 DEF Clear, dataVars, Feed!vars
  <2> QED BY <1>3, <2>1, <2>2 DEF Clear, IInv, TypeOK
<1>4. ASSUME NEW keep \in BOOLEAN, Emit(keep) PROVE Feed!Next
  BY <1>4, FeedEmit DEF Feed!Next
<1>5. CASE UNCHANGED vars
  BY <1>5 DEF vars, dmaVars, dataVars, histVars, Feed!vars
<1> QED BY <1>1, <1>2, <1>3, <1>4, <1>5, FeedStutter
        DEF Next, Dma, Cpu, FetchStep

(* adc_dma_init leaves the feed empty.                                     *)
THEOREM FeedInit == Init => Feed!Init
  BY DEF Init, DmaInit, CpuInit, Block, Word, Feed!Init, Feed!Whole, Feed!Word

(* The receive side of the program implements the feed: whole blocks, each *)
(* newer than the last, no omission off the record.                        *)
THEOREM Refinement == Spec => ImplementsFeed
  BY Invariance, FeedInit, FeedNext, PTL DEF Spec, ImplementsFeed, Feed!Spec

-----------------------------------------------------------------------------
(* Every flag is served.  What a step does with a flag is proved; that the *)
(* program can make one while a flag is set (a matter of ENABLED), and     *)
(* that memcpy returns, which takes an induction over time, are            *)
(* hypotheses.                                                             *)

(* The flag b is set, and the program is at p, looking at the buffer m.    *)
Raised(b, p)      == states[b] = 1 /\ pc = p
RaisedAt(b, p, m) == Raised(b, p) /\ n = m

(* It has come to the first buffer and, with csv, made no line.            *)
Fresh(b) == RaisedAt(b, "test", 0) /\ (Fetch = "csv" => ~done)

Served(b) == states[b] = 0
Copying   == pc = "copy"
Pending   == \E b \in Buf : states[b] = 1

(* From P the program goes to Q, and nobody takes it anywhere else; when   *)
(* it copies, with its last word.                                          *)
Goes(P, Q) ==
  /\ P => Pending
  /\ IInv /\ P /\ [Next]_vars => (P \/ Q)'
  /\ IInv /\ P /\ <<Cpu>>_vars => Q'
Copies(P, Q) ==
  /\ P => Copying
  /\ IInv /\ P /\ [Next]_vars => (P \/ Q)'

Scheduled     == [][Next]_vars /\ WF_vars(Cpu)
NeverStuck    == [](Pending => ENABLED <<Cpu>>_vars)
MemcpyReturns == Copying ~> ~ Copying

(* The DMA only ever sets a flag.                                          *)
LEMMA OthersKeep ==
  ASSUME IInv, [Next]_vars, ~ Cpu, NEW b \in Buf, states[b] = 1
  PROVE  states'[b] = 1 /\ UNCHANGED <<pc, n, done>>
<1>1. states \in [Buf -> {0, 1}]
  BY DEF IInv, TypeOK
<1>2. CASE Dma
  BY <1>1, <1>2 DEF Dma, DmaUsec, DmaWord, DmaState, loopVars
<1>3. CASE UNCHANGED vars
  BY <1>3 DEF vars, dmaVars, loopVars
<1> QED BY <1>2, <1>3 DEF Next

(* What the program does with a flag that is set, to and from the test...  *)
LEMMA ScanStep ==
  ASSUME IInv, Cpu, NEW b \in Buf, states[b] = 1,
         pc \in {"call", "ret", "test", "emit"}
  PROVE  /\ states'[b] = 1
         /\ pc = "call" => pc' = "test" /\ n' = 0 /\ ~done'
         /\ pc = "ret"  => pc' = "call"
         /\ pc = "test" /\ n = b => pc' = "copy" /\ n' = b
         /\ pc = "test" /\ n = 0 =>
              \/ pc' = "copy" /\ n' = 0
              \/ pc' = "test" /\ n' = 1
              \/ pc' = "ret" /\ Fetch = "csv" /\ done
         /\ pc = "test" /\ n = 1 =>
              \/ pc' = "copy" /\ n' = 1
              \/ pc' = "test" /\ n' = 0
              \/ pc' = "ret"
         /\ pc = "emit" /\ n = 0 => (pc' = "test" /\ n' = 1) \/ pc' = "ret"
         /\ pc = "emit" /\ n = 1 =>
              \/ pc' = "test" /\ n' = 0 /\ (Fetch = "csv" => ~done')
              \/ pc' = "ret"
<1>1. states \in [Buf -> {0, 1}] /\ n \in Buf
  BY DEF IInv, TypeOK
<1>2. CASE pc \in {"call", "ret"}
  BY <1>2 DEF Cpu, FetchStep, Enter, Test, CopyWord, Stamp, Check, DropSecond,
     DropFirst, Clear, Emit, Return, dmaVars
<1>3. CASE pc = "test"
  <2>1. Test
    BY <1>3 DEF Cpu, FetchStep, Enter, CopyWord, Stamp, Check, DropSecond,
       DropFirst, Clear, Emit, Return
  <2> QED BY <1>1, <1>3, <2>1, FetchAssumption
          DEF Test, EndOfBuffer, EndOfScan, dmaVars, Buf
<1>4. CASE pc = "emit"
  <2>1. PICK keep \in BOOLEAN : Emit(keep)
    BY <1>4 DEF Cpu, FetchStep, Enter, Test, CopyWord, Stamp, Check,
       DropSecond, DropFirst, Clear, Return
  <2> QED BY <1>1, <1>4, <2>1, FetchAssumption
          DEF Emit, EndOfBuffer, EndOfScan, dmaVars, Buf
<1> QED BY <1>2, <1>3, <1>4

(* ... and from the copy to the store that answers it.                     *)
LEMMA TakeStep ==
  ASSUME IInv, Cpu, NEW b \in Buf, states[b] = 1,
         pc \in {"copy", "stamp", "check", "clear", "drop1", "drop0"}
  PROVE  /\ pc = "copy" => /\ pc' \in {"copy", "stamp"}
                           /\ n' = n /\ states'[b] = 1
         /\ pc = "stamp" => pc' = "check" /\ n' = n /\ states'[b] = 1
         /\ pc = "check" /\ n = b =>
              pc' \in {"clear", "drop1"} /\ n' = n /\ states'[b] = 1
         /\ pc = "check" /\ n # b => pc' = "drop1" /\ states'[b] = 1
         /\ pc = "clear" /\ n = b => states'[b] = 0
         /\ pc = "clear" /\ n # b => pc' = "emit" /\ n' = n /\ states'[b] = 1
         /\ pc = "drop1" /\ b = 1 => states'[b] = 0
         /\ pc = "drop1" /\ b = 0 => pc' = "drop0" /\ states'[b] = 1
         /\ pc = "drop0" /\ b = 0 => states'[b] = 0
         /\ pc = "drop0" /\ b = 1 =>
              /\ states'[b] = 1
              /\ pc' = "ret" \/ (pc' = "test" /\ n' = 0 /\ Fetch # "csv")
<1>1. states \in [Buf -> {0, 1}] /\ n \in Buf
  BY DEF IInv, TypeOK
<1> USE DEF Cpu, FetchStep
<1>2. CASE pc \in {"copy", "stamp"}
  BY <1>2 DEF Enter, Test, CopyWord, Stamp, Check, DropSecond, DropFirst,
     Clear, Emit, Return, dmaVars
<1>3. CASE pc = "check"
  BY <1>1, <1>3 DEF Enter, Test, CopyWord, Stamp, Check, DropSecond, DropFirst,
     Clear, Emit, Return, dmaVars, Other, Buf
<1>4. CASE pc = "clear"
  BY <1>1, <1>4 DEF Enter, Test, CopyWord, Stamp, Check, DropSecond, DropFirst,
     Clear, Emit, Return, Buf
<1>5. CASE pc \in {"drop1", "drop0"}
  BY <1>1, <1>5, FetchAssumption DEF Enter, Test, CopyWord, Stamp, Check,
     DropSecond, DropFirst, Clear, Emit, Return, EndOfScan, Buf
<1> QED BY <1>2, <1>3, <1>4, <1>5

(* The second buffer's flag: a look at the first buffer may come before,   *)
(* and after a return a whole call of the function.                        *)
LEMMA SecondServed ==
  Scheduled /\ NeverStuck /\ MemcpyReturns /\ []IInv
    => (states[1] = 1 ~> Served(1))
<1> USE DEF Goes, Copies, Pending, Copying, Raised, RaisedAt, Fresh, Served,
            Buf
<1>1. Goes(Raised(1, "call"), Fresh(1))
  BY OthersKeep, ScanStep
<1>2. Goes(Raised(1, "ret"), Raised(1, "call"))
  BY OthersKeep, ScanStep
<1>3. Goes(Fresh(1), RaisedAt(1, "test", 1) \/ RaisedAt(1, "copy", 0))
  BY OthersKeep, ScanStep
<1>4. Goes(RaisedAt(1, "test", 0),
          RaisedAt(1, "test", 1) \/ RaisedAt(1, "copy", 0) \/ Raised(1, "ret"))
  BY OthersKeep, ScanStep
<1>5. Goes(RaisedAt(1, "test", 1), RaisedAt(1, "copy", 1))
  BY OthersKeep, ScanStep
<1>6. Copies(RaisedAt(1, "copy", 0), RaisedAt(1, "stamp", 0))
  BY OthersKeep, TakeStep
<1>7. Goes(RaisedAt(1, "stamp", 0), RaisedAt(1, "check", 0))
  BY OthersKeep, TakeStep
<1>8. Goes(RaisedAt(1, "check", 0), Raised(1, "drop1"))
  BY OthersKeep, TakeStep
<1>9. Goes(Raised(1, "drop1"), Served(1))
  BY OthersKeep, TakeStep
<1>10. Goes(RaisedAt(1, "clear", 0), RaisedAt(1, "emit", 0))
  BY OthersKeep, TakeStep
<1>11. Goes(RaisedAt(1, "emit", 0),
          RaisedAt(1, "test", 1) \/ Raised(1, "ret"))
  BY OthersKeep, ScanStep
<1>12. Copies(RaisedAt(1, "copy", 1), RaisedAt(1, "stamp", 1))
  BY OthersKeep, TakeStep
<1>13. Goes(RaisedAt(1, "stamp", 1), RaisedAt(1, "check", 1))
  BY OthersKeep, TakeStep
<1>14. Goes(RaisedAt(1, "check", 1),
          RaisedAt(1, "clear", 1) \/ Raised(1, "drop1"))
  BY OthersKeep, TakeStep
<1>15. Goes(RaisedAt(1, "clear", 1), Served(1))
  BY OthersKeep, TakeStep
<1>16. Goes(RaisedAt(1, "emit", 1), Fresh(1) \/ Raised(1, "ret"))
  BY OthersKeep, ScanStep
<1>17. Goes(Raised(1, "drop0"), Fresh(1) \/ Raised(1, "ret"))
  BY OthersKeep, TakeStep
<1>18. IInv /\ states[1] = 1
         => Raised(1, "call") \/ Raised(1, "ret") \/ Fresh(1)
            \/ RaisedAt(1, "test", 0) \/ RaisedAt(1, "test", 1)
            \/ RaisedAt(1, "copy", 0) \/ RaisedAt(1, "stamp", 0)
            \/ RaisedAt(1, "check", 0) \/ Raised(1, "drop1")
            \/ RaisedAt(1, "clear", 0) \/ RaisedAt(1, "emit", 0)
            \/ RaisedAt(1, "copy", 1) \/ RaisedAt(1, "stamp", 1)
            \/ RaisedAt(1, "check", 1) \/ RaisedAt(1, "clear", 1)
            \/ RaisedAt(1, "emit", 1) \/ Raised(1, "drop0")
  BY DEF IInv, TypeOK
<1> HIDE DEF Pending, Copying, Raised, RaisedAt, Fresh, Served, Buf
<1> QED BY <1>1, <1>2, <1>3, <1>4, <1>5, <1>6, <1>7, <1>8, <1>9, <1>10, <1>11,
           <1>12, <1>13, <1>14, <1>15, <1>16, <1>17, <1>18, PTL
   DEF Goes, Copies, Scheduled, NeverStuck, MemcpyReturns

(* The first buffer's flag: the loop may be past it, and comes back.       *)
LEMMA FirstServed ==
  Scheduled /\ NeverStuck /\ MemcpyReturns /\ []IInv
    => (states[0] = 1 ~> Served(0))
<1> USE DEF Goes, Copies, Pending, Copying, Raised, RaisedAt, Fresh, Served,
            Buf
<1>1. Goes(Raised(0, "call"), RaisedAt(0, "test", 0))
  BY OthersKeep, ScanStep
<1>2. Goes(Raised(0, "ret"), Raised(0, "call"))
  BY OthersKeep, ScanStep
<1>3. Goes(RaisedAt(0, "test", 0), RaisedAt(0, "copy", 0))
  BY OthersKeep, ScanStep
<1>4. Copies(RaisedAt(0, "copy", 0), RaisedAt(0, "stamp", 0))
  BY OthersKeep, TakeStep
<1>5. Goes(RaisedAt(0, "stamp", 0), RaisedAt(0, "check", 0))
  BY OthersKeep, TakeStep
<1>6. Goes(RaisedAt(0, "check", 0),
          RaisedAt(0, "clear", 0) \/ Raised(0, "drop1"))
  BY OthersKeep, TakeStep
<1>7. Goes(RaisedAt(0, "clear", 0), Served(0))
  BY OthersKeep, TakeStep
<1>8. Goes(RaisedAt(0, "emit", 0),
          RaisedAt(0, "test", 1) \/ Raised(0, "ret"))
  BY OthersKeep, ScanStep
<1>9. Goes(RaisedAt(0, "test", 1),
          RaisedAt(0, "copy", 1) \/ RaisedAt(0, "test", 0) \/ Raised(0, "ret"))
  BY OthersKeep, ScanStep
<1>10. Copies(RaisedAt(0, "copy", 1), RaisedAt(0, "stamp", 1))
  BY OthersKeep, TakeStep
<1>11. Goes(RaisedAt(0, "stamp", 1), RaisedAt(0, "check", 1))
  BY OthersKeep, TakeStep
<1>12. Goes(RaisedAt(0, "check", 1), Raised(0, "drop1"))
  BY OthersKeep, TakeStep
<1>13. Goes(RaisedAt(0, "clear", 1), RaisedAt(0, "emit", 1))
  BY OthersKeep, TakeStep
<1>14. Goes(RaisedAt(0, "emit", 1),
          RaisedAt(0, "test", 0) \/ Raised(0, "ret"))
  BY OthersKeep, ScanStep
<1>15. Goes(Raised(0, "drop1"), Raised(0, "drop0"))
  BY OthersKeep, TakeStep
<1>16. Goes(Raised(0, "drop0"), Served(0))
  BY OthersKeep, TakeStep
<1>17. IInv /\ states[0] = 1
         => Raised(0, "call") \/ Raised(0, "ret") \/ RaisedAt(0, "test", 0)
            \/ RaisedAt(0, "copy", 0) \/ RaisedAt(0, "stamp", 0)
            \/ RaisedAt(0, "check", 0) \/ RaisedAt(0, "clear", 0)
            \/ RaisedAt(0, "emit", 0) \/ RaisedAt(0, "test", 1)
            \/ RaisedAt(0, "copy", 1) \/ RaisedAt(0, "stamp", 1)
            \/ RaisedAt(0, "check", 1) \/ RaisedAt(0, "clear", 1)
            \/ RaisedAt(0, "emit", 1) \/ Raised(0, "drop1")
            \/ Raised(0, "drop0")
  BY DEF IInv, TypeOK
<1> HIDE DEF Pending, Copying, Raised, RaisedAt, Fresh, Served, Buf
<1> QED BY <1>1, <1>2, <1>3, <1>4, <1>5, <1>6, <1>7, <1>8, <1>9, <1>10, <1>11,
           <1>12, <1>13, <1>14, <1>15, <1>16, <1>17, PTL
   DEF Goes, Copies, Scheduled, NeverStuck, MemcpyReturns

(* Every flag the DMA sets is looked at and cleared, whichever buffer it   *)
(* belongs to, wherever the program is, and however often the DMA sets it  *)
(* again meanwhile.                                                        *)
THEOREM FlagsAreServed ==
  Spec /\ NeverStuck /\ MemcpyReturns => FlagServed
<1>1. Spec => Scheduled
  BY PTL DEF Spec, Scheduled
<1> QED BY <1>1, Invariance, FirstServed, SecondServed, PTL
   DEF FlagServed, Served
=============================================================================
