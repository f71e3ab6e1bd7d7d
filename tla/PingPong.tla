------------------------------ MODULE PingPong ------------------------------
(***************************************************************************)
(* The two ping-pong receive buffers of rpi_adc_stream.c: DMA channel B    *)
(* fills them without ever waiting for anybody, and the program takes the  *)
(* filled ones with adc_stream_csv, adc_stream_raw or adc_stream_packet.   *)
(* The only synchronisation is a pair of flags, states[0] and states[1]:   *)
(* the DMA sets one after it has filled a buffer, the program looks at     *)
(* both and clears them.                                                   *)
(*                                                                         *)
(* Each access of either party to the uncached memory is one step.  A      *)
(* sample is represented by the number of the block it belongs to, and the *)
(* microsecond clock by the number of the block that is being received, so *)
(* that a mixed or misdated block can be told from a good one.             *)
(***************************************************************************)
EXTENDS Integers

CONSTANTS
  NSamp,   \* samples per block: sample_count, option -N
  MaxBlk,  \* bound: the DMA stops when it has MaxBlk - 1 complete blocks
  Fetch    \* "csv": adc_stream_csv; "packet": adc_stream_packet or _raw,
           \* whose control flow is the same

ASSUME NSampAssumption  == NSamp \in Nat \ {0}
ASSUME MaxBlkAssumption == MaxBlk \in Nat \ {0}
ASSUME FetchAssumption  == Fetch \in {"csv", "packet"}

VARIABLES
  cb,            \* control block channel B executes: an index of dp->cbs
  off,           \* words the current data transfer has moved
  blk,           \* number of the block being received, from 1
  usecs,         \* dp->usecs
  states,        \* dp->states: 0, or 1 for the (non-zero) SPI CS word
  rxd,           \* dp->rxd1, dp->rxd2
  pc,            \* where the program is
  n,             \* loop variable: the buffer being looked at
  i,             \* words memcpy has moved to rx_buff
  done,          \* slen # 0 (csv), da # 0 (packet, raw)
  rx_buff,       \* the program's copy of a block
  usec,          \* the program's copy of its time stamp
  vals,          \* the block last formatted into the output buffer
  samp_total,
  overrun_total,
  lap,           \* history: blocks completed since the program's last
                 \* deciding access (see Check, DropSecond), at most 2
  stalled,       \* history: the program was away for two whole blocks
                 \* between that access and the store that answers it
  gap            \* history: a block was dropped since the last formatted one

dmaVars  == <<cb, off, blk, usecs, states, rxd>>
loopVars == <<pc, n, i, done>>
dataVars == <<rx_buff, usec, vals, samp_total, overrun_total>>
histVars == <<lap, stalled, gap>>
vars     == <<dmaVars, loopVars, dataVars, histVars>>

Buf      == {0, 1}
Word     == 1..NSamp
Block(k) == [j \in Word |-> k]
Other(b) == 1 - b

-----------------------------------------------------------------------------
(* Mutants, for the sensitivity of the checks: each one is a plausible     *)
(* mistake in the definition it is named after.                            *)

NextCbEnds(c) == c + 1

DmaStateSwapped ==
  /\ cb \in {2, 5}
  /\ blk < MaxBlk
  /\ states' = [states EXCEPT ![IF cb = 2 THEN 1 ELSE 0] = 1]
  /\ blk' = blk + 1
  /\ cb' = IF cb = 5 THEN 0 ELSE cb + 1
  /\ lap' = IF lap < 2 THEN lap + 1 ELSE lap
  /\ UNCHANGED <<off, usecs, rxd, loopVars, dataVars, stalled, gap>>

EndOfScanStuck(d) ==
  IF Fetch = "csv" \/ d THEN pc' = "ret"  /\ n' = n
                        ELSE pc' = "test" /\ n' = n

EndOfScanReturns(d) == pc' = "ret" /\ n' = n

EndOfBufferFirst(d) == IF Fetch = "csv" \/ d THEN pc' = "ret"  /\ n' = n
                                             ELSE pc' = "test" /\ n' = n

CopyShort ==
  /\ pc = "copy"
  /\ rx_buff' = [rx_buff EXCEPT ![i + 1] = rxd[n][i + 1]]
  /\ i' = i + 1
  /\ pc' = IF i + 2 >= NSamp THEN "stamp" ELSE "copy"
  /\ UNCHANGED <<dmaVars, n, done, usec, vals, samp_total, overrun_total,
                 histVars>>

CheckNothing ==
  /\ pc = "check"
  /\ pc' = "clear"
  /\ lap' = 0
  /\ UNCHANGED <<dmaVars, n, i, done, dataVars, stalled, gap>>

ClearNothing ==
  /\ pc = "clear"
  /\ stalled' = (stalled \/ lap = 2)
  /\ pc' = "emit"
  /\ UNCHANGED <<dmaVars, n, i, done, dataVars, lap, gap>>

ClearBoth ==
  /\ pc = "clear"
  /\ states' = [b \in Buf |-> 0]
  /\ stalled' = (stalled \/ lap = 2)
  /\ pc' = "emit"
  /\ UNCHANGED <<cb, off, blk, usecs, rxd, n, i, done, dataVars, lap, gap>>

-----------------------------------------------------------------------------
(* DMA channel B: control blocks 0..2 fill buffer 0, 3..5 fill buffer 1.   *)

Filling   == IF cb < 3 THEN 0 ELSE 1
NextCb(c) == IF c = 5 THEN 0 ELSE c + 1

DmaInit ==
  /\ cb = 0 /\ off = 0 /\ blk = 1
  /\ usecs  = [b \in Buf |-> 0]
  /\ states = [b \in Buf |-> 0]
  /\ rxd    = [b \in Buf |-> Block(0)]

DmaUsec ==
  /\ cb \in {0, 3}
  /\ usecs' = [usecs EXCEPT ![Filling] = blk]
  /\ cb' = NextCb(cb)
  /\ UNCHANGED <<off, blk, states, rxd, loopVars, dataVars, histVars>>

DmaWord ==
  /\ cb \in {1, 4}
  /\ rxd' = [rxd EXCEPT ![Filling][off + 1] = blk]
  /\ IF off + 1 = NSamp THEN off' = 0 /\ cb' = NextCb(cb)
                        ELSE off' = off + 1 /\ cb' = cb
  /\ UNCHANGED <<blk, usecs, states, loopVars, dataVars, histVars>>

DmaState ==
  /\ cb \in {2, 5}
  /\ blk < MaxBlk
  /\ states' = [states EXCEPT ![Filling] = 1]
  /\ blk' = blk + 1
  /\ cb' = NextCb(cb)
  /\ lap' = IF lap < 2 THEN lap + 1 ELSE lap
  /\ UNCHANGED <<off, usecs, rxd, loopVars, dataVars, stalled, gap>>

Dma == DmaUsec \/ DmaWord \/ DmaState

-----------------------------------------------------------------------------
(* The fetch functions.                                                    *)

(* Leave the loop: csv returns; packet and raw return if they have seen a  *)
(* filled buffer, and otherwise sleep and look at both buffers again.      *)
EndOfScan(d) ==
  IF Fetch = "csv" \/ d THEN pc' = "ret"  /\ n' = n
                        ELSE pc' = "test" /\ n' = 0

(* The end of an iteration: the loop of csv stops at the first line made,  *)
(* the others always look at both buffers.                                 *)
EndOfBuffer(d) ==
  IF n = 0 /\ ~(Fetch = "csv" /\ d) THEN pc' = "test" /\ n' = 1
                                    ELSE EndOfScan(d)

Enter ==
  /\ pc = "call"
  /\ pc' = "test" /\ n' = 0 /\ done' = FALSE
  /\ UNCHANGED <<dmaVars, i, dataVars, histVars>>

(* Mutant: the samples are counted before the flag is looked at.           *)
TestCountsFirst ==
  /\ pc = "test"
  /\ samp_total' = samp_total + NSamp
  /\ \/ /\ states[n] = 0
        /\ EndOfBuffer(done)
        /\ UNCHANGED <<i, done>>
     \/ /\ states[n] = 1
        /\ pc' = "copy" /\ i' = 0
        /\ done' = (done \/ Fetch = "packet")
        /\ UNCHANGED n
  /\ UNCHANGED <<dmaVars, rx_buff, usec, vals, overrun_total, histVars>>

(* if (dp->states[n])                                                      *)
Test ==
  /\ pc = "test"
  /\ \/ /\ states[n] = 0
        /\ EndOfBuffer(done)
        /\ UNCHANGED <<i, done, samp_total>>
     \/ /\ states[n] = 1
        /\ pc' = "copy" /\ i' = 0
        /\ done' = (done \/ Fetch = "packet")
        /\ samp_total' = samp_total + NSamp
        /\ UNCHANGED n
  /\ UNCHANGED <<dmaVars, rx_buff, usec, vals, overrun_total, histVars>>

(* one word of memcpy(rx_buff, dp->rxd1 or dp->rxd2, nsamp*4)              *)
CopyWord ==
  /\ pc = "copy"
  /\ rx_buff' = [rx_buff EXCEPT ![i + 1] = rxd[n][i + 1]]
  /\ i' = i + 1
  /\ pc' = IF i + 1 = NSamp THEN "stamp" ELSE "copy"
  /\ UNCHANGED <<dmaVars, n, done, usec, vals, samp_total, overrun_total,
                 histVars>>

(* usec = dp->usecs[n]                                                     *)
Stamp ==
  /\ pc = "stamp"
  /\ usec' = usecs[n]
  /\ pc' = "check"
  /\ UNCHANGED <<dmaVars, n, i, done, rx_buff, vals, samp_total,
                 overrun_total, histVars>>

(* if (dp->states[n^1]): the decision whether the copy is good             *)
Check ==
  /\ pc = "check"
  /\ pc' = IF states[Other(n)] = 1 THEN "drop1" ELSE "clear"
  /\ lap' = 0
  /\ UNCHANGED <<dmaVars, n, i, done, dataVars, stalled, gap>>

(* dp->states[0] = dp->states[1] = 0 stores into states[1] first; the      *)
(* store into states[0] ends the overrun branch                            *)
DropSecond ==
  /\ pc = "drop1"
  /\ states' = [states EXCEPT ![1] = 0]
  /\ pc' = "drop0"
  /\ lap' = 0
  /\ UNCHANGED <<cb, off, blk, usecs, rxd, n, i, done, dataVars, stalled, gap>>

DropFirst ==
  /\ pc = "drop0"
  /\ states' = [states EXCEPT ![0] = 0]
  /\ overrun_total' = overrun_total + 1
  /\ stalled' = (lap = 2)
  /\ gap' = TRUE
  /\ EndOfScan(done)
  /\ UNCHANGED <<cb, off, blk, usecs, rxd, i, done, rx_buff, usec, vals,
                 samp_total, lap>>

(* dp->states[n] = 0                                                       *)
Clear ==
  /\ pc = "clear"
  /\ states' = [states EXCEPT ![n] = 0]
  /\ stalled' = (stalled \/ lap = 2)
  /\ pc' = "emit"
  /\ UNCHANGED <<cb, off, blk, usecs, rxd, n, i, done, dataVars, lap, gap>>

(* Mutant: the time stamp in the output is the one of the block before.    *)
EmitMisdated(keep) ==
  /\ pc = "emit"
  /\ keep \/ Fetch = "csv"
  /\ vals' = IF keep THEN [words |-> rx_buff, usec |-> vals.usec] ELSE vals
  /\ done' = (done \/ keep)
  /\ gap' = ~keep
  /\ EndOfBuffer(done')
  /\ UNCHANGED <<dmaVars, i, rx_buff, usec, samp_total, overrun_total, lap,
                 stalled>>

(* The block is formatted into the output buffer; keep is FALSE when csv   *)
(* discards it in lockstep mode.                                           *)
Emit(keep) ==
  /\ pc = "emit"
  /\ keep \/ Fetch = "csv"
  /\ vals' = IF keep THEN [words |-> rx_buff, usec |-> usec] ELSE vals
  /\ done' = (done \/ keep)
  /\ gap' = ~keep
  /\ EndOfBuffer(done')
  /\ UNCHANGED <<dmaVars, i, rx_buff, usec, samp_total, overrun_total, lap,
                 stalled>>

Return ==
  /\ pc = "ret"
  /\ pc' = "call"
  /\ UNCHANGED <<dmaVars, n, i, done, dataVars, histVars>>

(* The steps inside a fetch function, whoever calls it.                    *)
FetchStep ==
  \/ Test \/ CopyWord \/ Stamp \/ Check \/ DropSecond \/ DropFirst \/ Clear

Cpu == Enter \/ FetchStep \/ (\E keep \in BOOLEAN : Emit(keep)) \/ Return

CpuInit ==
  /\ pc = "call" /\ n = 0 /\ i = 0 /\ done = FALSE
  /\ rx_buff = Block(0) /\ usec = 0
  /\ vals = [words |-> Block(0), usec |-> 0]
  /\ samp_total = 0 /\ overrun_total = 0
  /\ lap = 0 /\ stalled = FALSE /\ gap = FALSE

Init == DmaInit /\ CpuInit
Next == Dma \/ Cpu
Spec == Init /\ [][Next]_vars /\ WF_vars(Cpu)
-----------------------------------------------------------------------------
(* Properties.                                                             *)

BlockRec == [words : [Word -> 0..MaxBlk], usec : 0..MaxBlk]

TypeOK ==
  /\ cb \in 0..5 /\ off \in 0..(NSamp - 1) /\ blk \in 1..MaxBlk
  /\ usecs \in [Buf -> 0..MaxBlk]
  /\ states \in [Buf -> {0, 1}]
  /\ rxd \in [Buf -> [Word -> 0..MaxBlk]]
  /\ pc \in {"call", "test", "copy", "stamp", "check", "drop1", "drop0",
             "clear", "emit", "ret"}
  /\ n \in Buf /\ i \in 0..NSamp /\ done \in BOOLEAN
  /\ rx_buff \in [Word -> 0..MaxBlk] /\ usec \in 0..MaxBlk
  /\ vals \in BlockRec
  /\ samp_total \in Nat /\ overrun_total \in Nat
  /\ lap \in 0..2 /\ stalled \in BOOLEAN /\ gap \in BOOLEAN

(* A block that is about to be formatted holds the samples of one single   *)
(* block and that block's time stamp, although the DMA keeps writing while *)
(* memcpy reads, unless the program was stalled in a decision window since *)
(* the last overrun.                                                       *)
WholeBlock ==
  pc \in {"clear", "emit"} /\ ~stalled => rx_buff = Block(usec)

(* It is newer than every block formatted before it.                       *)
NewerBlock ==
  pc \in {"clear", "emit"} /\ ~stalled => vals.usec < usec

(* It is the successor of the last formatted one, unless an overrun was    *)
(* counted or lockstep discarded a block in between: nothing is lost       *)
(* silently.                                                               *)
NoSilentLoss ==
  pc \in {"clear", "emit"} /\ ~stalled /\ ~gap => usec = vals.usec + 1

(* The block that passes the check is the newest complete one at that      *)
(* moment: output is never late because old blocks are handed out first.   *)
NewestBlock ==
  [][pc = "check" /\ pc' = "clear" /\ ~stalled => usec = blk - 1]_vars

(* "Total samples" never exceeds what the DMA has received: every flag is  *)
(* accounted for at most once.                                             *)
SampTotalBound == samp_total <= NSamp * (blk - 1)

(* Every flag the DMA sets is looked at and cleared again.                 *)
FlagServed == /\ states[0] = 1 ~> states[0] = 0
              /\ states[1] = 1 ~> states[1] = 0

(* What a reader of the blocks may rely on, stated without buffers, flags  *)
(* and copies.                                                             *)
Feed == INSTANCE BlockFeed WITH received <- blk - 1, out <- vals,
                                lossy <- gap, degraded <- stalled

(* The two buffers and the fetch functions implement that feed.            *)
ImplementsFeed == Feed!Spec
-----------------------------------------------------------------------------
(* The inductive invariant behind these properties (PingPong_proofs).      *)

Filled   == IF cb \in {0, 3} THEN 0 ELSE IF cb \in {1, 4} THEN off ELSE NSamp
Complete == Other(Filling)   \* the buffer that is not being overwritten

(* What the DMA has written: block blk - 1 complete in one buffer, the     *)
(* first words of block blk in the other.                                  *)
MemoryInv ==
  /\ cb \notin {1, 4} => off = 0
  /\ rxd[Complete] = Block(blk - 1) /\ usecs[Complete] = blk - 1
  /\ \A j \in 1..Filled : rxd[Filling][j] = blk
  /\ cb \notin {0, 3} => usecs[Filling] = blk
  /\ \A b \in Buf : usecs[b] <= blk

(* The meaning of the flags: a flag that stands alone belongs to the       *)
(* complete buffer.  The store of DropSecond, and a stall, break this.     *)
FlagInv ==
  ~stalled /\ pc # "drop0" =>
    \A b \in Buf : states[b] = 1 /\ states[Other(b)] = 0 => b = Complete

(* While the program copies, the other flag being clear means the copy is  *)
(* good so far.                                                            *)
CopyInv ==
  pc \in {"copy", "stamp", "check"} =>
    /\ states[n] = 1
    /\ pc = "copy" => i < NSamp
    /\ pc # "copy" => i = NSamp
    /\ ~stalled /\ states[Other(n)] = 0 =>
         /\ \A j \in 1..i : rx_buff[j] = blk - 1
         /\ pc = "check" => usec = blk - 1

(* What block completions do inside a decision window.  Between Check and  *)
(* Clear the first one moves the DMA into buffer n.                        *)
ClearInv ==
  pc = "clear" =>
    /\ states[n] = 1
    /\ ~stalled =>
         /\ rx_buff = Block(usec)
         /\ lap = 0 => states[Other(n)] = 0 /\ n = Complete /\ usec = blk - 1
         /\ lap = 1 => states[Other(n)] = 1 /\ n = Filling  /\ usec = blk - 2

(* After Clear, the flags tell how many blocks were completed since.       *)
EmitInv ==
  pc = "emit" /\ ~stalled =>
    /\ rx_buff = Block(usec) /\ usec < blk
    /\ states[Filling] = 0 => usec = blk - 1 - states[Complete]
    /\ states[Complete] = 1 => usec < blk - 1
    /\ states[Complete] = 0 => states[Filling] = 0

(* Between the two stores of an overrun only states[1] is cleared.         *)
DropInv ==
  /\ pc = "drop1" => states[0] = 1 /\ states[1] = 1
  /\ pc = "drop0" =>
       /\ lap = 0 => states[1] = 0 /\ vals.usec < blk
       /\ lap = 1 => vals.usec < blk - 1 /\ (states[1] = 1 => Filling = 0)

(* The last formatted block is older than whatever is still to be taken.   *)
OrderInv ==
  /\ usec <= blk /\ vals.usec <= blk
  /\ pc \in {"check", "clear"} /\ usec = blk => n = Filling
  /\ pc = "emit" /\ usec = blk => states[Filling] = 0
  /\ vals.usec = blk => states[Filling] = 0
  /\ ~stalled /\ pc # "drop0" =>
       /\ vals.usec < blk
       /\ states[Complete] = 1 => vals.usec < blk - 1
  /\ NewerBlock

(* Without an overrun or a discarded block it is the one just before.      *)
GapInv ==
  /\ /\ ~stalled /\ ~gap /\ pc \notin {"clear", "emit", "drop0"}
     /\ states[Filling] = 0
     => vals.usec = blk - 1 - states[Complete]
  /\ NoSilentLoss

(* Every flag that was set and not yet counted is still to be counted.     *)
Counted == IF pc \in {"copy", "stamp", "check", "clear", "drop1"} THEN 1 ELSE 0
CountInv ==
  samp_total + NSamp * (states[0] + states[1] - Counted) <= NSamp * (blk - 1)

IInv ==
  /\ TypeOK /\ MemoryInv /\ FlagInv /\ CopyInv /\ ClearInv /\ EmitInv
  /\ DropInv /\ OrderInv /\ GapInv /\ CountInv

(* What OrderInv says of vals.usec holds of every block w that was ever    *)
(* formatted: it is older than whatever is still to be taken.              *)
OlderThan(w) ==
  /\ w <= blk
  /\ w = blk => states[Filling] = 0
  /\ ~stalled /\ pc # "drop0" =>
       w < blk /\ (states[Complete] = 1 => w < blk - 1)
  /\ pc = "drop0" =>
       (lap = 0 => w < blk) /\ (lap = 1 => w < blk - 1)
  /\ pc \in {"clear", "emit"} /\ ~stalled => w < usec
=============================================================================
