------------------------- MODULE StreamFifo_proofs -------------------------
(***************************************************************************)
(* Proofs about StreamFifo, for every size of the pipe, lines of one or    *)
(* two pages and with or without lockstep.  What the main loop adds to the *)
(* ping-pong buffers is a place, a pipe and readers: each of its steps is  *)
(* one of PingPong or leaves the buffers alone (FifoStep), so that IInv is *)
(* kept by PingPong_proofs, and only the parts of FifoInv that relate the  *)
(* line being written to the buffers and to the pipe remain.               *)
(***************************************************************************)
EXTENDS StreamFifo, PingPong_proofs, SequenceTheorems

-----------------------------------------------------------------------------
(* Facts about the buffers.                                                *)

(* Every step of the loop is a step of the receive side, or none.          *)
LEMMA FifoStep ==
  ASSUME [FifoNext]_allVars PROVE [Next]_vars
<1>1. Csv => Next
  BY DEF Csv, Next, Cpu, CsvKeeps
<1>2. DmaStep => Next
  BY DEF DmaStep, Next
<1> QED BY <1>1, <1>2 DEF FifoNext, Program, World, Open, OpenFails, Again,
           Poll, Write, BrokenPipe, Close, ReaderOpens, ReaderReads,
           ReaderCloses, allVars

-----------------------------------------------------------------------------
(* Facts about the pipe.                                                   *)

(* A page that is put into the pipe is a page of the line formatted last.  *)
LEMMA StoredPages ==
  ASSUME FifoTypeOK
  PROVE  /\ Fitting \in 0..2 /\ Len(pipe) + Fitting <= Slots
         /\ Fitting <= Pages
         /\ Stored \in Seq(Page) /\ Len(Stored) = Fitting
         /\ \A p \in 1..Fitting :
              Stored[p] = [line |-> vals.usec, part |-> p, late |-> stalled]
<1>1. Fitting \in 0..2 /\ Len(pipe) + Fitting <= Slots /\ Fitting <= Pages
  BY SlotsAssumption, PagesAssumption DEF FifoTypeOK, Fitting
<1>2. ASSUME NEW p \in 1..Fitting
      PROVE  [line |-> vals.usec, part |-> p, late |-> stalled] \in Page
  <2>1. p \in 1..Pages /\ vals.usec \in 0..MaxBlk /\ stalled \in BOOLEAN
    BY <1>1, PagesAssumption DEF FifoTypeOK, TypeOK, BlockRec
  <2> QED BY <2>1 DEF Page
<1>3. Stored \in [1..Fitting -> Page]
  BY <1>2 DEF Stored
<1>4. Stored \in Seq(Page) /\ Len(Stored) = Fitting
  BY <1>1, <1>3, IsASeq
<1> QED BY <1>1, <1>4 DEF Stored

(* The page in front of a pipe that is not empty, and what is left of it.  *)
LEMMA FrontPage ==
  ASSUME FifoTypeOK, pipe # <<>>
  PROVE  /\ Len(pipe) \in Nat \ {0} /\ Head(pipe) = pipe[1]
         /\ pipe[1] \in Page
         /\ Tail(pipe) \in Seq(Page) /\ Len(Tail(pipe)) = Len(pipe) - 1
         /\ \A k \in 1..(Len(pipe) - 1) : Tail(pipe)[k] = pipe[k + 1]
  BY HeadTailProperties, ElementOfSeq, LenProperties, EmptySeq DEF FifoTypeOK

-----------------------------------------------------------------------------
(* The invariant holds initially.                                          *)

(* main begins with nothing open, nothing formatted and nothing lost.      *)
THEOREM FifoInitInv == FifoInit => FifoInv
<1> SUFFICES ASSUME FifoInit PROVE FifoInv
  OBVIOUS
<1>1. IInv
  BY InitIInv DEF FifoInit
<1>2. FifoTypeOK
  <2>1. TypeOK
    BY <1>1 DEF IInv
  <2>2. pipe \in Seq(Page) /\ Len(pipe) = 0
    BY EmptySeq DEF FifoInit
  <2>3. got \in Page
    BY PagesAssumption, MaxBlkAssumption DEF FifoInit, Nothing, Page
  <2>4. /\ sp = "top" /\ fifo_fd = 0 /\ fifo_size = 0 /\ reader = "none"
        /\ written \in 0..MaxBlk
    BY MaxBlkAssumption DEF FifoInit
  <2>5. lost \in BOOLEAN
    BY DEF FifoInit
  <2>6. Len(pipe) <= Slots
    BY <2>2, SlotsAssumption
  <2> QED BY <2>1, <2>2, <2>3, <2>4, <2>5, <2>6 DEF FifoTypeOK
<1>3. pc = "call" /\ vals.usec = 0 /\ gap = FALSE
  BY DEF FifoInit, Init, CpuInit
<1>4. OlderThan(written)
  BY <1>1, <1>3, ValsOlder DEF FifoInit
<1>5. LineInv
  BY <1>3 DEF FifoInit, LineInv, NewLine
<1>6. PipeInv
  BY EmptySeq DEF FifoInit, PipeInv
<1> QED BY <1>1, <1>2, <1>4, <1>5, <1>6 DEF FifoInv, WriteFits, FifoInit

-----------------------------------------------------------------------------
(* The steps that do not touch the receive buffers: IInv and what depends  *)
(* on the buffers alone is kept.                                           *)

(* The loop's own steps between calls leave the pipe to its readers.       *)
LEMMA LoopStep ==
  ASSUME FifoInv, Open \/ Again \/ Poll
  PROVE  FifoTypeOK' /\ LineInv' /\ PipeInv' /\ WriteFits'
<1>1. UNCHANGED <<vars, world, written, lost>>
  BY DEF Open, Again, Poll
<1>2. UNCHANGED <<pc, done, vals, gap, stalled, reader, pipe, got>>
  BY <1>1 DEF vars, loopVars, dataVars, histVars, world
<1>3. /\ sp' \in {"fetch", "write", "close"} /\ fifo_fd' \in {0, 1}
      /\ fifo_size' \in {0, Slots}
  BY DEF Open, Again, Poll, fifo_freespace, FifoInv, FifoTypeOK
<1>4. FifoTypeOK'
  <2>1. TypeOK'
    BY <1>1 DEF FifoInv, FifoTypeOK, TypeOK, vars, dmaVars, loopVars,
       dataVars, histVars
  <2> QED BY <1>1, <1>2, <1>3, <2>1 DEF FifoInv, FifoTypeOK
<1>5. LineInv'
  BY <1>1, <1>2 DEF FifoInv, LineInv, NewLine, Open, Again, Poll
<1>6. PipeInv'
  BY <1>1, <1>2 DEF FifoInv, PipeInv
<1>7. WriteFits'
  <2>1. sp' = "write" => Len(pipe) < Slots
    BY DEF Open, Again, Poll
  <2> QED BY <1>2, <2>1, SlotsAssumption, PagesAssumption
          DEF FifoInv, FifoTypeOK, WriteFits, Fitting
<1> QED BY <1>4, <1>5, <1>6, <1>7

(* Closing the FIFO, or dying, empties the pipe only when no reader holds  *)
(* it; the line that was not written is announced as lost.                 *)
LEMMA CloseStep ==
  ASSUME FifoInv, Close \/ BrokenPipe
  PROVE  FifoTypeOK' /\ LineInv' /\ PipeInv' /\ WriteFits'
<1>1. UNCHANGED <<vars, fifo_size, reader, got, written>>
  BY DEF Close, BrokenPipe
<1>2. UNCHANGED <<pc, done, vals, gap, stalled>>
  BY <1>1 DEF vars, loopVars, dataVars, histVars
<1>3. /\ sp' \in {"top", "dead"} /\ fifo_fd' = 0
      /\ pipe' = IF reader = "none" THEN <<>> ELSE pipe
      /\ lost' = (lost \/ sp' = "top")
  BY DEF Close, BrokenPipe, FifoInv, FifoTypeOK
<1>4. FifoTypeOK'
  <2>1. TypeOK'
    BY <1>1 DEF FifoInv, FifoTypeOK, TypeOK, vars, dmaVars, loopVars,
       dataVars, histVars
  <2>2. pipe' \in Seq(Page) /\ Len(pipe') <= Slots
    BY <1>3, EmptySeq, SlotsAssumption DEF FifoInv, FifoTypeOK
  <2>3. lost' \in BOOLEAN
    BY DEF Close, BrokenPipe, FifoInv, FifoTypeOK
  <2> QED BY <1>1, <1>3, <2>1, <2>2, <2>3 DEF FifoInv, FifoTypeOK
<1>5. LineInv'
  BY <1>1, <1>2, <1>3 DEF FifoInv, LineInv, NewLine, Close, BrokenPipe
<1>6. PipeInv'
  <2>1. CASE reader = "none"
    BY <1>1, <1>3, <2>1, EmptySeq DEF PipeInv
  <2>2. CASE reader # "none"
    BY <1>1, <1>3, <2>2 DEF FifoInv, PipeInv
  <2> QED BY <2>1, <2>2
<1>7. WriteFits'
  BY <1>3 DEF WriteFits
<1> QED BY <1>4, <1>5, <1>6, <1>7

(* A write puts the pages that fit behind those that wait: poll has found  *)
(* room for one.                                                           *)
LEMMA WriteStep ==
  ASSUME FifoInv, Write
  PROVE  /\ FifoTypeOK' /\ LineInv' /\ PipeInv' /\ WriteFits'
         /\ OlderThan(written)'
<1>1. /\ sp = "write" /\ sp' = "top" /\ reader = "open"
      /\ pipe' = pipe \o Stored /\ written' = vals.usec /\ lost' = FALSE
      /\ UNCHANGED <<vars, fifo_fd, fifo_size, reader, got>>
  BY DEF Write
<1>2. UNCHANGED <<pc, done, vals, gap, stalled>>
  BY <1>1 DEF vars, loopVars, dataVars, histVars
<1>3. TypeOK' /\ vals.usec \in 0..MaxBlk
  BY <1>1 DEF FifoInv, FifoTypeOK, TypeOK, BlockRec, vars, dmaVars, loopVars,
     dataVars, histVars
<1>4. /\ Fitting \in 1..2 /\ Len(pipe) + Fitting <= Slots
      /\ Stored \in Seq(Page) /\ Len(Stored) = Fitting
      /\ \A p \in 1..Fitting :
           Stored[p] = [line |-> vals.usec, part |-> p, late |-> stalled]
  BY <1>1, StoredPages DEF FifoInv, WriteFits
<1> DEFINE L == Len(pipe)
<1>5. /\ L \in Nat /\ pipe' \in Seq(Page) /\ Len(pipe') = L + Fitting
      /\ \A k \in 1..L : pipe'[k] = pipe[k]
      /\ \A k \in 1..Fitting : pipe'[L + k] = Stored[k]
  <2>1. pipe \in Seq(Page)
    BY DEF FifoInv, FifoTypeOK
  <2>2. /\ pipe' \in Seq(Page) /\ Len(pipe') = L + Fitting /\ L \in Nat
        /\ \A k \in 1..(L + Fitting) :
             pipe'[k] = IF k <= L THEN pipe[k] ELSE Stored[k - L]
    BY <1>1, <1>4, <2>1, ConcatProperties, LenProperties
  <2>3. \A k \in 1..Fitting : (L + k) \in 1..(L + Fitting) /\ ~(L + k <= L)
                              /\ (L + k) - L = k
    BY <1>4, <2>2
  <2>4. \A k \in 1..L : k \in 1..(L + Fitting) /\ k <= L
    BY <1>4, <2>2
  <2> QED BY <2>2, <2>3, <2>4
<1>6. pipe' # <<>>
  BY <1>4, <1>5, EmptySeq
<1> HIDE DEF L
<1>7. FifoTypeOK'
  <2>1. Len(pipe') <= Slots
    BY <1>4, <1>5 DEF L
  <2> QED BY <1>1, <1>3, <1>5, <2>1 DEF FifoInv, FifoTypeOK
<1>8. LineInv'
  BY <1>1, <1>2 DEF FifoInv, LineInv, NewLine
<1>9. OlderThan(written)'
  <2>1. OlderThan(vals.usec)
    BY <1>1, ValsOlder DEF FifoInv, LineInv
  <2> QED BY <1>1, <2>1 DEF OlderThan, vars, dmaVars, loopVars, dataVars,
             histVars, Filling, Complete, Other
<1>10. \A q : q = Stored[1] => q.line = vals.usec /\ q.part = 1
                              /\ q.late = stalled
  BY <1>4
<1>11. ~stalled => written < vals.usec
  BY <1>1 DEF FifoInv, LineInv, NewLine
<1>12. \A p : p.line = written => InOrder(p, Stored[1])
  BY <1>10, <1>11, Zenon DEF InOrder
<1>13. \A k \in 1..(Len(pipe') - 1) : InOrder(pipe'[k], pipe'[k + 1])
  <2> TAKE k \in 1..(Len(pipe') - 1)
  <2>k. k \in 1..(L + Fitting - 1)
    <3>1. Len(pipe') = L + Fitting /\ L \in Int /\ Fitting \in Int
      BY <1>4, <1>5
    <3> QED BY <3>1
  <2>1. CASE k < L
    <3>1. k \in 1..L /\ k + 1 \in 1..L /\ k \in 1..(L - 1)
      BY <1>5, <2>1, <2>k
    <3>2. InOrder(pipe[k], pipe[k + 1])
      BY <3>1 DEF FifoInv, PipeInv, L
    <3> QED BY <1>5, <3>1, <3>2
  <2>2. CASE k = L
    <3>1. pipe # <<>> /\ L \in 1..L
      BY <1>5, <2>2, <2>k, EmptySeq DEF L
    <3>2. pipe'[k] = pipe[L] /\ pipe'[k + 1] = Stored[1]
      BY <1>4, <1>5, <2>2, <3>1
    <3>3. pipe[L].line = written
      BY <3>1 DEF FifoInv, PipeInv, L
    <3> QED BY <1>12, <3>2, <3>3
  <2>3. CASE k > L
    <3>1. k = L + 1 /\ Fitting = 2 /\ k + 1 = L + 2
      BY <1>4, <1>5, <2>3, <2>k
    <3>2. pipe'[k] = Stored[1] /\ pipe'[k + 1] = Stored[2]
      BY <1>5, <3>1
    <3>3. Stored[1].line = Stored[2].line
          /\ Stored[1].part = 1 /\ Stored[2].part = 2
      BY <1>4, <3>1
    <3> QED BY <3>2, <3>3 DEF InOrder
  <2> QED BY <1>5, <2>k, <2>1, <2>2, <2>3
<1>14. pipe'[Len(pipe')].line = vals.usec
  BY <1>4, <1>5
<1>15. got # Nothing => InOrder(got, pipe'[1])
  <2> HAVE got # Nothing
  <2>1. CASE pipe = <<>>
    <3>1. got.line = written /\ L = 0
      BY <1>1, <2>1, EmptySeq DEF FifoInv, PipeInv, L
    <3>2. pipe'[1] = Stored[1]
      <4>1. pipe'[L + 1] = Stored[1]
        BY <1>4, <1>5
      <4> QED BY <3>1, <4>1
    <3> QED BY <1>12, <3>1, <3>2
  <2>2. CASE pipe # <<>>
    <3>1. InOrder(got, pipe[1])
      BY <1>1, <2>2 DEF FifoInv, PipeInv
    <3>2. 1 \in 1..L
      BY <2>2, FrontPage DEF FifoInv, L
    <3> QED BY <1>5, <3>1, <3>2
  <2> QED BY <2>1, <2>2
<1>16. PipeInv'
  BY <1>1, <1>6, <1>13, <1>14, <1>15 DEF PipeInv, Nothing
<1>17. WriteFits'
  BY <1>1 DEF WriteFits
<1> QED BY <1>7, <1>8, <1>9, <1>16, <1>17

(* Readers come, go, and take pages from the front.                        *)
LEMMA WorldStep ==
  ASSUME FifoInv, World
  PROVE  FifoTypeOK' /\ LineInv' /\ PipeInv' /\ WriteFits'
<1>1. UNCHANGED <<vars, sp, fifo_fd, fifo_size, written, lost>>
  BY DEF World, ReaderOpens, ReaderReads, ReaderCloses, loopMain
<1>2. UNCHANGED <<pc, done, vals, gap, stalled>>
  BY <1>1 DEF vars, loopVars, dataVars, histVars
<1>3. TypeOK'
  BY <1>1 DEF FifoInv, FifoTypeOK, TypeOK, vars, dmaVars, loopVars, dataVars,
     histVars
<1>4. LineInv'
  BY <1>1, <1>2 DEF FifoInv, LineInv, NewLine
<1>5. ASSUME pipe' \in Seq(Page), Len(pipe') <= Len(pipe)
      PROVE  WriteFits' /\ Len(pipe') <= Slots
  <2>1. Len(pipe') \in Nat /\ Len(pipe) \in Nat /\ Len(pipe) <= Slots
    BY <1>5, LenProperties DEF FifoInv, FifoTypeOK
  <2>2. sp = "write" => Len(pipe) < Slots
    BY <2>1, SlotsAssumption, PagesAssumption DEF FifoInv, WriteFits, Fitting
  <2> QED BY <1>1, <1>5, <2>1, <2>2, SlotsAssumption, PagesAssumption
          DEF WriteFits, Fitting
<1>6. CASE ReaderOpens
  <2>1. reader' = "open" /\ got' = Nothing /\ pipe' = pipe
    BY <1>6 DEF ReaderOpens
  <2>2. got' \in Page
    BY <2>1, PagesAssumption, MaxBlkAssumption DEF Nothing, Page
  <2>3. pipe' \in Seq(Page) /\ Len(pipe') <= Len(pipe)
    BY <2>1, LenProperties DEF FifoInv, FifoTypeOK
  <2>4. FifoTypeOK'
    BY <1>1, <1>3, <1>5, <2>1, <2>2, <2>3 DEF FifoInv, FifoTypeOK
  <2>5. PipeInv'
    BY <1>1, <2>1 DEF FifoInv, PipeInv, Nothing
  <2> QED BY <1>4, <1>5, <2>3, <2>4, <2>5
<1>7. CASE ReaderCloses
  <2>1. /\ reader' = "none" /\ got' = got
        /\ pipe' = IF fifo_fd = 0 THEN <<>> ELSE pipe
    BY <1>7 DEF ReaderCloses
  <2>2. pipe' \in Seq(Page) /\ Len(pipe') <= Len(pipe)
    BY <2>1, LenProperties, EmptySeq DEF FifoInv, FifoTypeOK
  <2>3. FifoTypeOK'
    BY <1>1, <1>3, <1>5, <2>1, <2>2 DEF FifoInv, FifoTypeOK
  <2>4. PipeInv'
    <3>1. CASE fifo_fd = 0
      BY <2>1, <3>1, EmptySeq DEF PipeInv
    <3>2. CASE fifo_fd # 0
      BY <1>1, <2>1, <3>2 DEF FifoInv, PipeInv
    <3> QED BY <3>1, <3>2
  <2> QED BY <1>4, <1>5, <2>2, <2>3, <2>4
<1>8. CASE ReaderReads
  <2>1. /\ reader = "open" /\ reader' = reader /\ pipe # <<>>
        /\ got' = pipe[1] /\ pipe' = Tail(pipe)
        /\ pipe[1] \in Page
    BY <1>8, FrontPage DEF ReaderReads, FifoInv
  <2> DEFINE L == Len(pipe)
  <2>2. /\ L \in Nat \ {0}
        /\ pipe' \in Seq(Page) /\ Len(pipe') = L - 1
        /\ \A k \in 1..(L - 1) : pipe'[k] = pipe[k + 1]
    BY <2>1, FrontPage DEF FifoInv
  <2>3. Len(pipe') <= Len(pipe)
    BY <2>2
  <2>4. FifoTypeOK'
    BY <1>1, <1>3, <1>5, <2>1, <2>2, <2>3 DEF FifoInv, FifoTypeOK
  <2>5. /\ \A k \in 1..(L - 1) : InOrder(pipe[k], pipe[k + 1])
        /\ pipe[L].line = written
    BY <2>1 DEF FifoInv, PipeInv
  <2> HIDE DEF L
  <2>6. CASE L = 1
    <3>1. pipe' = <<>> /\ pipe[1].line = written
      BY <2>2, <2>5, <2>6, EmptySeq
    <3>2. \A k \in 1..(Len(pipe') - 1) : FALSE
      BY <2>2, <2>6
    <3> QED BY <1>1, <1>4, <1>5, <2>1, <2>2, <2>3, <2>4, <3>1, <3>2
            DEF PipeInv
  <2>7. CASE L # 1
    <3>1. L - 1 \in 1..(L - 1) /\ 1 \in 1..(L - 1) /\ L - 1 + 1 = L
      BY <2>2, <2>7
    <3>2. pipe' # <<>> /\ pipe'[Len(pipe')] = pipe[L] /\ pipe'[1] = pipe[2]
      BY <2>2, <3>1, EmptySeq
    <3>3. InOrder(pipe[1], pipe[2])
      BY <2>5, <3>1
    <3>4. \A k \in 1..(Len(pipe') - 1) : InOrder(pipe'[k], pipe'[k + 1])
      <4> TAKE k \in 1..(Len(pipe') - 1)
      <4>1. k \in 1..(L - 1) /\ k + 1 \in 1..(L - 1)
        BY <2>2
      <4> QED BY <2>2, <2>5, <4>1
    <3>5. PipeInv'
      BY <1>1, <2>1, <2>5, <3>2, <3>3, <3>4 DEF PipeInv, Nothing
    <3> QED BY <1>4, <1>5, <2>2, <2>3, <2>4, <3>5
  <2> QED BY <2>6, <2>7
<1> QED BY <1>6, <1>7, <1>8 DEF World

-----------------------------------------------------------------------------
(* The steps of the receive side.                                          *)

(* The DMA changes no record of what was formatted or written.             *)
LEMMA DmaKeeps ==
  ASSUME FifoInv, TypeOK', DmaStep
  PROVE  FifoTypeOK' /\ LineInv' /\ PipeInv' /\ WriteFits'
<1>1. UNCHANGED <<loopVars, dataVars, stalled, gap>>
  BY DEF DmaStep, Dma, DmaUsec, DmaWord, DmaState, histVars
<1>2. /\ UNCHANGED <<pc, done, vals, gap, stalled>>
      /\ UNCHANGED <<sp, fifo_fd, fifo_size, reader, pipe, got, written, lost>>
  BY <1>1 DEF loopVars, dataVars, DmaStep, fifoVars, loopMain, world
<1>3. FifoTypeOK'
  BY <1>2 DEF FifoInv, FifoTypeOK
<1>4. LineInv'
  BY <1>2 DEF FifoInv, LineInv, NewLine
<1>5. PipeInv' /\ WriteFits'
  BY <1>2 DEF FifoInv, PipeInv, WriteFits, Fitting
<1> QED BY <1>3, <1>4, <1>5

(* In lockstep mode the free space is compared with the size of the whole  *)
(* FIFO, which it equals: no block is discarded.                           *)
LEMMA AlwaysKeeps ==
  ASSUME FifoTypeOK PROVE CsvKeeps = TRUE
  BY SlotsAssumption DEF FifoTypeOK, CsvKeeps, fifo_freespace

(* A step of adc_stream_csv formats a whole block that follows the line    *)
(* written last, or counts the gap between them.                           *)
LEMMA CsvStep ==
  ASSUME FifoInv, TypeOK', Csv
  PROVE  FifoTypeOK' /\ LineInv' /\ PipeInv' /\ WriteFits'
<1>1. /\ sp = "fetch" /\ sp' \in {"fetch", "poll", "top"}
      /\ lost' = (lost \/ gap')
      /\ UNCHANGED <<fifo_fd, fifo_size, reader, pipe, got, written>>
  BY DEF Csv, world
<1>2. lost \in BOOLEAN /\ gap' \in BOOLEAN
  BY DEF FifoInv, FifoTypeOK, TypeOK
<1>3. FifoTypeOK'
  <2>1. lost' \in BOOLEAN
    BY <1>1, <1>2
  <2> QED BY <1>1, <2>1 DEF FifoInv, FifoTypeOK
<1>4. PipeInv' /\ WriteFits'
  BY <1>1 DEF FifoInv, PipeInv, WriteFits
<1>5. LineInv'
  <2> USE <1>1 DEF FifoInv
  <2>1. CASE Enter
    <3>1. /\ pc = "call" /\ pc' = "test" /\ done' = FALSE
          /\ UNCHANGED <<vals, gap, stalled>>
      BY <2>1 DEF Enter, dataVars, histVars
    <3>2. sp' = "fetch"
      BY <2>1 DEF Csv, Enter, Return
    <3> QED BY <3>1, <3>2 DEF LineInv, NewLine
  <2>2. CASE FetchStep /\ ~DropFirst
    <3>1. UNCHANGED <<vals, gap>> /\ pc \notin {"call", "ret"}
      BY <2>2 DEF FetchStep, Test, CopyWord, Stamp, Check, DropSecond, Clear,
         dataVars, histVars
    <3>2. ~done /\ ~NewLine
      BY <3>1 DEF LineInv, NewLine
    <3>3. done' = done
      BY <2>2, FifoFetchesCsv DEF FetchStep, Test, CopyWord, Stamp, Check,
         DropSecond, Clear, FifoTypeOK, TypeOK
    <3>4. sp' = "fetch"
      BY <3>1 DEF Csv, Return
    <3> QED BY <3>1, <3>2, <3>3, <3>4 DEF LineInv, NewLine
  <2>3. CASE DropFirst
    <3>1. vals' = vals /\ gap' = TRUE /\ done' = done /\ pc = "drop0"
      BY <2>3 DEF DropFirst
    <3>2. sp' = "fetch" /\ ~done
      BY <3>1 DEF Csv, Return, LineInv
    <3> QED BY <3>1, <3>2 DEF LineInv, NewLine
  <2>4. CASE Emit(CsvKeeps)
    <3>1. Emit(TRUE)
      BY <2>4, AlwaysKeeps
    <3>2. /\ pc = "emit" /\ gap' = FALSE /\ done' = TRUE
          /\ vals' = [words |-> rx_buff, usec |-> usec] /\ stalled' = stalled
      BY <3>1 DEF Emit
    <3>3. pc' = "ret"
      BY <3>1, <3>2, FifoFetchesCsv DEF Emit, EndOfBuffer, EndOfScan
    <3>4. sp' = "fetch"
      BY <3>2 DEF Csv, Return
    <3>5. ~NewLine
      BY <3>2 DEF NewLine
    <3>6. ~stalled => rx_buff = Block(usec) /\ written < usec
      BY <3>2 DEF IInv, EmitInv, OlderThan
    <3>7. ~stalled /\ ~lost' => usec = written + 1
      <4> SUFFICES ASSUME ~stalled, ~lost' PROVE usec = written + 1
        OBVIOUS
      <4>1. ~lost /\ ~gap
        BY DEF LineInv
      <4>2. vals.usec = written
        BY <3>5, <4>1 DEF LineInv
      <4> QED BY <3>2, <4>1, <4>2 DEF IInv, GapInv, NoSilentLoss
    <3> QED BY <3>2, <3>3, <3>4, <3>6, <3>7 DEF LineInv, NewLine
  <2>5. CASE Return
    <3>1. pc = "ret" /\ pc' = "call" /\ UNCHANGED <<done, vals, gap, stalled>>
      BY <2>5 DEF Return, dataVars, histVars
    <3>2. sp' = IF done THEN "poll" ELSE "top"
      BY <3>1 DEF Csv, Enter, FetchStep, Test, CopyWord, Stamp, Check,
         DropSecond, DropFirst, Clear, Emit
    <3>3. done \in BOOLEAN
      BY DEF FifoTypeOK, TypeOK
    <3>4. CASE done
      BY <3>1, <3>2, <3>4 DEF LineInv, NewLine
    <3>5. CASE ~done
      BY <3>1, <3>2, <3>5 DEF LineInv, NewLine
    <3> QED BY <3>4, <3>5
  <2> QED BY <2>1, <2>2, <2>3, <2>4, <2>5 DEF Csv
<1> QED BY <1>3, <1>4, <1>5

-----------------------------------------------------------------------------
(* The theorems.                                                           *)

(* The line written last stays older than what is still to be taken.       *)
LEMMA WrittenOlder ==
  ASSUME FifoInv, [FifoNext]_allVars, ~Write
  PROVE  OlderThan(written)'
<1>1. written' = written
  BY DEF FifoNext, DmaStep, Program, World, Open, OpenFails, Again, Csv, Poll,
     BrokenPipe, Close, ReaderOpens, ReaderReads, ReaderCloses, allVars,
     fifoVars
<1>2. PICK w \in Nat : w = written
  BY DEF FifoInv, FifoTypeOK
<1>3. OlderThan(w) /\ IInv /\ [Next]_vars
  BY <1>2, FifoStep DEF FifoInv
<1>4. OlderThan(w)'
  BY <1>3, OlderStep
<1>5. w = written'
  BY <1>1, <1>2
<1> QED BY <1>4, <1>5 DEF OlderThan

(* No step of the loop, of the DMA or of a reader breaks the invariant.    *)
THEOREM FifoInvNext == FifoInv /\ [FifoNext]_allVars => FifoInv'
<1> SUFFICES ASSUME FifoInv, [FifoNext]_allVars PROVE FifoInv'
  OBVIOUS
<1>1. IInv' /\ TypeOK'
  BY FifoStep, IInvNext DEF FifoInv, IInv
<1>2. OlderThan(written)'
  BY WrittenOlder, WriteStep
<1>3. FifoTypeOK' /\ LineInv' /\ PipeInv' /\ WriteFits'
  <2>1. CASE UNCHANGED allVars
    <3>1. UNCHANGED <<vars, fifoVars>>
      BY <2>1 DEF allVars
    <3> QED BY <1>1, <3>1 DEF FifoInv, FifoTypeOK, LineInv, NewLine, PipeInv,
               WriteFits, Fitting, vars, loopVars, dataVars, histVars,
               fifoVars, loopMain, world
  <2>2. CASE FifoNext
    BY <1>1, <2>1, <2>2, LoopStep, CloseStep, WriteStep, WorldStep, DmaKeeps,
       CsvStep DEF FifoNext, Program, OpenFails
  <2> QED BY <2>1, <2>2
<1> QED BY <1>1, <1>2, <1>3 DEF FifoInv

(* The inductive invariant holds in every reachable state.                 *)
THEOREM FifoInvariance == FifoSpec => []FifoInv
  BY FifoInitInv, FifoInvNext, PTL DEF FifoSpec

(* The main loop keeps its descriptor and the pipe within their bounds.    *)
THEOREM FifoTypeCorrect == FifoSpec => []FifoTypeOK
<1>1. FifoInv => FifoTypeOK
  BY DEF FifoInv
<1> QED BY FifoInvariance, <1>1, PTL

(* Every line do_streaming writes is one whole block and the successor of  *)
(* the line before it, unless the loss in between is on record (stalls of  *)
(* the program excepted), whatever readers and the DMA do.                 *)
THEOREM LinesFollow == FifoSpec => []LineSuccessor
<1>1. FifoInv => LineSuccessor
  BY DEF FifoInv, LineInv, NewLine, LineSuccessor
<1> QED BY FifoInvariance, <1>1, PTL

(* write_fifo never writes to a full FIFO.                                 *)
THEOREM WritesFit == FifoSpec => []WriteFits
<1>1. FifoInv => WriteFits
  BY DEF FifoInv
<1> QED BY FifoInvariance, <1>1, PTL

(* A reader gets pages of lines in their order, cut off but never mixed.   *)
THEOREM ReadersSeeOrder == FifoSpec => PagesInOrder
<1>1. FifoInv /\ [FifoNext]_allVars =>
        [reader = "open" /\ reader' = "open" /\ Len(pipe') < Len(pipe)
         /\ got # Nothing => InOrder(got, got')]_allVars
  <2> SUFFICES ASSUME FifoInv, FifoNext, reader = "open", reader' = "open",
                      Len(pipe') < Len(pipe), got # Nothing
               PROVE  InOrder(got, got')
    BY DEF allVars, fifoVars, world
  <2>0. Len(pipe) \in Nat
    BY LenProperties DEF FifoInv, FifoTypeOK
  <2>1. pipe' # pipe
    BY <2>0
  <2>2. ~Write
    <3> SUFFICES ASSUME Write PROVE FALSE
      OBVIOUS
    <3>1. pipe' = pipe \o Stored /\ pipe \in Seq(Page)
      BY DEF Write, FifoInv, FifoTypeOK
    <3>2. Stored \in Seq(Page) /\ Fitting \in Nat /\ Len(Stored) = Fitting
      BY StoredPages DEF FifoInv
    <3>3. Len(pipe') = Len(pipe) + Fitting
      BY <3>1, <3>2, ConcatProperties
    <3> QED BY <2>0, <3>2, <3>3
  <2>3. ReaderReads
    BY <2>1, <2>2
    DEF FifoNext, DmaStep, Program, World, Open, OpenFails, Again,
       Csv, Poll, BrokenPipe, Close, ReaderOpens, ReaderCloses, allVars,
       fifoVars, world
  <2>4. pipe # <<>> /\ got' = pipe[1]
    BY <2>3, FrontPage DEF ReaderReads, FifoInv
  <2> QED BY <2>4 DEF FifoInv, PipeInv
<1> QED BY FifoInvariance, <1>1, PTL DEF FifoSpec, PagesInOrder

(* Seen from the buffers, the loop and its readers change nothing: the     *)
(* streamer with -S still implements the feed of whole blocks in order.    *)
THEOREM FifoFeeds == FifoSpec => ImplementsFeed
<1>1. FifoInit => Feed!Init
  BY FeedInit DEF FifoInit
<1>2. FifoInv /\ [FifoNext]_allVars => [Feed!Next]_(Feed!vars)
  BY FifoStep, FeedNext DEF FifoInv
<1> QED BY FifoInvariance, <1>1, <1>2, PTL DEF FifoSpec, ImplementsFeed,
           Feed!Spec

-----------------------------------------------------------------------------
(* A reader is served, and a slow one does not keep the program from the   *)
(* buffers.  The hypotheses are those of FlagsAreServed in PingPong_proofs:*)
(* that the program can move, and that memcpy returns.                     *)

(* do_streaming is closed only at the top of its loop, and when it is dead.*)
FdInv ==
  /\ fifo_fd = 0 => sp \in {"top", "dead"}
  /\ sp = "dead" => fifo_fd = 0

(* The kernel closes the descriptor of a dead program, and the program its *)
(* own one where it goes back to the top.                                  *)
LEMMA FdInvariance == FifoSpec => []FdInv
<1>1. FifoInit => FdInv
  BY DEF FifoInit, FdInv
<1>2. FdInv /\ [FifoNext]_allVars => FdInv'
  BY DEF FdInv, FifoNext, DmaStep, Program, World, Open, OpenFails, Again, Csv,
     Poll, Write, BrokenPipe, Close, ReaderOpens, ReaderReads, ReaderCloses,
     allVars, fifoVars, loopMain
<1> QED BY <1>1, <1>2, PTL DEF FifoSpec

(* A reader waits at a FIFO that is closed.                                *)
Waiting == reader = "open" /\ fifo_fd = 0 /\ sp # "dead"

(* The flag b is set while the FIFO is open, and the program is at s in    *)
(* do_streaming, or at p in adc_stream_csv, looking at the buffer m.       *)
Held(b)         == states[b] = 1 /\ fifo_fd = 1
At(b, s)        == Held(b) /\ sp = s /\ pc = "call"
Line(b, p)      == Held(b) /\ sp = "fetch" /\ pc = p
LineAt(b, p, m) == Line(b, p) /\ n = m
NewScan(b)      == LineAt(b, "test", 0)

Released(b) == states[b] = 0 \/ fifo_fd = 0

(* From P the program goes to Q, and nobody takes it anywhere else; when   *)
(* it copies, with its last word.                                          *)
Leads(P, Q) ==
  /\ P => fifo_fd = 1 /\ Pending
  /\ FifoInv /\ P /\ [FifoNext]_allVars => (P \/ Q)'
  /\ FifoInv /\ P /\ <<Program>>_allVars => Q'
Ends(P, Q) ==
  /\ P => Copying
  /\ FifoInv /\ P /\ [FifoNext]_allVars => (P \/ Q)'

FifoScheduled == [][FifoNext]_allVars /\ WF_allVars(Program)
FifoNeverStuck ==
  [](Waiting \/ (fifo_fd = 1 /\ Pending) => ENABLED <<Program>>_allVars)

(* Neither the DMA nor a reader moves the program.                         *)
LEMMA FifoKeeps ==
  ASSUME FifoInv, [FifoNext]_allVars, ~ Program, NEW b \in Buf, states[b] = 1
  PROVE  states'[b] = 1 /\ UNCHANGED <<pc, n, done, sp, fifo_fd>>
<1>1. IInv
  BY DEF FifoInv
<1>2. CASE DmaStep
  BY <1>1, <1>2
  DEF DmaStep, Dma, DmaUsec, DmaWord, DmaState, fifoVars, loopMain, loopVars,
      IInv, TypeOK
<1>3. CASE World \/ UNCHANGED allVars
  BY <1>3 DEF World, ReaderOpens, ReaderReads, ReaderCloses, allVars, vars,
     fifoVars, loopMain, dmaVars, loopVars
<1> QED BY <1>2, <1>3 DEF FifoNext

(* A round of the main loop.                                               *)
LEMMA LoopRound ==
  ASSUME FifoInv, Program, fifo_fd = 1, sp # "fetch",
         NEW b \in Buf, states[b] = 1
  PROVE  /\ pc' = pc /\ n' = n /\ states'[b] = 1
         /\ sp = "top"   => sp' = "fetch" /\ fifo_fd' = 1
         /\ sp = "poll"  => sp' \in {"write", "close"} /\ fifo_fd' = 1
         /\ sp = "write" => (sp' = "top" /\ fifo_fd' = 1) \/ fifo_fd' = 0
         /\ sp = "close" => fifo_fd' = 0
         /\ sp # "dead"
  BY DEF Program, Open, OpenFails, Again, Csv, Poll, Write, BrokenPipe, Close,
     allVars, vars, dmaVars, loopVars

(* A step of adc_stream_csv is one of PingPong.                            *)
LEMMA CsvMoves ==
  ASSUME FifoInv, Program, sp = "fetch"
  PROVE  /\ Cpu /\ fifo_fd' = fifo_fd
         /\ pc # "ret" => sp' = sp
         /\ pc = "ret" => sp' \in {"poll", "top"} /\ pc' = "call"
<1>1. Csv
  BY DEF Program, Open, OpenFails, Again, Poll, Write, BrokenPipe, Close
<1>2. Emit(CsvKeeps) => \E keep \in BOOLEAN : Emit(keep)
  BY DEF CsvKeeps
<1>3. Cpu
  BY <1>1, <1>2 DEF Csv, Cpu
<1>4. pc = "ret" => Return
  BY <1>3 DEF Cpu, FetchStep, Enter, Test, CopyWord, Stamp, Check, DropSecond,
     DropFirst, Clear, Emit
<1> QED BY <1>1, <1>3, <1>4 DEF Csv, Return, Enter, FetchStep, Test, CopyWord,
           Stamp, Check, DropSecond, DropFirst, Clear, Emit

(* What it does with a flag that is set, to and from the test...           *)
LEMMA CsvScan ==
  ASSUME FifoInv, Program, sp = "fetch", NEW b \in Buf, states[b] = 1,
         pc \in {"call", "ret", "test", "emit"}
  PROVE  /\ states'[b] = 1 /\ fifo_fd' = fifo_fd
         /\ pc # "ret" => sp' = "fetch"
         /\ pc = "ret" => sp' \in {"poll", "top"} /\ pc' = "call"
         /\ pc = "call" => pc' = "test" /\ n' = 0
         /\ pc = "test" /\ n = b => pc' = "copy" /\ n' = b
         /\ pc = "test" /\ n = 0 =>
              (pc' = "copy" /\ n' = 0) \/ (pc' = "test" /\ n' = 1)
         /\ pc = "test" /\ n = 1 => (pc' = "copy" /\ n' = 1) \/ pc' = "ret"
         /\ pc = "emit" /\ n = 0 => (pc' = "test" /\ n' = 1) \/ pc' = "ret"
         /\ pc = "emit" /\ n = 1 => pc' = "ret"
<1>1. IInv /\ (pc \in {"test", "emit"} => ~done)
  BY DEF FifoInv, LineInv
<1>2. Cpu
  BY CsvMoves
<1>3. pc = "test" /\ n = 1 => pc' # "test"
  BY <1>2, FifoFetchesCsv DEF Cpu, FetchStep, Enter, Test, CopyWord, Stamp,
     Check, DropSecond, DropFirst, Clear, Emit, Return, EndOfBuffer, EndOfScan
<1>4. pc = "emit" /\ n = 1 => pc' = "ret"
  BY <1>2, FifoFetchesCsv DEF Cpu, FetchStep, Enter, Test, CopyWord, Stamp,
     Check, DropSecond, DropFirst, Clear, Emit, Return, EndOfBuffer, EndOfScan
<1> QED BY <1>1, <1>2, <1>3, <1>4, CsvMoves, ScanStep, FifoFetchesCsv

(* ... and from the copy to the store that answers it.                     *)
LEMMA CsvTake ==
  ASSUME FifoInv, Program, sp = "fetch", NEW b \in Buf, states[b] = 1,
         pc \in {"copy", "stamp", "check", "clear", "drop1", "drop0"}
  PROVE  /\ sp' = "fetch" /\ fifo_fd' = fifo_fd
         /\ pc = "copy" => /\ pc' \in {"copy", "stamp"}
                           /\ n' = n /\ states'[b] = 1
         /\ pc = "stamp" => pc' = "check" /\ n' = n /\ states'[b] = 1
         /\ pc = "check" /\ n = b =>
              pc' \in {"clear", "drop1"} /\ n' = n /\ states'[b] = 1
         /\ pc = "check" /\ n # b => pc' = "drop1" /\ states'[b] = 1
         /\ pc = "clear" /\ n = b => states'[b] = 0
         /\ pc = "clear" /\ n # b => pc' = "emit" /\ n' = n /\ states'[b] = 1
         /\ pc = "drop1" /\ b = 1 => states'[b] = 0
         /\ pc = "drop1" /\ b = 0 => pc' = "drop0" /\ states'[b] = 1
         /\ pc = "drop0" /\ b = 0 => states'[b] = 0
         /\ pc = "drop0" /\ b = 1 => states'[b] = 1 /\ pc' = "ret"
<1>1. IInv
  BY DEF FifoInv
<1> QED BY <1>1, CsvMoves, TakeStep, FifoFetchesCsv

(* The flag of the first buffer: the loop may be past it.                  *)
LEMMA FirstReleased ==
  FifoScheduled /\ FifoNeverStuck /\ MemcpyReturns /\ []FifoInv /\ []FdInv
    => (states[0] = 1 /\ fifo_fd = 1 ~> Released(0))
<1> USE DEF Leads, Ends, Copying, Pending, Held, At, Line, LineAt, NewScan,
            Released, Buf
<1>1. Leads(At(0, "top"), Line(0, "call"))
  BY FifoKeeps, LoopRound
<1>2. Leads(Line(0, "call"), NewScan(0))
  BY FifoKeeps, CsvScan
<1>3. Leads(Line(0, "ret"), At(0, "poll") \/ At(0, "top"))
  BY FifoKeeps, CsvScan
<1>4. Leads(NewScan(0), LineAt(0, "copy", 0))
  BY FifoKeeps, CsvScan
<1>5. Ends(LineAt(0, "copy", 0), LineAt(0, "stamp", 0))
  BY FifoKeeps, CsvTake
<1>6. Leads(LineAt(0, "stamp", 0), LineAt(0, "check", 0))
  BY FifoKeeps, CsvTake
<1>7. Leads(LineAt(0, "check", 0), LineAt(0, "clear", 0) \/ Line(0, "drop1"))
  BY FifoKeeps, CsvTake
<1>8. Leads(LineAt(0, "clear", 0), Released(0))
  BY FifoKeeps, CsvTake
<1>9. Leads(LineAt(0, "emit", 0), LineAt(0, "test", 1) \/ Line(0, "ret"))
  BY FifoKeeps, CsvScan
<1>10. Leads(LineAt(0, "test", 1), LineAt(0, "copy", 1) \/ Line(0, "ret"))
  BY FifoKeeps, CsvScan
<1>11. Ends(LineAt(0, "copy", 1), LineAt(0, "stamp", 1))
  BY FifoKeeps, CsvTake
<1>12. Leads(LineAt(0, "stamp", 1), LineAt(0, "check", 1))
  BY FifoKeeps, CsvTake
<1>13. Leads(LineAt(0, "check", 1), Line(0, "drop1"))
  BY FifoKeeps, CsvTake
<1>14. Leads(LineAt(0, "clear", 1), LineAt(0, "emit", 1))
  BY FifoKeeps, CsvTake
<1>15. Leads(LineAt(0, "emit", 1), Line(0, "ret"))
  BY FifoKeeps, CsvScan
<1>16. Leads(Line(0, "drop1"), Line(0, "drop0"))
  BY FifoKeeps, CsvTake
<1>17. Leads(Line(0, "drop0"), Released(0))
  BY FifoKeeps, CsvTake
<1>18. Leads(At(0, "poll"), At(0, "write") \/ At(0, "close"))
  BY FifoKeeps, LoopRound
<1>19. Leads(At(0, "write"), At(0, "top") \/ Released(0))
  BY FifoKeeps, LoopRound
<1>20. Leads(At(0, "close"), Released(0))
  BY FifoKeeps, LoopRound
<1>21. FifoInv /\ FdInv /\ states[0] = 1 /\ fifo_fd = 1
         => At(0, "top") \/ Line(0, "call") \/ Line(0, "ret") \/ NewScan(0)
            \/ LineAt(0, "copy", 0) \/ LineAt(0, "stamp", 0)
            \/ LineAt(0, "check", 0) \/ LineAt(0, "clear", 0)
            \/ LineAt(0, "emit", 0) \/ LineAt(0, "test", 1)
            \/ LineAt(0, "copy", 1) \/ LineAt(0, "stamp", 1)
            \/ LineAt(0, "check", 1) \/ LineAt(0, "clear", 1)
            \/ LineAt(0, "emit", 1) \/ Line(0, "drop1") \/ Line(0, "drop0")
            \/ At(0, "poll") \/ At(0, "write") \/ At(0, "close")
  BY DEF FifoInv, FifoTypeOK, IInv, TypeOK, LineInv, FdInv
<1> HIDE DEF Copying, Pending, Held, At, Line, LineAt, NewScan, Released, Buf
<1> QED BY <1>1, <1>2, <1>3, <1>4, <1>5, <1>6, <1>7, <1>8, <1>9, <1>10,
           <1>11, <1>12, <1>13, <1>14, <1>15, <1>16, <1>17, <1>18, <1>19,
           <1>20, <1>21, PTL
   DEF Leads, Ends, FifoScheduled, FifoNeverStuck, MemcpyReturns

(* The flag of the second buffer: a look at the first one may come before, *)
(* and after a return a round of do_streaming, with or without a line.     *)
LEMMA SecondReleased ==
  FifoScheduled /\ FifoNeverStuck /\ MemcpyReturns /\ []FifoInv /\ []FdInv
    => (states[1] = 1 /\ fifo_fd = 1 ~> Released(1))
<1> USE DEF Leads, Ends, Copying, Pending, Held, At, Line, LineAt, NewScan,
            Released, Buf
<1>1. Leads(At(1, "top"), Line(1, "call"))
  BY FifoKeeps, LoopRound
<1>2. Leads(Line(1, "call"), NewScan(1))
  BY FifoKeeps, CsvScan
<1>3. Leads(Line(1, "ret"), At(1, "poll") \/ At(1, "top"))
  BY FifoKeeps, CsvScan
<1>4. Leads(NewScan(1), LineAt(1, "test", 1) \/ LineAt(1, "copy", 0))
  BY FifoKeeps, CsvScan
<1>5. Leads(LineAt(1, "test", 1), LineAt(1, "copy", 1))
  BY FifoKeeps, CsvScan
<1>6. Ends(LineAt(1, "copy", 0), LineAt(1, "stamp", 0))
  BY FifoKeeps, CsvTake
<1>7. Leads(LineAt(1, "stamp", 0), LineAt(1, "check", 0))
  BY FifoKeeps, CsvTake
<1>8. Leads(LineAt(1, "check", 0), Line(1, "drop1"))
  BY FifoKeeps, CsvTake
<1>9. Leads(Line(1, "drop1"), Released(1))
  BY FifoKeeps, CsvTake
<1>10. Leads(LineAt(1, "clear", 0), LineAt(1, "emit", 0))
  BY FifoKeeps, CsvTake
<1>11. Leads(LineAt(1, "emit", 0), LineAt(1, "test", 1) \/ Line(1, "ret"))
  BY FifoKeeps, CsvScan
<1>12. Ends(LineAt(1, "copy", 1), LineAt(1, "stamp", 1))
  BY FifoKeeps, CsvTake
<1>13. Leads(LineAt(1, "stamp", 1), LineAt(1, "check", 1))
  BY FifoKeeps, CsvTake
<1>14. Leads(LineAt(1, "check", 1), LineAt(1, "clear", 1) \/ Line(1, "drop1"))
  BY FifoKeeps, CsvTake
<1>15. Leads(LineAt(1, "clear", 1), Released(1))
  BY FifoKeeps, CsvTake
<1>16. Leads(LineAt(1, "emit", 1), Line(1, "ret"))
  BY FifoKeeps, CsvScan
<1>17. Leads(Line(1, "drop0"), Line(1, "ret"))
  BY FifoKeeps, CsvTake
<1>18. Leads(At(1, "poll"), At(1, "write") \/ At(1, "close"))
  BY FifoKeeps, LoopRound
<1>19. Leads(At(1, "write"), At(1, "top") \/ Released(1))
  BY FifoKeeps, LoopRound
<1>20. Leads(At(1, "close"), Released(1))
  BY FifoKeeps, LoopRound
<1>21. FifoInv /\ FdInv /\ states[1] = 1 /\ fifo_fd = 1
         => At(1, "top") \/ Line(1, "call") \/ Line(1, "ret") \/ NewScan(1)
            \/ LineAt(1, "test", 1) \/ LineAt(1, "copy", 0)
            \/ LineAt(1, "stamp", 0) \/ LineAt(1, "check", 0)
            \/ Line(1, "drop1") \/ LineAt(1, "clear", 0)
            \/ LineAt(1, "emit", 0) \/ LineAt(1, "copy", 1)
            \/ LineAt(1, "stamp", 1) \/ LineAt(1, "check", 1)
            \/ LineAt(1, "clear", 1) \/ LineAt(1, "emit", 1)
            \/ Line(1, "drop0") \/ At(1, "poll") \/ At(1, "write")
            \/ At(1, "close")
  BY DEF FifoInv, FifoTypeOK, IInv, TypeOK, LineInv, FdInv
<1> HIDE DEF Copying, Pending, Held, At, Line, LineAt, NewScan, Released, Buf
<1> QED BY <1>1, <1>2, <1>3, <1>4, <1>5, <1>6, <1>7, <1>8, <1>9, <1>10,
           <1>11, <1>12, <1>13, <1>14, <1>15, <1>16, <1>17, <1>18, <1>19,
           <1>20, <1>21, PTL
   DEF Leads, Ends, FifoScheduled, FifoNeverStuck, MemcpyReturns

(* While the FIFO is open every flag is answered, however readers come, go *)
(* and read, as long as no step of the program blocks.                     *)
THEOREM FlagsTakenWhileOpen ==
  FifoSpec /\ FifoNeverStuck /\ MemcpyReturns => TakenWhileOpen
<1>1. FifoSpec => FifoScheduled
  BY PTL DEF FifoSpec, FifoScheduled
<1> QED BY <1>1, FifoInvariance, FdInvariance, FirstReleased, SecondReleased,
           PTL
   DEF TakenWhileOpen, Released

(* A reader that waits gets the FIFO opened, unless it goes away or the    *)
(* program is killed by an earlier one's going.                            *)
THEOREM ReadersAreServed == FifoSpec /\ FifoNeverStuck => ReaderServed
<1> DEFINE Opened == fifo_fd = 1 \/ reader = "none" \/ sp = "dead"
<1>1. FifoInv /\ FdInv /\ Waiting /\ [FifoNext]_allVars
        => (Waiting \/ Opened)'
  BY DEF FifoInv, FifoTypeOK, FdInv, Waiting, FifoNext, DmaStep, Program,
     World, Open, OpenFails, Again, Csv, Poll, Write, BrokenPipe, Close,
     ReaderOpens, ReaderReads, ReaderCloses, allVars, fifoVars, loopMain, world
<1>2. FifoInv /\ FdInv /\ Waiting /\ <<Program>>_allVars => Opened'
  BY DEF FifoInv, FifoTypeOK, FdInv, Waiting, Program, Open, OpenFails, Again,
     Csv, Poll, Write, BrokenPipe, Close
<1> HIDE DEF Opened
<1>3. FifoSpec /\ FifoNeverStuck => (Waiting ~> Opened)
  BY <1>1, <1>2, FifoInvariance, FdInvariance, PTL DEF FifoSpec, FifoNeverStuck
<1> QED BY <1>3, PTL DEF Opened, Waiting, ReaderServed
=============================================================================
