----------------------------- MODULE StreamFifo -----------------------------
(***************************************************************************)
(* The main loop of rpi_adc_stream.c with option -S: do_streaming opens    *)
(* the FIFO when somebody reads it, fetches a block as a line of CSV from  *)
(* the ping-pong buffers (PingPong with Fetch = "csv") and writes it.      *)
(*                                                                         *)
(* The kernel's FIFO is modelled from its use: a pipe of Slots pages that  *)
(* forgets its contents when no end is open.  A line takes Pages pages; a  *)
(* non-blocking write stores what fits (all or nothing for a line of one   *)
(* page).  Readers come and go as they like.                               *)
(***************************************************************************)
EXTENDS PingPong, Sequences

CONSTANTS
  Slots,     \* pages the pipe can hold, F_GETPIPE_SZ
  Pages,     \* pages of a line: 1, or 2 when it is longer than PIPE_BUF
  lockstep   \* option -L

ASSUME SlotsAssumption    == Slots \in Nat \ {0}
ASSUME PagesAssumption    == Pages \in 1..2
ASSUME LockstepAssumption == lockstep \in BOOLEAN
ASSUME FifoFetchesCsv     == Fetch = "csv"

VARIABLES
  sp,        \* where do_streaming is; "dead" after SIGPIPE
  fifo_fd,   \* 0, or 1 for an open descriptor
  fifo_size,
  reader,    \* "none" or "open"
  pipe,      \* pages in the FIFO, each [line, part, late]; history: late
             \* when the program was stalled as it formatted the line
  got,       \* history: the page read last, since the reader opened
  written,   \* history: the line written last
  lost       \* history: since then a line was given up, with a message or
             \* counted, or discarded in lockstep

loopMain  == <<sp, fifo_fd, fifo_size>>
world     == <<reader, pipe, got>>
fifoVars  == <<loopMain, world, written, lost>>
allVars   == <<vars, fifoVars>>

Nothing == [line |-> 0, part |-> Pages, late |-> FALSE]

FifoInit ==
  /\ Init
  /\ sp = "top" /\ fifo_fd = 0 /\ fifo_size = 0
  /\ reader = "none" /\ pipe = <<>> /\ got = Nothing
  /\ written = 0 /\ lost = FALSE

(* "Return the free space in FIFO": fcntl(fd, F_GETPIPE_SZ)                *)
fifo_freespace == Slots

-----------------------------------------------------------------------------
(* do_streaming and what it calls.                                         *)

(* Mutants: the test of open's result inverted; -1 not mapped to 0; the    *)
(* next fetch delayed until the FIFO is drained; a line that could not be  *)
(* written forgotten; poll's answer about room ignored; a line that was    *)
(* stored in part written again from its beginning.                        *)
OpenInverted ==
  /\ sp = "top" /\ fifo_fd = 0
  /\ reader = "none"
  /\ fifo_fd' = 1 /\ fifo_size' = fifo_freespace
  /\ sp' = "fetch"
  /\ UNCHANGED <<vars, world, written, lost>>

OpenFailsMinus ==
  /\ sp = "top" /\ fifo_fd = 0
  /\ reader = "none"
  /\ fifo_fd' = -1
  /\ UNCHANGED <<vars, sp, fifo_size, world, written, lost>>

AgainWhenDrained ==
  /\ sp = "top" /\ fifo_fd = 1 /\ pipe = <<>>
  /\ sp' = "fetch"
  /\ UNCHANGED <<vars, fifo_fd, fifo_size, world, written, lost>>

PollForgets ==
  /\ sp = "poll"
  /\ sp' = IF Len(pipe) < Slots /\ reader = "open" THEN "write" ELSE "top"
  /\ UNCHANGED <<vars, fifo_fd, fifo_size, world, written, lost>>

PollIgnoresRoom ==
  /\ sp = "poll"
  /\ sp' = IF reader = "open" THEN "write" ELSE "close"
  /\ UNCHANGED <<vars, fifo_fd, fifo_size, world, written, lost>>

(* open(fname, O_WRONLY | O_NONBLOCK) fails when nobody reads              *)
Open ==
  /\ sp = "top" /\ fifo_fd = 0
  /\ reader = "open"
  /\ fifo_fd' = 1 /\ fifo_size' = fifo_freespace
  /\ sp' = "fetch"
  /\ UNCHANGED <<vars, world, written, lost>>

OpenFails ==
  /\ sp = "top" /\ fifo_fd = 0
  /\ reader = "none"
  /\ UNCHANGED allVars

Again ==
  /\ sp = "top" /\ fifo_fd = 1
  /\ sp' = "fetch"
  /\ UNCHANGED <<vars, fifo_fd, fifo_size, world, written, lost>>

(* adc_stream_csv, one access after the other                              *)
CsvKeeps == ~lockstep \/ fifo_freespace >= fifo_size

Csv ==
  /\ sp = "fetch"
  /\ \/ /\ Enter \/ FetchStep \/ Emit(CsvKeeps)
        /\ sp' = sp
     \/ /\ Return
        /\ sp' = IF done THEN "poll" ELSE "top"
  /\ lost' = (lost \/ gap')
  /\ UNCHANGED <<fifo_fd, fifo_size, world, written>>

(* write_fifo: the pipe is writable when a page is free, in error without  *)
(* a reader                                                                *)
Poll ==
  /\ sp = "poll"
  /\ sp' = IF Len(pipe) < Slots /\ reader = "open" THEN "write" ELSE "close"
  /\ UNCHANGED <<vars, fifo_fd, fifo_size, world, written, lost>>

Fitting == IF Pages <= Slots - Len(pipe) THEN Pages ELSE Slots - Len(pipe)

Stored ==
  [p \in 1..Fitting |-> [line |-> vals.usec, part |-> p, late |-> stalled]]

WriteAgain ==
  /\ sp = "write"
  /\ reader = "open"
  /\ pipe' = pipe \o Stored
  /\ IF Fitting < Pages
     THEN sp' = "poll" /\ UNCHANGED <<written, lost>>
     ELSE sp' = "top" /\ written' = vals.usec /\ lost' = FALSE
  /\ UNCHANGED <<vars, fifo_fd, fifo_size, reader, got>>

(* its result, which is never 0, is not looked at                          *)
Write ==
  /\ sp = "write"
  /\ reader = "open"
  /\ pipe' = pipe \o Stored
  /\ written' = vals.usec
  /\ lost' = FALSE
  /\ sp' = "top"
  /\ UNCHANGED <<vars, fifo_fd, fifo_size, reader, got>>

(* The reader closed the FIFO after poll returned: SIGPIPE, for which the  *)
(* program has no handler.                                                 *)
BrokenPipe ==
  /\ sp = "write"
  /\ reader = "none"
  /\ sp' = "dead"
  /\ fifo_fd' = 0 /\ pipe' = <<>>
  /\ UNCHANGED <<vars, fifo_size, reader, got, written, lost>>

(* "Stopped streaming"                                                     *)
Close ==
  /\ sp = "close"
  /\ fifo_fd' = 0
  /\ pipe' = IF reader = "none" THEN <<>> ELSE pipe
  /\ lost' = TRUE
  /\ sp' = "top"
  /\ UNCHANGED <<vars, fifo_size, reader, got, written>>

(* The DMA does not notice any of this, not even the program's death.      *)
DmaStep == Dma /\ UNCHANGED fifoVars

Program ==
  \/ Open \/ OpenFails \/ Again \/ Csv \/ Poll \/ Write \/ BrokenPipe \/ Close

-----------------------------------------------------------------------------
(* Readers of the FIFO, outside the program.                               *)

ReaderOpens ==
  /\ reader = "none"
  /\ reader' = "open"
  /\ got' = Nothing
  /\ UNCHANGED <<vars, loopMain, pipe, written, lost>>

ReaderReads ==
  /\ reader = "open" /\ pipe # <<>>
  /\ got' = Head(pipe)
  /\ pipe' = Tail(pipe)
  /\ UNCHANGED <<vars, loopMain, reader, written, lost>>

ReaderCloses ==
  /\ reader = "open"
  /\ reader' = "none"
  /\ pipe' = IF fifo_fd = 0 THEN <<>> ELSE pipe
  /\ UNCHANGED <<vars, loopMain, got, written, lost>>

World == ReaderOpens \/ ReaderReads \/ ReaderCloses

FifoNext == DmaStep \/ Program \/ World

(* The program is scheduled again and again; nothing is asked of readers.  *)
FifoSpec == FifoInit /\ [][FifoNext]_allVars /\ WF_allVars(Program)
-----------------------------------------------------------------------------
(* Properties.                                                             *)

Page == [line : 0..MaxBlk, part : 1..Pages, late : BOOLEAN]

FifoTypeOK ==
  /\ TypeOK
  /\ sp \in {"top", "fetch", "poll", "write", "close", "dead"}
  /\ fifo_fd \in {0, 1} /\ fifo_size \in {0, Slots}
  /\ reader \in {"none", "open"}
  /\ pipe \in Seq(Page) /\ Len(pipe) <= Slots
  /\ got \in Page /\ written \in 0..MaxBlk /\ lost \in BOOLEAN

(* The line do_streaming is about to write is one whole block, newer than  *)
(* the line before it, and its successor unless the loss in between was    *)
(* counted as an overrun or announced with "Stopped streaming", however    *)
(* often readers come and go (stalls of the program as in PingPong).       *)
LineSuccessor ==
  sp \in {"poll", "write"} /\ ~stalled =>
    /\ vals.words = Block(vals.usec)
    /\ written < vals.usec
    /\ ~lost => vals.usec = written + 1

(* A line that poll found room for is not refused by write, whose result   *)
(* do_streaming could not tell from success.                               *)
WriteFits == sp = "write" => Fitting > 0

(* A waiting reader is served: the FIFO is opened for it, unless it leaves *)
(* or the program dies.                                                    *)
ReaderServed ==
  reader = "open" /\ fifo_fd = 0 /\ sp # "dead"
    ~> fifo_fd = 1 \/ reader = "none" \/ sp = "dead"

(* While the FIFO is open, a slow reader does not keep the program from    *)
(* taking the blocks out of the buffers: it never waits for the pipe.      *)
TakenWhileOpen ==
  /\ states[0] = 1 /\ fifo_fd = 1 ~> states[0] = 0 \/ fifo_fd = 0
  /\ states[1] = 1 /\ fifo_fd = 1 ~> states[1] = 0 \/ fifo_fd = 0

(* A line of more than PIPE_BUF bytes may be cut off where the pipe was    *)
(* full, and the next line follows in the middle of it.  This is all that  *)
(* can happen to it: after its first page a reader gets either the rest of *)
(* a line or the beginning of a newer one (or of one formatted in a stall  *)
(* of the program, of which nothing but that is known).                    *)
InOrder(p, q) ==
  \/ q.line = p.line /\ q.part = p.part + 1
  \/ q.part = 1 /\ (q.late \/ q.line > p.line)

PagesInOrder ==
  [][reader = "open" /\ reader' = "open" /\ Len(pipe') < Len(pipe)
     /\ got # Nothing => InOrder(got, got')]_allVars

-----------------------------------------------------------------------------
(* What comments and messages of the program say, and the code does not do.*)

(* "Write to FIFO, return 0 if no reader": the reader's going away is      *)
(* noticed in the result, and survived.                                    *)
SurvivesReader == sp # "dead"

(* "If in lockstep mode, discard new data if FIFO isn't empty".            *)
LockstepDiscards ==
  [][pc = "emit" /\ pc' # "emit" /\ lockstep /\ pipe # <<>>
       => vals' = vals]_allVars

-----------------------------------------------------------------------------
(* The inductive invariant behind these properties (StreamFifo_proofs).    *)

(* A line has been formatted and is not yet written.                       *)
NewLine ==
  \/ sp \in {"poll", "write"}
  \/ sp = "fetch" /\ pc = "ret" /\ done

(* How far the formatted block is ahead of the written one.                *)
LineInv ==
  /\ sp # "fetch" => pc = "call"
  /\ sp = "fetch" /\ pc \notin {"call", "ret"} => ~done
  /\ gap => lost
  /\ NewLine =>
       /\ ~gap
       /\ ~stalled => vals.words = Block(vals.usec) /\ written < vals.usec
       /\ ~stalled /\ ~lost => vals.usec = written + 1
  /\ ~NewLine /\ ~lost /\ sp \notin {"close", "dead"} =>
       vals.usec = written

(* The pages on their way, the one read last before them, follow each      *)
(* other as the reader will see them; the last one is of the last line.    *)
PipeInv ==
  /\ \A k \in 1..(Len(pipe) - 1) : InOrder(pipe[k], pipe[k + 1])
  /\ pipe # <<>> => pipe[Len(pipe)].line = written
  /\ reader = "open" /\ got # Nothing =>
       IF pipe = <<>> THEN got.line = written ELSE InOrder(got, pipe[1])

FifoInv ==
  /\ IInv /\ FifoTypeOK /\ OlderThan(written) /\ LineInv /\ PipeInv
  /\ WriteFits
=============================================================================
