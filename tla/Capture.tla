------------------------------ MODULE Capture -------------------------------
(***************************************************************************)
(* One block of samples, from the command line to the printed line: main   *)
(* of rpi_adc_stream.c without -S, -U and -T.  PWM, SPI, the DMA channels  *)
(* and dma_wait, which gives up after so many naps, run against the clock. *)
(*                                                                         *)
(* The hardware is modelled from how adc_dma_init sets it up.  In every    *)
(* period of the PWM channel A (control blocks 7-9) starts an SPI transfer *)
(* for which channel C (block 6) has the data, and a sample comes into the *)
(* SPI's receive FIFO.  All blocks of channel B (0-2) wait for a sample in *)
(* that FIFO, the time stamp's and the flag's too, so that the flag is set *)
(* when the sample after the last one has arrived.                         *)
(*                                                                         *)
(* Time is counted in ticks of the PWM.  The DMA is done before the next   *)
(* tick; usleep sleeps as long as asked, or longer.  Left out: rates that  *)
(* the SPI, at 1 MHz, cannot follow.                                       *)
(***************************************************************************)
EXTENDS CommandLine, Integers

CONSTANTS
  PWM_TICKS,   \* ticks per second, PWM_FREQ * 2
  PWM_VALUE,   \* length of the CNVST pulse: 2
  Patience,    \* naps of dma_wait: 10000
  Nap,         \* ticks of usleep(10)
  Late         \* bound: by how much usleep may be late

ASSUME CaptureAssumption ==
  /\ {PWM_TICKS, Patience, Nap} \subseteq Nat \ {0}
  /\ {PWM_VALUE, Late} \subseteq Nat

VARIABLES
  pc,        \* "options", "start", "nap", "poll", "stop", "csv", "terminate",
             \* "elsewhere" in another mode, "sigfpe"
  pwm_range,
  pwm,       \* it runs
  due,       \* ticks until the end of its period
  wake,      \* ticks until usleep may return; negative: late by
  naps,      \* n in dma_wait
  conv,      \* samples since the start
  rxfifo,    \* the SPI's receive FIFO
  cb,        \* control block of channel B: 0, 1, 2; 3: it has ended
  loading,   \* it has been done, and the next one is being loaded
  rxd1, states0,   \* dp->rxd1, dp->states[0]
  printed,   \* the line
  early      \* history: dma_wait has returned without its end or patience

hwVars   == <<pwm, due, conv, rxfifo, cb, loading, rxd1, states0>>
progVars == <<pc, pwm_range, wake, naps, printed, early>>
vars     == <<argsVars, progVars, hwVars>>

Init ==
  /\ ArgsInit
  /\ pc = "options" /\ pwm_range = 0 /\ wake = 0 /\ naps = 0
  /\ printed = <<>> /\ early = FALSE
  /\ pwm = FALSE /\ due = 0 /\ conv = 0 /\ rxfifo = <<>>
  /\ cb = 3 /\ loading = FALSE /\ rxd1 = <<>> /\ states0 = 0

-----------------------------------------------------------------------------
(* The program.                                                            *)

Options ==
  /\ pc = "options" /\ ReadOptions
  /\ UNCHANGED <<progVars, hwVars>>

Divide ==
  /\ pc = "options" /\ reading = "done"
  /\ IF sample_rate = 0
     THEN pc' = "sigfpe" /\ UNCHANGED pwm_range
     ELSE /\ pwm_range' = PWM_TICKS \div sample_rate
          /\ pc' = IF Mode = "single" THEN "start" ELSE "elsewhere"
  /\ UNCHANGED <<argsVars, wake, naps, printed, early, hwVars>>

(* adc_dma_init with single = 1, adc_stream_start, and into dma_wait       *)
Start ==
  /\ pc = "start"
  /\ cb' = 0 /\ pwm' = TRUE /\ due' = pwm_range
  /\ pc' = "nap" /\ naps' = Patience /\ wake' = Nap
  /\ UNCHANGED <<argsVars, pwm_range, printed, early, conv, rxfifo, loading,
                 rxd1, states0>>

Wake ==
  /\ pc = "nap" /\ wake <= 0
  /\ pc' = "poll"
  /\ UNCHANGED <<argsVars, pwm_range, wake, naps, printed, early, hwVars>>

(* dma_transfer_len: 0 at the end, and between two control blocks          *)
TransferLen == IF cb = 3 \/ loading THEN 0 ELSE 4

(* Mutant: a nap costs two of the patience.                                *)
PollTwice ==
  /\ pc = "poll"
  /\ IF TransferLen = 0 \/ naps <= 2
     THEN pc' = "stop" /\ UNCHANGED <<naps, wake>>
     ELSE pc' = "nap" /\ naps' = naps - 2 /\ wake' = Nap
  /\ early' = (TransferLen = 0 /\ cb # 3)
  /\ UNCHANGED <<argsVars, pwm_range, printed, hwVars>>

Poll ==
  /\ pc = "poll"
  /\ IF TransferLen = 0 \/ naps = 1
     THEN pc' = "stop" /\ UNCHANGED <<naps, wake>>
     ELSE pc' = "nap" /\ naps' = naps - 1 /\ wake' = Nap
  /\ early' = (TransferLen = 0 /\ cb # 3)
  /\ UNCHANGED <<argsVars, pwm_range, printed, hwVars>>

(* adc_stream_stop; stop_pwm sleeps longer than a transfer takes           *)
StopPwm ==
  /\ pc = "stop"
  /\ pwm' = FALSE
  /\ pc' = "csv"
  /\ UNCHANGED <<argsVars, pwm_range, wake, naps, printed, early, due, conv,
                 rxfifo, cb, loading, rxd1, states0>>

Waiting == rxfifo # <<>> /\ cb # 3   \* channel B has something to do
Block == [k \in 1..sample_count |-> IF k <= Len(rxd1) THEN rxd1[k] ELSE 0]

(* adc_stream_csv, whose second buffer is never filled                     *)
Csv ==
  /\ pc = "csv" /\ ~Waiting
  /\ printed' = IF states0 # 0 THEN Block ELSE <<>>
  /\ pc' = "terminate"
  /\ UNCHANGED <<argsVars, pwm_range, wake, naps, early, hwVars>>

Program == Options \/ Divide \/ Start \/ Wake \/ Poll \/ StopPwm \/ Csv

-----------------------------------------------------------------------------
(* The hardware.                                                           *)

Pulse == pwm_range > PWM_VALUE   \* else CNVST does not move: no conversion

(* The end of the PWM's period: a sample, or what is shifted out without   *)
(* a conversion                                                            *)
Shifted(k) == IF Pulse THEN k ELSE 0

Trigger ==
  /\ pwm /\ due = 0 /\ pwm_range > 0
  /\ due' = pwm_range
  /\ conv' = conv + 1
  /\ rxfifo' = Append(rxfifo, Shifted(conv + 1))
  /\ UNCHANGED <<argsVars, progVars, pwm, cb, loading, rxd1, states0>>

(* Control blocks 0, 1, 2 of channel B, each done when a sample is there   *)
DmaB ==
  /\ Waiting /\ ~loading
  /\ \/ /\ cb = 0
        /\ loading' = TRUE /\ UNCHANGED <<rxfifo, rxd1, states0>>
     \/ /\ cb = 1
        /\ rxd1' = Append(rxd1, Head(rxfifo)) /\ rxfifo' = Tail(rxfifo)
        /\ loading' = (Len(rxd1') = sample_count) /\ UNCHANGED states0
     \/ /\ cb = 2
        /\ states0' = 1 /\ loading' = TRUE /\ UNCHANGED <<rxfifo, rxd1>>
  /\ UNCHANGED <<argsVars, progVars, pwm, due, conv, cb>>

(* next_cb; 0 at the end                                                   *)
Load ==
  /\ loading
  /\ cb' = cb + 1
  /\ loading' = FALSE
  /\ UNCHANGED <<argsVars, progVars, pwm, due, conv, rxfifo, rxd1, states0>>

Tick ==
  /\ pc = "nap" /\ wake > -Late
  /\ due > 0 \/ pwm_range = 0
  /\ ~Waiting /\ ~loading
  /\ due' = IF due = 0 THEN 0 ELSE due - 1
  /\ wake' = wake - 1
  /\ UNCHANGED <<argsVars, pc, pwm_range, naps, printed, early, pwm, conv,
                 rxfifo, cb, loading, rxd1, states0>>

Hardware == Trigger \/ DmaB \/ Load \/ Tick

Next == Program \/ Hardware
Spec == Init /\ [][Next]_vars
-----------------------------------------------------------------------------
(* Properties.                                                             *)

(* What is printed is nothing, or the first samples after the start, as    *)
(* many as asked for and as the buffers hold, each from a conversion of    *)
(* its own if the PWM has room for a pulse.  Nothing is printed only if    *)
(* the samples and the one after them take as long as dma_wait's patience, *)
(* or if dma_wait saw the DMA between two control blocks.                  *)
PrintsBlock ==
  pc = "terminate" =>
    IF printed # <<>>
    THEN /\ Len(printed) = sample_count /\ sample_count <= MAX_SAMPS
         /\ \A k \in 1..sample_count : printed[k] = Shifted(k)
    ELSE \/ early
         \/ (sample_count + 1) * pwm_range >= Patience * Nap
         \/ pwm_range = 0

-----------------------------------------------------------------------------
(* The inductive invariant: PrintsBlock, and what it rests on.             *)

(* The command line, and what was read of it.                              *)
ArgsOK ==
  /\ argv \in Seq(Word) /\ args \in Nat \ {0}
  /\ sample_count \in 0..MAX_SAMPS /\ sample_rate \in Nat

Waits  == {"nap", "poll"}
Begun  == Waits \cup {"stop", "csv", "terminate"}
Before == {"options", "start", "elsewhere", "sigfpe"}

CaptureOK ==
  /\ pc \in Before \cup Begun
  /\ pwm_range \in Nat /\ due \in Nat /\ naps \in Nat /\ conv \in Nat
  /\ wake \in Int /\ cb \in 0..3 /\ states0 \in {0, 1}
  /\ pwm \in BOOLEAN /\ loading \in BOOLEAN /\ early \in BOOLEAN
  /\ rxfifo \in Seq(Nat) /\ rxd1 \in Seq(Nat)

(* Nothing moves before the start.                                         *)
QuietInv ==
  /\ pc \in Before => /\ conv = 0 /\ ~pwm /\ ~loading /\ states0 = 0
                      /\ rxfifo = <<>> /\ rxd1 = <<>>
  /\ pc \in Begun \cup {"start"} => sample_count # 0

(* Channel B has got as far as its control block says.                     *)
ChainInv ==
  pc \in Begun =>
    /\ states0 = 1 <=> cb = 3 \/ (cb = 2 /\ loading)
    /\ cb = 0 => rxd1 = <<>>
    /\ cb = 1 => Len(rxd1) <= sample_count
                 /\ (loading <=> Len(rxd1) = sample_count)
    /\ cb \in {2, 3} => Len(rxd1) = sample_count
    /\ cb = 3 => ~loading

(* Every sample since the start is in rxd1 or still in the FIFO, in order. *)
OrderInv ==
  /\ Len(rxd1) + Len(rxfifo) = conv
  /\ \A k \in 1..Len(rxd1) : rxd1[k] = Shifted(k)
  /\ \A k \in 1..Len(rxfifo) : rxfifo[k] = Shifted(Len(rxd1) + k)

(* dma_wait has slept no longer than the PWM has run: its naps, and the    *)
(* periods.                                                                *)
NapTime == (Patience - naps) * Nap + (Nap - wake)
PwmTime == conv * pwm_range + (pwm_range - due)

WaitInv ==
  /\ pc \in Waits => pwm /\ naps \in 1..Patience /\ due <= pwm_range
  /\ pc \in Waits /\ pwm_range > 0 => NapTime <= PwmTime
  /\ pc = "poll" => wake <= 0

(* Why dma_wait has returned.                                              *)
StopInv ==
  pc \in {"stop", "csv"} /\ pwm_range > 0 =>
    early \/ states0 = 1 \/ Patience * Nap <= (conv + 1) * pwm_range

CaptureInv ==
  /\ ArgsOK /\ CaptureOK /\ QuietInv /\ ChainInv /\ OrderInv
  /\ WaitInv /\ StopInv /\ PrintsBlock

-----------------------------------------------------------------------------
(* "Default & max sample rate", "exceeded max sample rate": no rate above  *)
(* the maximum is taken from the command line.                             *)
RateWithinMax == sample_rate <= MAX_SAMPLE_RATE
=============================================================================
