--------------------------- MODULE Capture_proofs ---------------------------
(***************************************************************************)
(* Proofs about Capture, for any command line, rate and number of samples. *)
(* What is printed follows from where the samples are while channel B runs *)
(* (ChainInv, OrderInv); that something is printed follows from two clocks *)
(* compared: the naps of dma_wait and the periods of the PWM (WaitInv).    *)
(***************************************************************************)
EXTENDS Capture, SequenceTheorems, TLAPS

(* A product grows with its factor.                                        *)
LEMMA Times ==
  ASSUME NEW a \in Int, NEW b \in Int, NEW c \in Nat
  PROVE  (a + 1) * c = a * c + c /\ (a <= b => a * c <= b * c)
<1>1. (a + 1) * c = a * c + c
  OBVIOUS
<1>2. a <= b => a * c <= b * c
  OBVIOUS
<1> QED BY <1>1, <1>2

(* A tick, on either clock.                                                *)
LEMMA OneMore ==
  ASSUME NEW a \in Int, NEW b \in Int, NEW c \in Int
  PROVE  a + (b - (c - 1)) = a + (b - c) + 1
OBVIOUS

-----------------------------------------------------------------------------
(* The command line.                                                       *)

(* The word after the option is a word.                                    *)
LEMMA NextIsWord ==
  ASSUME ArgsOK, Digits
  PROVE  NextWord.num \in Nat
<1>1. args + 1 \in 1..Len(argv)
  BY DEF ArgsOK, Digits, HasNext
<1>2. argv[args + 1] \in Word
  BY <1>1, ElementOfSeq DEF ArgsOK
<1>3. ASSUME NEW w \in Word PROVE w.num \in Nat
  <2>1. \/ w \in [opt : {"N", "R", "S", "U", "T", "F", "L", "?"}, num : {0}]
        \/ w \in [opt : {"number"}, num : Numbers]
        \/ w \in [opt : {"name"}, num : {0}]
    BY DEF Word
  <2>2. w.num = 0 \/ w.num \in Numbers
    BY <2>1
  <2>3. Numbers \subseteq Nat /\ 0 \in Nat
    BY NumbersAssumption
  <2> QED BY <2>2, <2>3, Zenon
<1> QED BY <1>2, <1>3 DEF NextWord

(* main begins with any words, and its defaults.                           *)
LEMMA ArgsInitOK == ArgsInit => ArgsOK
<1> SUFFICES ASSUME ArgsInit PROVE ArgsOK
  OBVIOUS
<1>1. PICK n \in 0..MaxWords : argv \in [1..n -> Word]
  BY DEF ArgsInit
<1>2. n \in Nat
  BY LimitsAssumption
<1>3. argv \in Seq(Word)
  BY <1>1, <1>2
<1> QED BY <1>3, LimitsAssumption DEF ArgsInit, ArgsOK

(* -N, which cuts a count that is too large.                               *)
LEMMA OptNOK == ArgsOK /\ OptN => ArgsOK'
<1> SUFFICES ASSUME ArgsOK, OptN PROVE ArgsOK'
  OBVIOUS
<1>1. argv' = argv /\ args' \in Nat \ {0} /\ sample_rate' = sample_rate
  BY DEF ArgsOK, OptN, Skip
<1>2. CASE Digits
  <2>1. sample_count' = Clamp(NextWord.num)
    BY <1>2 DEF OptN
  <2>2. Clamp(NextWord.num) \in 0..MAX_SAMPS
    BY <1>2, NextIsWord, LimitsAssumption DEF Clamp
  <2> QED BY <1>1, <2>1, <2>2 DEF ArgsOK
<1>3. CASE ~Digits
  BY <1>1, <1>3 DEF OptN, ArgsOK
<1> QED BY <1>2, <1>3

(* -R                                                                      *)
LEMMA OptROK == ArgsOK /\ OptR => ArgsOK'
<1> SUFFICES ASSUME ArgsOK, OptR PROVE ArgsOK'
  OBVIOUS
<1>1. argv' = argv /\ args' \in Nat \ {0} /\ sample_count' = sample_count
  BY DEF ArgsOK, OptR, Skip
<1>2. sample_rate' \in Nat
  BY NextIsWord DEF OptR, ArgsOK
<1> QED BY <1>1, <1>2 DEF ArgsOK

(* Every word that is read leaves the count and the rate within bounds.    *)
LEMMA ReadOptionsOK == ArgsOK /\ ReadOptions => ArgsOK'
<1> SUFFICES ASSUME ArgsOK, ReadOptions PROVE ArgsOK'
  OBVIOUS
<1>1. CASE OptName \/ OptOther \/ NoOption \/ Unrecognised \/ EndOfOptions
  <2>1. argv' = argv /\ args' \in Nat \ {0}
    BY <1>1 DEF OptName, OptOther, NoOption, Unrecognised, EndOfOptions, Skip,
       ArgsOK
  <2>2. sample_count' = sample_count /\ sample_rate' = sample_rate
    BY <1>1 DEF OptName, OptOther, NoOption, Unrecognised, EndOfOptions, given
  <2> QED BY <2>1, <2>2 DEF ArgsOK
<1> QED BY <1>1, OptNOK, OptROK DEF ReadOptions

-----------------------------------------------------------------------------
(* The first state, and the steps of the program.                          *)

(* Nothing is running.                                                     *)
LEMMA InitCapture == Init => CaptureInv
<1> SUFFICES ASSUME Init PROVE CaptureInv
  OBVIOUS
<1>1. ArgsOK
  BY ArgsInitOK DEF Init
<1>2. early \in BOOLEAN /\ pwm \in BOOLEAN /\ loading \in BOOLEAN
  BY DEF Init
<1>3. CaptureOK
  BY <1>2 DEF Init, CaptureOK, Before
<1>4. QuietInv /\ ChainInv /\ WaitInv /\ StopInv /\ PrintsBlock
  BY DEF Init, QuietInv, ChainInv, WaitInv, StopInv, PrintsBlock, Before,
     Begun, Waits
<1>5. OrderInv
  BY DEF Init, OrderInv
<1> QED BY <1>1, <1>3, <1>4, <1>5 DEF CaptureInv

(* The options are read before anything is started.                        *)
LEMMA OptionsStep == CaptureInv /\ Options => CaptureInv'
<1> SUFFICES ASSUME CaptureInv, Options PROVE CaptureInv'
  OBVIOUS
<1> USE DEF CaptureInv, Options, progVars, hwVars
<1>1. ArgsOK'
  BY ReadOptionsOK
<1>2. CaptureOK'
  BY DEF CaptureOK
<1>3. QuietInv' /\ ChainInv' /\ WaitInv' /\ StopInv' /\ PrintsBlock'
  BY DEF QuietInv, ChainInv, WaitInv, StopInv, PrintsBlock, Begun, Waits
<1>4. OrderInv'
  BY DEF OrderInv, QuietInv, Before
<1> QED BY <1>1, <1>2, <1>3, <1>4

(* The period of the PWM is set, and nothing is in the buffers yet.        *)
LEMMA DivideStep == CaptureInv /\ Divide => CaptureInv'
<1> SUFFICES ASSUME CaptureInv, Divide PROVE CaptureInv'
  OBVIOUS
<1> USE DEF CaptureInv, Divide, argsVars, given, hwVars
<1>1. ArgsOK'
  BY DEF ArgsOK
<1>2. pwm_range' \in Nat
  <2>1. CASE sample_rate = 0
    BY <2>1 DEF CaptureOK
  <2>2. CASE sample_rate # 0
    <3>1. sample_rate \in Nat \ {0} /\ PWM_TICKS \in Nat
      BY <2>2, CaptureAssumption DEF ArgsOK
    <3>2. PWM_TICKS \div sample_rate \in Nat
      BY <3>1
    <3> QED BY <2>2, <3>2
  <2> QED BY <2>1, <2>2
<1>3. pc' \in Before /\ (pc' = "start" => sample_count # 0)
  BY DEF Mode, Before
<1>4. CaptureOK'
  BY <1>2, <1>3 DEF CaptureOK
<1>5. QuietInv' /\ ChainInv' /\ WaitInv' /\ StopInv' /\ PrintsBlock'
  BY <1>3 DEF QuietInv, ChainInv, WaitInv, StopInv, PrintsBlock, Begun, Waits,
     Before
<1>6. OrderInv'
  BY DEF OrderInv, QuietInv, Before
<1> QED BY <1>1, <1>4, <1>5, <1>6

(* The clocks start together.                                              *)
LEMMA StartStep == CaptureInv /\ Start => CaptureInv'
<1> SUFFICES ASSUME CaptureInv, Start PROVE CaptureInv'
  OBVIOUS
<1> USE DEF CaptureInv, Start, argsVars, given
<1>1. ArgsOK'
  BY DEF ArgsOK
<1>2. /\ conv' = 0 /\ rxfifo' = <<>> /\ rxd1' = <<>> /\ states0' = 0
      /\ ~loading' /\ sample_count' # 0
  BY DEF QuietInv, Before
<1>3. CaptureOK'
  <2>1. pwm' \in BOOLEAN
    OBVIOUS
  <2> QED BY <2>1, CaptureAssumption DEF CaptureOK, Begun, Waits
<1>4. QuietInv' /\ StopInv' /\ PrintsBlock'
  BY <1>2 DEF QuietInv, StopInv, PrintsBlock, Before
<1>5. ChainInv'
  BY <1>2 DEF ChainInv
<1>6. OrderInv'
  BY <1>2 DEF OrderInv
<1>7. WaitInv'
  <2>1. NapTime' = (Patience - Patience) * Nap + (Nap - Nap)
    BY DEF NapTime
  <2>2. PwmTime' = 0 * pwm_range + (pwm_range - pwm_range)
    BY <1>2 DEF PwmTime
  <2>3. NapTime' = 0 /\ PwmTime' = 0
    BY <2>1, <2>2, CaptureAssumption DEF CaptureOK
  <2> QED BY <2>3, CaptureAssumption DEF WaitInv, CaptureOK, Waits
<1> QED BY <1>1, <1>3, <1>4, <1>5, <1>6, <1>7

(* usleep returns, not too early.                                          *)
LEMMA WakeStep == CaptureInv /\ Wake => CaptureInv'
<1> SUFFICES ASSUME CaptureInv, Wake PROVE CaptureInv'
  OBVIOUS
<1> USE DEF CaptureInv, Wake, argsVars, given, hwVars
<1>1. ArgsOK' /\ CaptureOK'
  BY DEF ArgsOK, CaptureOK, Begun, Waits
<1>2. QuietInv' /\ StopInv' /\ PrintsBlock' /\ ChainInv'
  BY DEF QuietInv, StopInv, PrintsBlock, ChainInv, Before, Begun, Waits
<1>3. OrderInv'
  BY DEF OrderInv, Shifted, Pulse
<1>4. WaitInv'
  BY DEF WaitInv, NapTime, PwmTime, Waits
<1> QED BY <1>1, <1>2, <1>3, <1>4

(* dma_wait gives up only after the naps it has patience for.              *)
LEMMA PollStep == CaptureInv /\ Poll => CaptureInv'
<1> SUFFICES ASSUME CaptureInv, Poll PROVE CaptureInv'
  OBVIOUS
<1> USE DEF CaptureInv, Poll, argsVars, given, hwVars
<1>1. ArgsOK'
  BY DEF ArgsOK
<1>2. early' \in BOOLEAN /\ (TransferLen = 0 => early' \/ cb = 3)
  <2>1. TransferLen = 0 /\ cb # 3 => early'
    OBVIOUS
  <2>2. early' \in BOOLEAN
    OBVIOUS
  <2> QED BY <2>1, <2>2
<1>3. /\ UNCHANGED <<pwm_range, printed, sample_count, pwm, due, conv, rxfifo,
                     cb, loading, rxd1, states0>>
      /\ wake <= 0 /\ naps \in 1..Patience /\ pwm
  BY DEF WaitInv, Waits
<1>4. CASE TransferLen = 0 \/ naps = 1
  <2>1. pc' = "stop" /\ UNCHANGED <<naps, wake>>
    BY <1>4
  <2>2. CaptureOK' /\ QuietInv' /\ ChainInv' /\ PrintsBlock' /\ WaitInv'
    BY <1>2, <1>3, <2>1
       DEF CaptureOK, QuietInv, ChainInv, PrintsBlock, WaitInv, Before, Begun,
           Waits
  <2>3. OrderInv'
    BY <1>3 DEF OrderInv, Shifted, Pulse
  <2>4. ASSUME pwm_range > 0
        PROVE  \/ early' \/ states0 = 1
               \/ Patience * Nap <= (conv + 1) * pwm_range
    <3>1. CASE TransferLen = 0
      BY <1>2, <3>1 DEF ChainInv, Begun, Waits
    <3>2. CASE naps = 1
      <4>1. NapTime = (Patience - 1) * Nap + (Nap - wake) /\ NapTime <= PwmTime
        BY <2>4, <3>2 DEF NapTime, WaitInv, Waits
      <4>2. (Patience - 1 + 1) * Nap = (Patience - 1) * Nap + Nap
        BY Times, CaptureAssumption
      <4>3. Patience - 1 + 1 = Patience
        BY CaptureAssumption
      <4>4. (Patience - 1) * Nap \in Int /\ Patience * Nap \in Int
        BY CaptureAssumption
      <4>5. Patience * Nap <= NapTime
        <5>1. \A a, w \in Int, b \in Nat : w <= 0 => a + b <= a + (b - w)
          OBVIOUS
        <5>2. Patience * Nap = (Patience - 1) * Nap + Nap
          BY <4>2, <4>3
        <5> QED BY <1>3, <4>1, <4>4, <5>1, <5>2, CaptureAssumption
                DEF CaptureOK
      <4>6. (conv + 1) * pwm_range = conv * pwm_range + pwm_range
        BY Times DEF CaptureOK
      <4>7. PwmTime <= (conv + 1) * pwm_range
        <5>1. conv * pwm_range \in Int
          BY DEF CaptureOK
        <5> QED BY <4>6, <5>1 DEF PwmTime, CaptureOK
      <4>8. /\ NapTime \in Int /\ PwmTime \in Int
            /\ (conv + 1) * pwm_range \in Int
        <5>1. (conv + 1) * pwm_range \in Int /\ conv * pwm_range \in Int
          BY DEF CaptureOK
        <5>2. PwmTime \in Int
          BY <5>1 DEF PwmTime, CaptureOK
        <5>3. NapTime \in Int
          BY <4>1, <4>4, CaptureAssumption DEF CaptureOK
        <5> QED BY <5>1, <5>2, <5>3
      <4> QED BY <4>1, <4>4, <4>5, <4>7, <4>8
    <3> QED BY <1>4, <3>1, <3>2
  <2>5. StopInv'
    BY <1>3, <2>4 DEF StopInv
  <2> QED BY <1>1, <2>2, <2>3, <2>5
<1>5. CASE ~(TransferLen = 0 \/ naps = 1)
  <2>1. pc' = "nap" /\ naps' = naps - 1 /\ wake' = Nap
    BY <1>5
  <2>2. CaptureOK' /\ QuietInv' /\ ChainInv' /\ PrintsBlock' /\ StopInv'
    BY <1>2, <1>3, <1>5, <2>1, CaptureAssumption
       DEF CaptureOK, QuietInv, ChainInv, PrintsBlock, StopInv, Before, Begun,
           Waits
  <2>3. OrderInv'
    BY <1>3 DEF OrderInv, Shifted, Pulse
  <2>4. ASSUME pwm_range > 0
        PROVE  NapTime' <= PwmTime'
    <3>1. /\ NapTime = (Patience - naps) * Nap + (Nap - wake)
          /\ NapTime <= PwmTime
      BY <2>4 DEF NapTime, WaitInv, Waits
    <3>2. NapTime' = (Patience - (naps - 1)) * Nap + (Nap - Nap)
      BY <2>1 DEF NapTime
    <3>3. (Patience - naps + 1) * Nap = (Patience - naps) * Nap + Nap
      BY <1>3, Times, CaptureAssumption
    <3>4. Patience - (naps - 1) = Patience - naps + 1
      BY <1>3, CaptureAssumption
    <3>5. (Patience - naps) * Nap \in Int
      BY <1>3, CaptureAssumption
    <3>6. NapTime' <= NapTime
      <4>1. \A a \in Int, b \in Nat, c \in Int :
              c <= 0 => (a + b) + (b - b) <= a + (b - c)
        OBVIOUS
      <4>2. NapTime' = ((Patience - naps) * Nap + Nap) + (Nap - Nap)
        BY <3>2, <3>3, <3>4
      <4> QED BY <1>3, <3>1, <3>5, <4>1, <4>2, CaptureAssumption DEF CaptureOK
    <3>7. PwmTime' = PwmTime
      BY <1>3 DEF PwmTime
    <3>8. NapTime \in Int /\ PwmTime \in Int /\ NapTime' \in Int
      <4>1. conv * pwm_range \in Int /\ pwm_range \in Int /\ due \in Int
        BY DEF CaptureOK
      <4>2. PwmTime \in Int
        BY <4>1 DEF PwmTime
      <4>3. NapTime \in Int
        BY <3>1, <3>5, CaptureAssumption DEF CaptureOK
      <4>4. NapTime' \in Int
        BY <3>2, <3>3, <3>4, <3>5, CaptureAssumption
      <4> QED BY <4>2, <4>3, <4>4
    <3> QED BY <3>1, <3>6, <3>7, <3>8
  <2>5. WaitInv'
    BY <1>3, <1>5, <2>1, <2>4, CaptureAssumption DEF WaitInv, Waits, CaptureOK
  <2> QED BY <1>1, <2>2, <2>3, <2>5
<1> QED BY <1>4, <1>5

(* The PWM stops; channel B may still have samples to take.                *)
LEMMA StopPwmStep == CaptureInv /\ StopPwm => CaptureInv'
<1> SUFFICES ASSUME CaptureInv, StopPwm PROVE CaptureInv'
  OBVIOUS
<1> USE DEF CaptureInv, StopPwm, argsVars, given
<1>1. ArgsOK' /\ CaptureOK'
  BY DEF ArgsOK, CaptureOK, Begun, Waits
<1>2. QuietInv' /\ PrintsBlock' /\ ChainInv' /\ WaitInv' /\ StopInv'
  BY DEF QuietInv, PrintsBlock, ChainInv, WaitInv, StopInv, Before, Begun,
     Waits
<1>3. OrderInv'
  BY DEF OrderInv, Shifted, Pulse
<1> QED BY <1>1, <1>2, <1>3

(* The line is printed: the block, or nothing for one of the reasons.      *)
LEMMA CsvStep == CaptureInv /\ Csv => CaptureInv'
<1> SUFFICES ASSUME CaptureInv, Csv PROVE CaptureInv'
  OBVIOUS
<1> USE DEF CaptureInv, Csv, argsVars, given, hwVars
<1>1. ArgsOK' /\ CaptureOK'
  BY DEF ArgsOK, CaptureOK, Begun, Waits
<1>2. QuietInv' /\ ChainInv' /\ WaitInv' /\ StopInv'
  BY DEF QuietInv, ChainInv, WaitInv, StopInv, Before, Begun, Waits
<1>3. OrderInv'
  BY DEF OrderInv, Shifted, Pulse
<1>4. sample_count \in 1..MAX_SAMPS /\ MAX_SAMPS \in Nat
  BY LimitsAssumption DEF QuietInv, ArgsOK, Begun, Waits
<1>5. CASE states0 # 0
  <2>1. Len(rxd1) = sample_count
    BY <1>5 DEF CaptureOK, ChainInv, Begun, Waits
  <2>2. printed' = [k \in 1..sample_count |-> rxd1[k]]
    BY <1>4, <1>5, <2>1 DEF Block
  <2>3. printed' \in Seq(Nat) /\ Len(printed') = sample_count
    <3>1. \A k \in 1..sample_count : rxd1[k] \in Nat
      BY <2>1, ElementOfSeq DEF CaptureOK
    <3> QED BY <1>4, <2>2, <3>1
  <2>4. printed' # <<>>
    BY <1>4, <2>3
  <2>5. \A k \in 1..sample_count : printed'[k] = Shifted(k)
    BY <2>1, <2>2 DEF OrderInv
  <2>6. PrintsBlock'
    BY <1>4, <2>3, <2>4, <2>5 DEF PrintsBlock, Shifted, Pulse
  <2> QED BY <1>1, <1>2, <1>3, <2>6
<1>6. CASE states0 = 0
  <2>1. printed' = <<>> /\ cb # 3 /\ rxfifo = <<>>
    BY <1>6 DEF Waiting, ChainInv, Begun, Waits
  <2>2. conv <= sample_count
    <3>1. conv = Len(rxd1)
      BY <2>1 DEF OrderInv, CaptureOK
    <3>2. Len(rxd1) <= sample_count
      BY <1>4, <2>1 DEF ChainInv, CaptureOK, Begun, Waits
    <3> QED BY <3>1, <3>2
  <2>3. ASSUME pwm_range # 0, ~early
        PROVE  Patience * Nap <= (sample_count + 1) * pwm_range
    <3>1. Patience * Nap <= (conv + 1) * pwm_range
      BY <1>6, <2>3 DEF StopInv, CaptureOK
    <3>2. (conv + 1) * pwm_range <= (sample_count + 1) * pwm_range
      BY <1>4, <2>2, Times DEF CaptureOK
    <3>3. /\ Patience * Nap \in Int /\ (conv + 1) * pwm_range \in Int
          /\ (sample_count + 1) * pwm_range \in Int
      BY <1>4, CaptureAssumption DEF CaptureOK
    <3> QED BY <3>1, <3>2, <3>3
  <2>4. \A a, b \in Int : a <= b => b >= a
    OBVIOUS
  <2>5. Patience * Nap \in Int /\ (sample_count + 1) * pwm_range \in Int
    BY <1>4, CaptureAssumption DEF CaptureOK
  <2>6. PrintsBlock'
    BY <2>1, <2>3, <2>4, <2>5 DEF PrintsBlock
  <2> QED BY <1>1, <1>2, <1>3, <2>6
<1> QED BY <1>5, <1>6

-----------------------------------------------------------------------------
(* The steps of the hardware.                                              *)

(* A line that is printed stays.                                           *)
LEMMA PrintedStays ==
  ASSUME PrintsBlock, UNCHANGED <<pc, printed, early, sample_count, pwm_range>>
  PROVE  PrintsBlock'
BY DEF PrintsBlock, Shifted, Pulse

(* A period ends, and its sample comes into the FIFO behind the others.    *)
LEMMA TriggerStep == CaptureInv /\ Trigger => CaptureInv'
<1> SUFFICES ASSUME CaptureInv, Trigger PROVE CaptureInv'
  OBVIOUS
<1> USE DEF CaptureInv, Trigger, argsVars, progVars, given
<1>1. ArgsOK' /\ PrintsBlock'
  BY PrintedStays DEF ArgsOK
<1>2. Shifted(conv + 1) \in Nat
  BY DEF Shifted, CaptureOK
<1>3. CaptureOK'
  BY <1>2 DEF CaptureOK
<1>4. QuietInv' /\ ChainInv'
  BY DEF QuietInv, ChainInv
<1>5. OrderInv'
  <2>1. /\ Len(rxfifo') = Len(rxfifo) + 1
        /\ \A k \in 1..Len(rxfifo) : rxfifo'[k] = rxfifo[k]
        /\ rxfifo'[Len(rxfifo) + 1] = Shifted(conv + 1)
    BY <1>2 DEF CaptureOK
  <2>2. Len(rxd1) \in Nat /\ Len(rxfifo) \in Nat /\ conv \in Nat
    BY DEF CaptureOK
  <2>3. ASSUME NEW k \in 1..Len(rxfifo')
        PROVE  rxfifo'[k] = Shifted(Len(rxd1) + k)
    <3>1. CASE k = Len(rxfifo) + 1
      <4>1. Len(rxd1) + k = conv + 1
        BY <2>2, <3>1 DEF OrderInv
      <4> QED BY <2>1, <3>1, <4>1
    <3>2. CASE k # Len(rxfifo) + 1
      <4>1. k \in 1..Len(rxfifo)
        BY <2>1, <2>2, <3>2
      <4> QED BY <2>1, <4>1 DEF OrderInv
    <3> QED BY <3>1, <3>2
  <2> QED BY <2>1, <2>2, <2>3 DEF OrderInv, Shifted, Pulse
<1>6. conv * pwm_range \in Int /\ pwm_range \in Nat /\ due = 0
  BY DEF CaptureOK
<1>7. (conv + 1) * pwm_range = conv * pwm_range + pwm_range
  BY Times DEF CaptureOK
<1>8. WaitInv'
  <2>1. PwmTime' = (conv + 1) * pwm_range + (pwm_range - pwm_range)
    BY DEF PwmTime
  <2>2. PwmTime = conv * pwm_range + (pwm_range - 0)
    BY DEF PwmTime
  <2>3. PwmTime' = PwmTime /\ NapTime' = NapTime
    BY <1>6, <1>7, <2>1, <2>2 DEF NapTime
  <2> QED BY <1>6, <2>3 DEF WaitInv
<1>9. StopInv'
  <2>1. (conv + 1) * pwm_range <= (conv + 1 + 1) * pwm_range
    BY Times DEF CaptureOK
  <2>2. /\ (conv + 1) * pwm_range \in Int /\ (conv + 1 + 1) * pwm_range \in Int
        /\ Patience * Nap \in Int
    BY CaptureAssumption DEF CaptureOK
  <2> QED BY <2>1, <2>2 DEF StopInv
<1> QED BY <1>1, <1>3, <1>4, <1>5, <1>8, <1>9

(* Channel B takes a sample or sets the flag.                              *)
LEMMA DmaBStep == CaptureInv /\ DmaB => CaptureInv'
<1> SUFFICES ASSUME CaptureInv, DmaB PROVE CaptureInv'
  OBVIOUS
<1> USE DEF CaptureInv, argsVars, progVars, given
<1>1. ArgsOK' /\ PrintsBlock' /\ WaitInv'
  BY PrintedStays DEF DmaB, ArgsOK, WaitInv, NapTime, PwmTime
<1>2. pc \in Begun /\ sample_count \in Nat \ {0}
  <2>1. pc \in Begun
    BY DEF DmaB, Waiting, QuietInv, CaptureOK
  <2> QED BY <2>1, LimitsAssumption DEF QuietInv, ArgsOK
<1>3. CASE cb = 0 \/ cb = 2
  <2>1. UNCHANGED <<rxfifo, rxd1, cb, conv, pc, pwm_range, sample_count>>
    BY <1>3 DEF DmaB
  <2>2. loading' /\ states0' = IF cb = 2 THEN 1 ELSE states0
    BY <1>3 DEF DmaB
  <2>3. CaptureOK'
    <3>1. loading' \in BOOLEAN
      BY <1>3 DEF DmaB
    <3> QED BY <2>1, <2>2, <3>1 DEF DmaB, CaptureOK
  <2>4. QuietInv' /\ ChainInv' /\ StopInv'
    BY <1>2, <1>3, <2>1, <2>2
       DEF DmaB, QuietInv, ChainInv, StopInv, CaptureOK, Before, Begun, Waits
  <2>5. OrderInv'
    BY <2>1 DEF OrderInv, Shifted, Pulse
  <2> QED BY <1>1, <2>3, <2>4, <2>5
<1>4. CASE cb = 1
  <2>1. /\ rxfifo # <<>> /\ ~loading
        /\ rxd1' = Append(rxd1, Head(rxfifo)) /\ rxfifo' = Tail(rxfifo)
        /\ UNCHANGED <<states0, cb, conv, pc, pwm_range, sample_count>>
    BY <1>4 DEF DmaB, Waiting
  <2>2. /\ loading' \in BOOLEAN
        /\ loading' <=> Len(rxd1') = sample_count
    <3>1. loading' = (Len(rxd1') = sample_count)
      BY <1>4 DEF DmaB
    <3>2. (Len(rxd1') = sample_count) \in BOOLEAN
      OBVIOUS
    <3> QED BY <3>1, <3>2, Zenon
  <2>3. /\ Head(rxfifo) \in Nat /\ Head(rxfifo) = rxfifo[1]
        /\ Tail(rxfifo) \in Seq(Nat) /\ Len(rxfifo') + 1 = Len(rxfifo)
        /\ \A k \in 1..Len(rxfifo') : rxfifo'[k] = rxfifo[k + 1]
    BY <2>1 DEF CaptureOK
  <2>4. /\ rxd1' \in Seq(Nat) /\ Len(rxd1') = Len(rxd1) + 1
        /\ \A k \in 1..Len(rxd1) : rxd1'[k] = rxd1[k]
        /\ rxd1'[Len(rxd1) + 1] = rxfifo[1]
    BY <2>1, <2>3 DEF CaptureOK
  <2>5. /\ Len(rxd1) \in Nat /\ Len(rxfifo) \in Nat /\ Len(rxfifo') \in Nat
        /\ conv \in Nat
    BY <2>1, <2>3 DEF CaptureOK
  <2>6. CaptureOK'
    BY <2>1, <2>2, <2>3, <2>4 DEF DmaB, CaptureOK
  <2>7. Len(rxd1) < sample_count
    BY <1>2, <1>4, <2>1, <2>5 DEF ChainInv
  <2>8. QuietInv' /\ ChainInv' /\ StopInv'
    BY <1>2, <1>4, <2>1, <2>2, <2>4, <2>5, <2>7
       DEF DmaB, QuietInv, ChainInv, StopInv, CaptureOK, Before, Begun, Waits
  <2>9. Len(rxd1') + Len(rxfifo') = conv
    <3>1. Len(rxd1) + Len(rxfifo) = conv
      BY DEF OrderInv
    <3>2. Len(rxd1') = Len(rxd1) + 1 /\ Len(rxfifo') + 1 = Len(rxfifo)
      BY <2>3, <2>4
    <3> QED BY <2>5, <3>1, <3>2
  <2>10. ASSUME NEW k \in 1..Len(rxd1')
         PROVE  rxd1'[k] = Shifted(k)
    <3>1. CASE k = Len(rxd1) + 1
      <4>1. rxfifo[1] = Shifted(Len(rxd1) + 1)
        BY <2>3, <2>5 DEF OrderInv
      <4> QED BY <2>4, <3>1, <4>1
    <3>2. CASE k # Len(rxd1) + 1
      <4>1. k \in 1..Len(rxd1)
        BY <2>4, <2>5, <3>2
      <4> QED BY <2>4, <4>1 DEF OrderInv
    <3> QED BY <3>1, <3>2
  <2>11. ASSUME NEW k \in 1..Len(rxfifo')
         PROVE  rxfifo'[k] = Shifted(Len(rxd1') + k)
    <3>1. k + 1 \in 1..Len(rxfifo) /\ Len(rxd1) + (k + 1) = Len(rxd1') + k
      <4>1. Len(rxfifo') + 1 = Len(rxfifo) /\ Len(rxd1') = Len(rxd1) + 1
        BY <2>3, <2>4
      <4> QED BY <2>5, <4>1
    <3>2. rxfifo[k + 1] = Shifted(Len(rxd1) + (k + 1))
      BY <3>1 DEF OrderInv
    <3> QED BY <2>3, <3>1, <3>2
  <2>12. OrderInv'
    BY <2>1, <2>9, <2>10, <2>11 DEF OrderInv, Shifted, Pulse
  <2> QED BY <1>1, <2>6, <2>8, <2>12
<1> QED BY <1>3, <1>4 DEF DmaB

(* The next control block is loaded.                                       *)
LEMMA LoadStep == CaptureInv /\ Load => CaptureInv'
<1> SUFFICES ASSUME CaptureInv, Load PROVE CaptureInv'
  OBVIOUS
<1> USE DEF CaptureInv, Load, argsVars, progVars, given
<1>1. ArgsOK' /\ PrintsBlock' /\ WaitInv'
  BY PrintedStays DEF ArgsOK, WaitInv, NapTime, PwmTime
<1>2. pc \in Begun
  BY DEF QuietInv, CaptureOK
<1>3. cb # 3 /\ ~loading'
  BY <1>2 DEF ChainInv
<1>4. CaptureOK'
  <2>1. loading' \in BOOLEAN
    OBVIOUS
  <2> QED BY <1>3, <2>1 DEF CaptureOK
<1>5. QuietInv' /\ StopInv'
  BY <1>2, <1>3 DEF QuietInv, StopInv, Before, Begun, Waits
<1>6. ChainInv'
  <2>1. Len(rxd1) \in Nat
    BY DEF CaptureOK
  <2>2. sample_count \in Nat \ {0}
    BY <1>2, LimitsAssumption DEF QuietInv, ArgsOK
  <2>3. CASE cb = 0
    BY <1>2, <1>3, <2>1, <2>2, <2>3 DEF ChainInv, CaptureOK
  <2>4. CASE cb = 1
    BY <1>2, <1>3, <2>1, <2>2, <2>4 DEF ChainInv, CaptureOK
  <2>5. CASE cb = 2
    BY <1>2, <1>3, <2>1, <2>2, <2>5 DEF ChainInv, CaptureOK
  <2> QED BY <1>3, <2>3, <2>4, <2>5 DEF CaptureOK
<1>7. OrderInv'
  BY DEF OrderInv, Shifted, Pulse
<1> QED BY <1>1, <1>4, <1>5, <1>6, <1>7

(* A tick passes, for dma_wait's nap as for the PWM.                       *)
LEMMA TickStep == CaptureInv /\ Tick => CaptureInv'
<1> SUFFICES ASSUME CaptureInv, Tick PROVE CaptureInv'
  OBVIOUS
<1> USE DEF CaptureInv, Tick, argsVars, given
<1>1. ArgsOK' /\ PrintsBlock'
  BY PrintedStays DEF ArgsOK
<1>2. CaptureOK'
  BY DEF CaptureOK
<1>3. QuietInv' /\ ChainInv' /\ StopInv'
  BY DEF QuietInv, ChainInv, StopInv
<1>4. OrderInv'
  BY DEF OrderInv, Shifted, Pulse
<1>5. WaitInv'
  <2>1. ASSUME pwm_range > 0
        PROVE  NapTime' <= PwmTime'
    <3>1. due' = due - 1 /\ wake' = wake - 1 /\ pwm_range \in Nat
      BY <2>1 DEF CaptureOK
    <3>2. (Patience - naps) * Nap \in Int /\ conv * pwm_range \in Int
      BY CaptureAssumption DEF CaptureOK
    <3>3. NapTime <= PwmTime
      BY <2>1 DEF WaitInv, Waits
    <3>4. NapTime' = NapTime + 1
      BY <3>1, <3>2, OneMore, CaptureAssumption DEF NapTime, CaptureOK
    <3>5. PwmTime' = PwmTime + 1
      BY <3>1, <3>2, OneMore DEF PwmTime, CaptureOK
    <3>6. NapTime \in Int /\ PwmTime \in Int
      BY <3>2, CaptureAssumption DEF NapTime, PwmTime, CaptureOK
    <3> QED BY <3>3, <3>4, <3>5, <3>6
  <2>2. due' <= pwm_range
    BY DEF WaitInv, Waits, CaptureOK
  <2> QED BY <2>1, <2>2 DEF WaitInv, Waits
<1> QED BY <1>1, <1>2, <1>3, <1>4, <1>5

-----------------------------------------------------------------------------
(* The invariant and what follows from it.                                 *)

(* Every step keeps the invariant.                                         *)
LEMMA CaptureNext == CaptureInv /\ [Next]_vars => CaptureInv'
<1> SUFFICES ASSUME CaptureInv, [Next]_vars PROVE CaptureInv'
  OBVIOUS
<1>1. CASE UNCHANGED vars
  <2> USE <1>1 DEF CaptureInv, vars, argsVars, progVars, hwVars, given
  <2>1. ArgsOK' /\ CaptureOK' /\ QuietInv' /\ ChainInv' /\ StopInv'
    BY DEF ArgsOK, CaptureOK, QuietInv, ChainInv, StopInv
  <2>2. OrderInv' /\ PrintsBlock'
    BY PrintedStays DEF OrderInv, Shifted, Pulse
  <2>3. WaitInv'
    BY DEF WaitInv, NapTime, PwmTime
  <2> QED BY <2>1, <2>2, <2>3
<1>2. CASE Program
  BY <1>2, OptionsStep, DivideStep, StartStep, WakeStep, PollStep, StopPwmStep,
     CsvStep DEF Program
<1>3. CASE Hardware
  BY <1>3, TriggerStep, DmaBStep, LoadStep, TickStep DEF Hardware
<1> QED BY <1>1, <1>2, <1>3 DEF Next

(* The command line, the buffers and the clocks are as CaptureInv says,    *)
(* whatever the words, the rate and the patience.                          *)
THEOREM CaptureInvariance == Spec => []CaptureInv
<1>1. Init => CaptureInv
  BY InitCapture
<1>2. CaptureInv /\ [Next]_vars => CaptureInv'
  BY CaptureNext
<1> QED BY <1>1, <1>2, PTL DEF Spec

(* main prints the first samples after the start, each once and in order,  *)
(* as many as -N asked for and the buffers hold, or for one of the reasons *)
(* named it prints nothing.                                                *)
THEOREM PrintsTheBlock == Spec => []PrintsBlock
<1>1. CaptureInv => PrintsBlock
  BY DEF CaptureInv
<1> QED BY <1>1, CaptureInvariance, PTL
=============================================================================
