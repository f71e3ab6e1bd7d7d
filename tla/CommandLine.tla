---------------------------- MODULE CommandLine -----------------------------
(***************************************************************************)
(* The options of rpi_adc_stream.c, read word by word by the loop at the   *)
(* beginning of main.  A word is an option ("-N"), a number or a name; -F  *)
(* stands for -I as well, and -L for -V: they have no bearing on what main *)
(* does afterwards.  The numbers of the program are scaled down.           *)
(***************************************************************************)
EXTENDS Naturals, Sequences

CONSTANTS
  Numbers,          \* numbers that may be given
  MaxWords,         \* bound: the length of the command line
  MAX_SAMPS,        \* 1024
  SAMPLE_RATE,      \* the default, 100
  MAX_SAMPLE_RATE   \* 50000

ASSUME NumbersAssumption == Numbers \subseteq Nat
ASSUME LimitsAssumption  ==
  /\ MaxWords \in Nat /\ MAX_SAMPS \in Nat \ {0}
  /\ SAMPLE_RATE \in Nat \ {0} /\ MAX_SAMPLE_RATE \in Nat

VARIABLES
  argv, args,       \* the words, and which one is looked at
  sample_count, sample_rate, testmode,
  fifo_name, ip_addr,   \* whether they were given
  reading           \* "options", "done", or "exit" after exit(1)

given    == <<sample_count, sample_rate, testmode, fifo_name, ip_addr>>
argsVars == <<argv, args, given, reading>>

Word == [opt : {"N", "R", "S", "U", "T", "F", "L", "?"}, num : {0}]
        \cup [opt : {"number"}, num : Numbers]
        \cup [opt : {"name"}, num : {0}]

ArgsInit ==
  /\ argv \in UNION {[1..n -> Word] : n \in 0..MaxWords}
  /\ args = 1
  /\ sample_count = 0 /\ sample_rate = SAMPLE_RATE /\ testmode = FALSE
  /\ fifo_name = FALSE /\ ip_addr = FALSE /\ reading = "options"

-----------------------------------------------------------------------------
Option(o) == reading = "options" /\ args <= Len(argv) /\ argv[args].opt = o

(* args<argc-1, and isdigit of the next word's first character             *)
HasNext  == args < Len(argv)
NextWord == argv[args + 1]
Digits   == HasNext /\ NextWord.opt = "number"

Skip(n)   == args' = args + n /\ UNCHANGED <<argv, reading>>

(* -N: 0 is reported and kept, too large a count is cut                    *)
Clamp(n) == IF n > MAX_SAMPS THEN MAX_SAMPS ELSE n

OptN ==
  /\ Option("N")
  /\ IF Digits THEN sample_count' = Clamp(NextWord.num) /\ Skip(2)
               ELSE UNCHANGED sample_count /\ Skip(1)
  /\ UNCHANGED <<sample_rate, testmode, fifo_name, ip_addr>>

(* -R: it is the rate so far that is tested; the number stays behind       *)
OptR ==
  /\ Option("R")
  /\ IF Digits /\ sample_rate <= MAX_SAMPLE_RATE
     THEN sample_rate' = NextWord.num /\ Skip(2)
     ELSE UNCHANGED sample_rate /\ Skip(1)
  /\ UNCHANGED <<sample_count, testmode, fifo_name, ip_addr>>

(* -S and -U take any word, an option too                                  *)
OptName ==
  /\ \/ Option("S") /\ fifo_name' = (fifo_name \/ HasNext)
        /\ UNCHANGED ip_addr
     \/ Option("U") /\ ip_addr' = (ip_addr \/ HasNext)
        /\ UNCHANGED fifo_name
  /\ Skip(IF HasNext THEN 2 ELSE 1)
  /\ UNCHANGED <<sample_count, sample_rate, testmode>>

OptOther ==
  /\ \/ Option("T") /\ testmode' = TRUE /\ Skip(1)
     \/ Option("F") /\ UNCHANGED testmode /\ Skip(IF Digits THEN 2 ELSE 1)
     \/ Option("L") /\ UNCHANGED testmode /\ Skip(1)
  /\ UNCHANGED <<sample_count, sample_rate, fifo_name, ip_addr>>

(* A word that does not begin with "-" is passed over.                     *)
NoOption ==
  /\ Option("number") \/ Option("name")
  /\ Skip(1)
  /\ UNCHANGED given

Unrecognised ==
  /\ Option("?")
  /\ reading' = "exit"
  /\ UNCHANGED <<argv, args, given>>

EndOfOptions ==
  /\ reading = "options" /\ args > Len(argv)
  /\ reading' = "done"
  /\ UNCHANGED <<argv, args, given>>

ReadOptions == OptN \/ OptR \/ OptName \/ OptOther \/ NoOption \/ Unrecognised
               \/ EndOfOptions

(* What main does, by the precedence of its tests.                         *)
Mode ==
  IF testmode THEN "test" ELSE IF sample_count = 0 THEN "sample"
  ELSE IF fifo_name THEN "fifo" ELSE IF ip_addr THEN "udp" ELSE "single"
=============================================================================
