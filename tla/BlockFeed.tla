----------------------------- MODULE BlockFeed -----------------------------
(***************************************************************************)
(* What the receive side of rpi_adc_stream.c promises to whoever sends the *)
(* blocks on: a feed of whole blocks, each newer than the last, with every *)
(* omission on record.  The promise is suspended ("degraded") after the    *)
(* program was stalled for two whole blocks at the wrong moment, and       *)
(* restored by the next overrun.  PingPong implements this specification.  *)
(***************************************************************************)
EXTENDS Integers

CONSTANTS NSamp, MaxBlk

VARIABLES
  received,   \* complete blocks, numbered from 1
  out,        \* the block delivered last
  lossy,      \* blocks were given up since then, and this is on record
  degraded    \* the promise is suspended

vars == <<received, out, lossy, degraded>>

Word     == 1..NSamp
Whole(k) == [words |-> [j \in Word |-> k], usec |-> k]
Anything == [words : [Word -> 0..MaxBlk], usec : 0..MaxBlk]

Init == received = 0 /\ out = Whole(0) /\ lossy = FALSE /\ degraded = FALSE

Receive ==
  /\ received < MaxBlk - 1
  /\ received' = received + 1
  /\ UNCHANGED <<out, lossy, degraded>>

(* An overrun, which restores the promise unless it is itself interrupted  *)
(* for too long, or a block discarded on purpose.                          *)
GiveUp ==
  /\ lossy' = TRUE
  /\ degraded' \in BOOLEAN
  /\ UNCHANGED <<received, out>>

Stall ==
  /\ degraded' = TRUE
  /\ UNCHANGED <<received, out, lossy>>

Deliver ==
  /\ IF degraded
     THEN out' \in Anything
     ELSE \E k \in (out.usec + 1)..received :
            /\ lossy \/ k = out.usec + 1
            /\ out' = Whole(k)
  /\ lossy' = FALSE
  /\ UNCHANGED <<received, degraded>>

Next == Receive \/ GiveUp \/ Stall \/ Deliver
Spec == Init /\ [][Next]_vars
=============================================================================
