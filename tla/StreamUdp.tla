----------------------------- MODULE StreamUdp ------------------------------
(***************************************************************************)
(* The main loop of rpi_adc_stream.c with option -U: do_streaming_udp      *)
(* fetches blocks as packets (PingPong with Fetch = "packet") and hands    *)
(* them to sendto, each call with the next serial number.                  *)
(*                                                                         *)
(* The network is left out: whatever it loses, duplicates or reorders, a   *)
(* receiver sees packets of the set "sent", and the properties are about   *)
(* what it can tell from any two of them.                                  *)
(***************************************************************************)
EXTENDS PingPong

CONSTANT SerialMod   \* number of serial numbers: 2^16, nm is a uint16_t

ASSUME SerialModAssumption == SerialMod \in Nat \ {0}
ASSUME UdpFetchesPackets   == Fetch = "packet"

VARIABLES
  up,     \* where do_streaming_udp is: "fetch" or "send"
  num,    \* the number of the call, in main
  pkt,    \* header in stream_buff: [magic, serial], and history: the call
          \* that made it, and late when the program was stalled then
  sent,   \* packets handed to sendto
  last,   \* history: block in the last of them
  skip    \* history: a block was given up, as an overrun, since then

udpVars == <<up, num, pkt, sent, last, skip>>
allVars == <<vars, udpVars>>

UdpInit ==
  /\ Init
  /\ up = "fetch" /\ num = 0
  /\ pkt = [magic |-> FALSE, serial |-> 0, call |-> 0, late |-> FALSE]
  /\ sent = {} /\ last = 0 /\ skip = FALSE

(* adc_stream_packet, one access after the other; it returns nsamp*2+10,   *)
(* whether it has made a packet or not                                     *)
Fetching == Enter \/ FetchStep

MakePacket ==
  /\ Emit(TRUE)
  /\ pkt' = [magic |-> TRUE, serial |-> num % SerialMod,
             call |-> num, late |-> stalled]

Packet ==
  /\ up = "fetch"
  /\ \/ Fetching   /\ UNCHANGED <<up, pkt>>
     \/ MakePacket /\ UNCHANGED up
     \/ Return     /\ up' = "send" /\ UNCHANGED pkt
  /\ skip' = (skip \/ gap')
  /\ UNCHANGED <<num, sent, last>>

(* What sendto is given: the header with the samples of the block          *)
Outgoing == [magic |-> pkt.magic, serial |-> pkt.serial, call |-> pkt.call,
             late |-> pkt.late, block |-> vals.usec]

(* Mutant: main forgets num++.                                             *)
SendSameNumber ==
  /\ up = "send"
  /\ sent' = sent \cup {Outgoing}
  /\ last' = vals.usec
  /\ skip' = IF vals.usec = last THEN skip ELSE FALSE
  /\ up' = "fetch"
  /\ UNCHANGED <<vars, pkt, num>>

(* sendto, then num++ in main                                              *)
Send ==
  /\ up = "send"
  /\ sent' = sent \cup {Outgoing}
  /\ last' = vals.usec
  /\ skip' = IF vals.usec = last THEN skip ELSE FALSE
  /\ num' = num + 1
  /\ up' = "fetch"
  /\ UNCHANGED <<vars, pkt>>

Program == Packet \/ Send
DmaStep == Dma /\ UNCHANGED udpVars

UdpNext == DmaStep \/ Program
UdpSpec == UdpInit /\ [][UdpNext]_allVars /\ WF_allVars(Program)
-----------------------------------------------------------------------------
(* Properties.                                                             *)

UdpTypeOK ==
  /\ TypeOK
  /\ up \in {"fetch", "send"} /\ num \in 0..MaxBlk
  /\ pkt \in [magic : BOOLEAN, serial : 0..(SerialMod - 1),
              call : 0..MaxBlk, late : BOOLEAN]
  /\ sent \subseteq [magic : BOOLEAN, serial : 0..(SerialMod - 1),
                     call : 0..MaxBlk, late : BOOLEAN, block : 0..MaxBlk]
  /\ last \in 0..MaxBlk /\ skip \in BOOLEAN

Sound == {p \in sent : p.magic /\ ~p.late}

(* q's serial number is ahead of p's, counted around the wrap.             *)
Half == SerialMod \div 2
Ahead(p, q) == (q.serial - p.serial) % SerialMod \in 1..(Half - 1)

(* The serial numbers order the data, also when they wrap: of two packets  *)
(* made without a stall of the program, in calls less than half of the     *)
(* numbers apart, the one that is ahead holds the newer block, and packets *)
(* with the same number are the same packet.  A receiver can undo any      *)
(* reordering and duplication within this distance.                        *)
SerialOrdersBlocks ==
  \A p, q \in Sound :
    q.call - p.call \in (1 - Half)..(Half - 1) =>
      /\ p.serial = q.serial => p = q
      /\ Ahead(p, q) <=> p.block < q.block

(* A packet in the buffer that was not sent is lost when the second buffer *)
(* is taken in the same call; this costs one block at a time.              *)
AtMostOneOverwritten ==
  up = "send" /\ ~stalled /\ ~skip => vals.usec - last \in 0..2

(* Every flag the DMA sets makes adc_stream_packet return.                 *)
FlagSent == /\ states[0] = 1 ~> up = "send"
            /\ states[1] = 1 ~> up = "send"

-----------------------------------------------------------------------------
(* "create packet: 2**15-1, 2**15, data_size, serial_number, ...": what    *)
(* adc_stream_packet returns to be sent is a packet with this call's       *)
(* serial number.  After an overrun it is not.                             *)
PacketMade == up = "send" => pkt.magic /\ pkt.serial = num % SerialMod

-----------------------------------------------------------------------------
(* The inductive invariant behind these properties (StreamUdp_proofs).     *)

(* A call returns only when it has seen a filled buffer: the samples       *)
(* counted bound the number of calls.                                      *)
CallInv ==
  /\ up = "send" => pc = "call"
  /\ pc \notin {"call", "test"} => done
  /\ NSamp * num <= samp_total
  /\ up = "send" \/ (pc # "call" /\ done) => NSamp * (num + 1) <= samp_total

(* What was sent: each packet of a call that is over, one for each call,   *)
(* in the order of the calls.                                              *)
SentInv ==
  /\ \A p \in sent : OlderThan(p.block)
  /\ \A p \in sent :
       p.magic => p.serial = p.call % SerialMod /\ p.call < num
  /\ \A p, q \in sent : p.magic /\ q.magic =>
       /\ p.call = q.call => p = q
       /\ ~q.late /\ p.call < q.call => p.block < q.block

(* The packet in the buffer is of this call and newer than those, or it    *)
(* was sent before.                                                        *)
PktInv ==
  pkt.magic =>
    /\ pkt.serial = pkt.call % SerialMod /\ pkt.call <= num
    /\ pkt.call # num => Outgoing \in sent
    /\ pkt.call = num /\ ~pkt.late => \A p \in sent : p.block < vals.usec

(* A call formats one block of each buffer at most.                        *)
StepInv ==
  /\ pc # "call" \/ up = "send" => (gap => skip)
  /\ up = "fetch" /\ pc = "call" => vals.usec = last
  /\ pc \notin {"call", "ret"} /\ (n = 0 \/ ~done) => vals.usec = last
  /\ pc \notin {"call", "ret"} /\ n = 1 /\ ~stalled /\ ~skip =>
       vals.usec - last \in 0..1
  /\ pc = "ret" /\ ~stalled /\ ~skip => vals.usec - last \in 0..2
  /\ AtMostOneOverwritten

UdpInv ==
  /\ IInv /\ UdpTypeOK /\ CallInv /\ SentInv /\ PktInv /\ StepInv
=============================================================================
