-------------------------- MODULE StreamUdp_proofs --------------------------
(***************************************************************************)
(* Proofs about StreamUdp, for every number SerialMod of serial numbers,   *)
(* every block length and every number of blocks.  As with the FIFO, each  *)
(* step is one of PingPong or leaves the buffers alone (UdpStep); UdpInv   *)
(* adds what was sent, and the arithmetic of the wrapping serial numbers   *)
(* is only needed to read SerialOrdersBlocks off it.                       *)
(***************************************************************************)
EXTENDS StreamUdp, PingPong_proofs

-----------------------------------------------------------------------------
(* Arithmetic.                                                             *)

(* Calls are bounded by the blocks they were paid with.                    *)
LEMMA MulCancel ==
  ASSUME NEW a \in Int, NEW b \in Int, NSamp * a <= NSamp * b
  PROVE  a <= b
<1> SUFFICES ASSUME b + 1 <= a PROVE FALSE
  OBVIOUS
<1>1. a - b - 1 \in Nat
  OBVIOUS
<1>2. NSamp * (a - b - 1) >= 0
  BY <1>1, NSampAssumption
<1>3. NSamp * (a - b - 1) = NSamp * a - NSamp * b - NSamp
  BY NSampAssumption
<1> QED BY <1>2, <1>3, NSampAssumption

(* A serial number is the call less a multiple of the numbers there are.   *)
LEMMA Serial ==
  ASSUME NEW a \in Int
  PROVE  /\ a % SerialMod \in 0..(SerialMod - 1)
         /\ \E k \in Int : a = SerialMod * k + (a % SerialMod)
<1>1. a % SerialMod \in 0..(SerialMod - 1)
  BY SerialModAssumption
<1>2. a = SerialMod * (a \div SerialMod) + (a % SerialMod)
      /\ a \div SerialMod \in Int
  BY SerialModAssumption
<1> QED BY <1>1, <1>2

(* There is only one such number.                                          *)
LEMMA SerialUnique ==
  ASSUME NEW k \in Int, NEW l \in Int,
         NEW r \in 0..(SerialMod - 1), NEW s \in 0..(SerialMod - 1),
         SerialMod * k + r = SerialMod * l + s
  PROVE  k = l /\ r = s
<1>1. SerialMod * (k - l) = SerialMod * k - SerialMod * l
      /\ SerialMod * (k - l) \in Int
  BY SerialModAssumption
<1>2. SerialMod * (k - l) < SerialMod /\ SerialMod * (k - l) > 0 - SerialMod
  <2>1. SerialMod * k \in Int /\ SerialMod * l \in Int
    BY SerialModAssumption
  <2> QED BY <1>1, <2>1, SerialModAssumption
<1>3. k = l
  <2>1. CASE k >= l + 1
    <3>1. SerialMod * (k - l) >= SerialMod
      <4>1. k - l - 1 \in Nat
        BY <2>1
      <4>2. SerialMod * (k - l - 1) >= 0
        BY <4>1, SerialModAssumption
      <4>3. SerialMod * (k - l) = SerialMod * (k - l - 1) + SerialMod
        BY SerialModAssumption
      <4> QED BY <4>2, <4>3, SerialModAssumption
    <3> QED BY <1>1, <1>2, <3>1, SerialModAssumption
  <2>2. CASE l >= k + 1
    <3>1. SerialMod * (k - l) <= 0 - SerialMod
      <4>1. l - k - 1 \in Nat
        BY <2>2
      <4>2. SerialMod * (l - k - 1) >= 0
        BY <4>1, SerialModAssumption
      <4>3. SerialMod * (k - l) = 0 - SerialMod * (l - k - 1) - SerialMod
        BY SerialModAssumption
      <4> QED BY <4>2, <4>3, SerialModAssumption
    <3> QED BY <1>1, <1>2, <3>1, SerialModAssumption
  <2> QED BY <2>1, <2>2
<1>4. SerialMod * k \in Int
  BY SerialModAssumption
<1> QED BY <1>3, <1>4, SerialModAssumption

(* The difference of two serial numbers, counted around the wrap, is the   *)
(* difference of the calls, when these are less than half of the numbers   *)
(* apart.                                                                  *)
LEMMA SerialDistance ==
  ASSUME NEW a \in Int, NEW b \in Int, b - a \in (1 - Half)..(Half - 1)
  PROVE  /\ a % SerialMod = b % SerialMod => a = b
         /\ ((b % SerialMod) - (a % SerialMod)) % SerialMod \in 1..(Half - 1)
              <=> a < b
<1> DEFINE d == b - a
           e == (b % SerialMod) - (a % SerialMod)
           r == IF d < 0 THEN d + SerialMod ELSE d
<1>1. Half \in Nat /\ 2 * Half <= SerialMod /\ SerialMod \in Nat \ {0}
  BY SerialModAssumption DEF Half
<1>2. PICK k \in Int : a = SerialMod * k + (a % SerialMod)
  BY Serial
<1>3. PICK l \in Int : b = SerialMod * l + (b % SerialMod)
  BY Serial
<1>4. /\ a % SerialMod \in 0..(SerialMod - 1)
      /\ b % SerialMod \in 0..(SerialMod - 1)
  BY Serial
<1>5. /\ d \in Int /\ d < SerialMod /\ 0 - SerialMod < d
      /\ r \in 0..(SerialMod - 1)
  BY <1>1
<1>6. e \in Int
  BY <1>4
<1>7. PICK m \in Int : e = SerialMod * m + (e % SerialMod)
  BY <1>6, Serial
<1>8. e % SerialMod \in 0..(SerialMod - 1)
  BY <1>6, Serial
<1>9. e % SerialMod = r
  <2>1. /\ SerialMod * k \in Int /\ SerialMod * l \in Int
        /\ SerialMod * (k - l) = SerialMod * k - SerialMod * l
    BY <1>1
  <2>2. e = SerialMod * (k - l) + d
    BY <1>2, <1>3, <1>4, <2>1
  <2>3. SerialMod * (k - l - 1) = SerialMod * (k - l) - SerialMod
    BY <1>1
  <2>4. \E j \in Int : e = SerialMod * j + r
    <3>1. CASE d < 0
      <4>1. e = SerialMod * (k - l - 1) + r /\ k - l - 1 \in Int
        BY <1>1, <1>5, <2>1, <2>2, <2>3, <3>1
      <4> QED BY <4>1
    <3>2. CASE ~(d < 0)
      <4>1. e = SerialMod * (k - l) + r /\ k - l \in Int
        BY <2>2, <3>2
      <4> QED BY <4>1
    <3> QED BY <3>1, <3>2
  <2>5. PICK j \in Int : e = SerialMod * j + r
    BY <2>4
  <2> HIDE DEF e, r, d
  <2> QED BY <1>5, <1>7, <1>8, <2>5, SerialUnique
<1>10. a % SerialMod = b % SerialMod => a = b
  <2> HAVE a % SerialMod = b % SerialMod
  <2>1. e = 0
    BY <1>4
  <2>2. 0 % SerialMod = 0
    BY <1>1
  <2>3. r = 0
    BY <1>9, <2>1, <2>2
  <2> QED BY <1>1, <1>5, <2>3
<1>11. r \in 1..(Half - 1) <=> a < b
  BY <1>1, <1>5
<1> QED BY <1>9, <1>10, <1>11

-----------------------------------------------------------------------------
(* The invariant holds initially.                                          *)

(* main begins with call 0, no packet made and none sent.                  *)
THEOREM UdpInitInv == UdpInit => UdpInv
<1> SUFFICES ASSUME UdpInit PROVE UdpInv
  OBVIOUS
<1>1. IInv /\ TypeOK
  BY InitIInv DEF UdpInit, IInv
<1>2. /\ pc = "call" /\ vals.usec = 0 /\ samp_total = 0 /\ gap = FALSE
      /\ n = 0
  BY DEF UdpInit, Init, CpuInit
<1>3. /\ up = "fetch" /\ num = 0 /\ sent = {} /\ last = 0 /\ skip = FALSE
      /\ pkt = [magic |-> FALSE, serial |-> 0, call |-> 0, late |-> FALSE]
  BY DEF UdpInit
<1>4. UdpTypeOK
  <2>1. pkt \in [magic : BOOLEAN, serial : 0..(SerialMod - 1),
                call : 0..MaxBlk, late : BOOLEAN]
    BY <1>3, MaxBlkAssumption, SerialModAssumption
  <2>2. num \in 0..MaxBlk /\ last \in 0..MaxBlk
    BY <1>3, MaxBlkAssumption
  <2>3. skip \in BOOLEAN
    BY DEF UdpInit
  <2> QED BY <1>1, <1>3, <2>1, <2>2, <2>3 DEF UdpTypeOK
<1>5. CallInv
  BY <1>2, <1>3, NSampAssumption DEF CallInv
<1>6. SentInv /\ PktInv
  BY <1>3 DEF SentInv, PktInv
<1>7. StepInv
  BY <1>2, <1>3 DEF StepInv, AtMostOneOverwritten
<1> QED BY <1>1, <1>4, <1>5, <1>6, <1>7 DEF UdpInv

-----------------------------------------------------------------------------
(* What a step does.                                                       *)

(* Every step of the loop is a step of the receive side, or none.          *)
LEMMA UdpStep ==
  ASSUME [UdpNext]_allVars PROVE [Next]_vars
  BY DEF UdpNext, DmaStep, Program, Packet, Fetching, MakePacket, Send,
     allVars, Next, Cpu

(* adc_stream_packet returns only when it has seen a filled buffer.        *)
LEMMA ReturnsWithData ==
  ASSUME NEW d, EndOfBuffer(d) \/ EndOfScan(d), pc' = "ret"
  PROVE  d
  BY UdpFetchesPackets DEF EndOfBuffer, EndOfScan

(* The DMA does not count, number or send.                                 *)
LEMMA DmaLeaves ==
  ASSUME DmaStep
  PROVE  UNCHANGED <<loopVars, pc, n, done, dataVars, vals, samp_total,
                     stalled, gap, udpVars, up, num, pkt, sent, last, skip>>
  BY DEF DmaStep, Dma, DmaUsec, DmaWord, DmaState, histVars, loopVars,
     dataVars, udpVars

(* The step in which a call returns leaves all as it was for sendto.       *)
LEMMA ReturnLeaves ==
  ASSUME Return
  PROVE  pc = "ret" /\ pc' = "call" /\ UNCHANGED <<dmaVars, n, done, vals,
         samp_total, stalled, gap>>
  BY DEF Return, dataVars, histVars

(* Where the counting of samples, calls and rounds stands.                 *)
LEMMA CallStep ==
  ASSUME UdpInv, [UdpNext]_allVars PROVE CallInv'
<1> USE DEF UdpInv
<1>1. NSamp * (num + 1) = NSamp * num + NSamp
      /\ NSamp * num \in Int /\ samp_total \in Nat /\ num \in Nat
  BY NSampAssumption DEF UdpTypeOK, TypeOK
<1>2. CASE DmaStep \/ UNCHANGED allVars
  BY <1>2, DmaLeaves DEF CallInv, allVars, vars, loopVars, dataVars, udpVars
<1>3. CASE Send
  <2>1. /\ up = "send" /\ up' = "fetch" /\ num' = num + 1
        /\ UNCHANGED <<pc, done, samp_total>>
    BY <1>3 DEF Send, vars, loopVars, dataVars
  <2> QED BY <2>1 DEF CallInv
<1>4. CASE Packet
  <2>1. up = "fetch" /\ num' = num
    BY <1>4 DEF Packet
  <2>2. CASE Enter
    <3>1. pc' = "test" /\ done' = FALSE /\ samp_total' = samp_total
      BY <2>2 DEF Enter, dataVars
    <3>2. up' = "fetch"
      BY <1>4, <2>1, <2>2 DEF Packet, Enter, Return
    <3> QED BY <2>1, <3>1, <3>2 DEF CallInv
  <2>3. CASE Test
    <3>1. pc = "test" /\ up' = "fetch"
      BY <1>4, <2>1, <2>3 DEF Packet, Test, Return
    <3>2. CASE EndOfBuffer(done) /\ UNCHANGED <<done, samp_total>>
      <4>1. pc' \in {"ret", "test"} /\ (pc' = "ret" => done)
        BY <3>2, EndOfBufferNext, ReturnsWithData DEF IInv
      <4> QED BY <2>1, <3>1, <3>2, <4>1 DEF CallInv
    <3>3. CASE pc' = "copy" /\ done' /\ samp_total' = samp_total + NSamp
      BY <1>1, <2>1, <3>1, <3>3, NSampAssumption DEF CallInv
    <3> QED BY <2>3, <3>2, <3>3, UdpFetchesPackets DEF Test
  <2>4. CASE CopyWord \/ Stamp \/ Check \/ DropSecond \/ Clear
    <3>1. /\ pc \notin {"call", "test"} /\ pc' # "call" /\ pc # "ret"
          /\ UNCHANGED <<done, samp_total>>
      BY <2>4 DEF CopyWord, Stamp, Check, DropSecond, Clear, dataVars
    <3>2. up' = "fetch"
      BY <1>4, <2>1, <3>1 DEF Packet, Return
    <3> QED BY <2>1, <3>1, <3>2 DEF CallInv
  <2>5. CASE DropFirst \/ Emit(TRUE)
    <3>1. /\ pc \in {"drop0", "emit"} /\ samp_total' = samp_total /\ done
          /\ done'
      BY <2>5 DEF DropFirst, Emit, CallInv
    <3>2. pc' # "call"
      BY <2>5, EndOfBufferNext, EndOfScanNext DEF DropFirst, Emit, IInv
    <3>3. up' = "fetch"
      BY <1>4, <2>1, <3>1 DEF Packet, Return
    <3> QED BY <2>1, <3>1, <3>2, <3>3 DEF CallInv
  <2>6. CASE Return
    BY <2>1, <2>6, ReturnLeaves DEF CallInv
  <2> QED BY <1>4, <2>2, <2>3, <2>4, <2>5, <2>6
          DEF Packet, Fetching, FetchStep, MakePacket
<1> QED BY <1>2, <1>3, <1>4 DEF UdpNext, Program

(* Calls do not outnumber blocks.                                          *)
LEMMA CallsBounded ==
  ASSUME UdpInv, up = "send" PROVE num + 1 \in 0..MaxBlk
<1>1. NSamp * (num + 1) <= samp_total /\ samp_total <= NSamp * (blk - 1)
  BY CountBounds DEF UdpInv, CallInv, SampTotalBound
<1>2. num + 1 \in Nat /\ blk - 1 \in Int /\ blk - 1 <= MaxBlk
  BY MaxBlkAssumption DEF UdpInv, UdpTypeOK, TypeOK
<1>3. /\ NSamp * (num + 1) \in Int /\ NSamp * (blk - 1) \in Int
      /\ samp_total \in Int
  BY <1>2, NSampAssumption DEF UdpInv, UdpTypeOK, TypeOK
<1>4. num + 1 <= blk - 1
  BY <1>1, <1>2, <1>3, MulCancel
<1> QED BY <1>2, <1>4, MaxBlkAssumption

(* The types of the packets and counters.                                  *)
LEMMA UdpTypeStep ==
  ASSUME UdpInv, TypeOK', [UdpNext]_allVars PROVE UdpTypeOK'
<1> USE DEF UdpInv
<1>1. CASE DmaStep \/ UNCHANGED allVars
  BY <1>1, DmaLeaves DEF UdpTypeOK, allVars, udpVars
<1>2. CASE Send
  <2>1. /\ up = "send" /\ up' = "fetch" /\ num' = num + 1 /\ pkt' = pkt
        /\ sent' = sent \cup {Outgoing} /\ last' = vals.usec
        /\ skip' = IF vals.usec = last THEN skip ELSE FALSE
    BY <1>2 DEF Send
  <2>2. /\ vals.usec \in 0..MaxBlk
        /\ Outgoing \in [magic : BOOLEAN, serial : 0..(SerialMod - 1),
                          call : 0..MaxBlk, late : BOOLEAN, block : 0..MaxBlk]
    BY DEF Outgoing, UdpTypeOK, TypeOK, BlockRec
  <2>3. num' \in 0..MaxBlk
    BY <2>1, CallsBounded
  <2>4. skip' \in BOOLEAN
    BY <2>1 DEF UdpTypeOK
  <2>5. sent' \subseteq [magic : BOOLEAN, serial : 0..(SerialMod - 1),
                         call : 0..MaxBlk, late : BOOLEAN, block : 0..MaxBlk]
    BY <2>1, <2>2 DEF UdpTypeOK
  <2>6. pkt' \in [magic : BOOLEAN, serial : 0..(SerialMod - 1),
                  call : 0..MaxBlk, late : BOOLEAN]
    BY <2>1 DEF UdpTypeOK
  <2>7. up' \in {"fetch", "send"} /\ last' \in 0..MaxBlk
    BY <2>1, <2>2
  <2> QED BY <2>3, <2>4, <2>5, <2>6, <2>7 DEF UdpTypeOK
<1>3. CASE Packet
  <2>1. up' \in {"fetch", "send"} /\ UNCHANGED <<num, sent, last>>
    BY <1>3 DEF Packet
  <2>2. skip' \in BOOLEAN
    BY <1>3 DEF Packet, UdpTypeOK, TypeOK
  <2>3. pkt' \in [magic : BOOLEAN, serial : 0..(SerialMod - 1),
                  call : 0..MaxBlk, late : BOOLEAN]
    <3>1. CASE pkt' = pkt
      BY <3>1 DEF UdpTypeOK
    <3>2. CASE MakePacket
      <4>1. pkt' = [magic |-> TRUE, serial |-> num % SerialMod, call |-> num,
                    late |-> stalled]
        BY <3>2 DEF MakePacket
      <4>2. num % SerialMod \in 0..(SerialMod - 1)
        BY Serial DEF UdpTypeOK
      <4>3. num \in 0..MaxBlk /\ stalled \in BOOLEAN
        BY DEF UdpTypeOK, TypeOK
      <4> QED BY <4>1, <4>2, <4>3
    <3> QED BY <1>3, <3>1, <3>2 DEF Packet
  <2> QED BY <2>1, <2>2, <2>3 DEF UdpTypeOK
<1> QED BY <1>1, <1>2, <1>3 DEF UdpNext, Program

-----------------------------------------------------------------------------
(* What was sent.                                                          *)

(* Of two packets that were sent, the one of the later call holds the      *)
(* newer block: the packet that joins them was made in this call and from  *)
(* a block newer than all that were sent, or is one of them again.         *)
LEMMA SentStep ==
  ASSUME UdpInv, [UdpNext]_allVars PROVE SentInv'
<1> USE DEF UdpInv
<1>1. ASSUME NEW p \in sent PROVE OlderThan(p.block)'
  <2>1. p.block \in Nat /\ OlderThan(p.block)
    BY <1>1 DEF UdpTypeOK, SentInv
  <2> QED BY <2>1, UdpStep, OlderStep
<1>2. CASE ~Send
  <2>1. sent' = sent /\ num' = num
    BY <1>2 DEF UdpNext, Program, Packet, DmaStep, udpVars, allVars
  <2> QED BY <1>1, <2>1 DEF SentInv
<1>3. CASE Send
  <2>1. /\ up = "send" /\ pc = "call" /\ num' = num + 1
        /\ sent' = sent \cup {Outgoing} /\ UNCHANGED vars
    BY <1>3 DEF Send, CallInv
  <2>2. PICK r : r = Outgoing
    OBVIOUS
  <2>3. /\ r.magic = pkt.magic /\ r.serial = pkt.serial /\ r.call = pkt.call
        /\ r.late = pkt.late /\ r.block = vals.usec
        /\ num \in Nat /\ r.call \in Nat /\ r.block \in Nat
    BY <2>2 DEF Outgoing, UdpTypeOK, TypeOK, BlockRec
  <2>4. OlderThan(r.block)'
    <3>1. OlderThan(r.block)
      BY <2>1, <2>3, ValsOlder DEF OlderThan
    <3> QED BY <2>3, <3>1, UdpStep, OlderStep
  <2>5. sent' = sent \cup {r}
    BY <2>1, <2>2
  <2>6. \A p \in sent' : OlderThan(p.block)'
    BY <1>1, <2>4, <2>5
  <2>7. /\ \A p \in sent : p.call \in Nat /\ p.block \in Nat
        /\ \A p \in sent :
             p.magic => p.serial = p.call % SerialMod /\ p.call < num
    BY DEF UdpTypeOK, SentInv
  <2>8. r.magic => r.serial = r.call % SerialMod /\ r.call < num'
    BY <2>1, <2>3 DEF PktInv
  <2>9. \A p \in sent' :
          p.magic => p.serial = p.call % SerialMod /\ p.call < num'
    BY <2>1, <2>3, <2>5, <2>7, <2>8
  <2>10. ASSUME r.magic, r \notin sent, NEW p \in sent, p.magic
         PROVE  p.call < r.call /\ (~r.late => p.block < r.block)
    <3>1. r.call = num
      BY <2>2, <2>3, <2>10 DEF PktInv
    <3> QED BY <2>3, <2>7, <2>10, <3>1 DEF PktInv
  <2>11. ASSUME NEW p \in sent', NEW q \in sent', p.magic, q.magic
         PROVE  /\ p.call = q.call => p = q
                /\ ~q.late /\ p.call < q.call => p.block < q.block
    <3>1. CASE p \in sent /\ q \in sent
      BY <2>11, <3>1 DEF SentInv
    <3>2. CASE p \in sent /\ q = r /\ r \notin sent
      BY <2>3, <2>7, <2>10, <2>11, <3>2
    <3>3. CASE p = r /\ r \notin sent /\ q \in sent
      BY <2>3, <2>7, <2>10, <2>11, <3>3
    <3>4. CASE p = r /\ q = r
      BY <2>3, <3>4
    <3> QED BY <2>5, <3>1, <3>2, <3>3, <3>4
  <2> QED BY <2>6, <2>9, <2>11 DEF SentInv
<1> QED BY <1>2, <1>3

(* The packet in the buffer: made in this call, or sent before.            *)
LEMMA PktStep ==
  ASSUME UdpInv, [UdpNext]_allVars PROVE PktInv'
<1> USE DEF UdpInv
<1>1. CASE UNCHANGED <<pkt, vals, sent, num>>
  BY <1>1 DEF PktInv, Outgoing
<1>2. CASE Send
  <2>1. /\ num' = num + 1 /\ pkt' = pkt /\ sent' = sent \cup {Outgoing}
        /\ UNCHANGED vals
    BY <1>2 DEF Send, vars, dataVars
  <2>2. Outgoing' = Outgoing
    BY <2>1 DEF Outgoing
  <2>3. pkt.call \in Nat /\ num \in Nat
    BY DEF UdpTypeOK
  <2>4. pkt'.magic => /\ pkt'.serial = pkt'.call % SerialMod
                      /\ pkt'.call <= num' /\ pkt'.call # num'
    BY <2>1, <2>3 DEF PktInv
  <2>5. Outgoing' \in sent'
    BY <2>1, <2>2
  <2> QED BY <2>4, <2>5 DEF PktInv
<1>3. CASE MakePacket /\ UNCHANGED <<num, sent>>
  <2>1. /\ pkt' = [magic |-> TRUE, serial |-> num % SerialMod,
                   call |-> num, late |-> stalled]
        /\ vals'.usec = usec /\ pc = "emit"
    BY <1>3 DEF MakePacket, Emit
  <2>2. /\ pkt'.call = num /\ pkt'.serial = num % SerialMod
        /\ pkt'.late = stalled /\ num \in Nat
    BY <2>1 DEF UdpTypeOK
  <2>3. \A p \in sent : ~stalled => p.block < usec
    BY <2>1 DEF SentInv, OlderThan
  <2> QED BY <1>3, <2>1, <2>2, <2>3 DEF PktInv
<1>4. CASE Packet /\ ~MakePacket
  <2>1. UNCHANGED <<pkt, num, sent>> /\ (Enter \/ FetchStep \/ Return)
    BY <1>4 DEF Packet, Fetching
  <2>2. UNCHANGED vals
    BY <2>1 DEF Enter, FetchStep, Return, Test, CopyWord, Stamp, Check,
       DropSecond, DropFirst, Clear, dataVars
  <2> QED BY <1>1, <2>1, <2>2
<1>5. CASE DmaStep \/ UNCHANGED allVars
  BY <1>1, <1>5, DmaLeaves DEF allVars, vars, dataVars, udpVars
<1> QED BY <1>2, <1>3, <1>4, <1>5 DEF UdpNext, Program, Packet

-----------------------------------------------------------------------------
(* How far a call gets.                                                    *)

(* A call formats at most one block of each buffer, and each is the        *)
(* successor of the block before it unless one was given up.               *)
LEMMA RoundStep ==
  ASSUME UdpInv, [UdpNext]_allVars PROVE StepInv'
<1> USE DEF UdpInv
<1>1. CASE DmaStep \/ UNCHANGED allVars
  BY <1>1, DmaLeaves DEF StepInv, AtMostOneOverwritten, allVars, vars,
     loopVars, dataVars, histVars, udpVars
<1>2. CASE Send
  <2>1. /\ up = "send" /\ up' = "fetch" /\ last' = vals.usec
        /\ UNCHANGED <<pc, vals>>
    BY <1>2 DEF Send, vars, loopVars, dataVars
  <2>2. pc' = "call" /\ vals'.usec = last'
    BY <2>1 DEF CallInv
  <2> QED BY <2>1, <2>2 DEF StepInv, AtMostOneOverwritten
<1>3. CASE Packet
  <2>1. up = "fetch" /\ last' = last /\ (gap' => skip') /\ (skip => skip')
    BY <1>3 DEF Packet
  <2>2. CASE Enter
    <3>1. /\ pc = "call" /\ pc' = "test" /\ n' = 0 /\ vals' = vals
          /\ up' = "fetch"
      BY <1>3, <2>1, <2>2 DEF Packet, Enter, Return, dataVars
    <3> QED BY <2>1, <3>1 DEF StepInv, AtMostOneOverwritten
  <2>3. CASE Test /\ EndOfBuffer(done) /\ UNCHANGED done
    <3>1. /\ pc = "test" /\ up' = "fetch"
          /\ UNCHANGED <<vals, stalled, gap>>
      BY <1>3, <2>1, <2>3 DEF Packet, Test, Return, histVars
    <3>2. \/ n = 0 /\ n' = 1 /\ pc' = "test"
          \/ n = 1 /\ pc' = "ret"
          \/ n = 1 /\ n' = 0 /\ pc' = "test" /\ ~done
      BY <2>3, UdpFetchesPackets DEF EndOfBuffer, EndOfScan, IInv, TypeOK, Buf
    <3>3. vals.usec \in Int /\ last \in Int
      BY DEF TypeOK, BlockRec, UdpTypeOK
    <3> QED BY <2>1, <2>3, <3>1, <3>2, <3>3 DEF StepInv, AtMostOneOverwritten
  <2>4. CASE Test /\ pc' = "copy" /\ UNCHANGED n /\ done'
    <3>1. /\ pc = "test" /\ up' = "fetch"
          /\ UNCHANGED <<vals, stalled, gap>>
      BY <1>3, <2>1, <2>4 DEF Packet, Test, Return, histVars
    <3>2. vals.usec \in Int /\ last \in Int /\ n \in {0, 1}
      BY DEF TypeOK, BlockRec, UdpTypeOK, Buf
    <3> QED BY <2>1, <2>4, <3>1, <3>2 DEF StepInv, AtMostOneOverwritten
  <2>5. CASE CopyWord \/ Stamp \/ Check \/ DropSecond \/ Clear
    <3>1. /\ pc \notin {"call", "ret"} /\ pc' \notin {"call", "ret"}
          /\ UNCHANGED <<vals, gap, n, done>>
      BY <2>5 DEF CopyWord, Stamp, Check, DropSecond, Clear, dataVars, histVars
    <3>s. stalled => stalled'
      BY <2>5 DEF CopyWord, Stamp, Check, DropSecond, Clear, dataVars, histVars
    <3>2. up' = "fetch"
      BY <1>3, <2>1, <3>1 DEF Packet, Return
    <3> QED BY <2>1, <3>1, <3>s, <3>2 DEF StepInv, AtMostOneOverwritten
  <2>6. CASE DropFirst
    <3>1. /\ pc = "drop0" /\ pc' = "ret" /\ gap' = TRUE
      BY <2>6 DEF DropFirst, EndOfScan, CallInv
    <3>2. up' = "fetch" /\ skip'
      BY <1>3, <2>1, <3>1 DEF Packet, Return
    <3> QED BY <3>1, <3>2 DEF StepInv, AtMostOneOverwritten
  <2>7. CASE Emit(TRUE)
    <3>1. /\ pc = "emit" /\ vals'.usec = usec /\ gap' = FALSE
          /\ stalled' = stalled /\ done'
      BY <2>7 DEF Emit
    <3>2. \/ n = 0 /\ n' = 1 /\ pc' = "test"
          \/ n = 1 /\ pc' = "ret"
      BY <2>7, <3>1, UdpFetchesPackets
      DEF Emit, EndOfBuffer, EndOfScan, IInv, TypeOK, Buf
    <3>3. up' = "fetch"
      BY <1>3, <2>1, <3>1 DEF Packet, Return
    <3>4. ~stalled /\ ~skip => usec = vals.usec + 1
      BY <3>1 DEF StepInv, IInv, GapInv, NoSilentLoss
    <3>5. vals.usec \in Int /\ last \in Int
      BY DEF TypeOK, BlockRec, UdpTypeOK
    <3> QED BY <2>1, <3>1, <3>2, <3>3, <3>4, <3>5
            DEF StepInv, AtMostOneOverwritten
  <2>8. CASE Return
    <3>1. up' = "send"
      BY <1>3, <2>8 DEF Packet, Return, Fetching, MakePacket, Enter, FetchStep,
         Test, CopyWord, Stamp, Check, DropSecond, DropFirst, Clear, Emit
    <3> QED BY <2>1, <2>8, <3>1, ReturnLeaves
            DEF StepInv, AtMostOneOverwritten
  <2>9. Test => \/ Test /\ EndOfBuffer(done) /\ UNCHANGED done
                \/ Test /\ pc' = "copy" /\ UNCHANGED n /\ done'
    BY UdpFetchesPackets DEF Test
  <2> QED BY <1>3, <2>2, <2>3, <2>4, <2>5, <2>6, <2>7, <2>8, <2>9
          DEF Packet, Fetching, FetchStep, MakePacket
<1> QED BY <1>1, <1>2, <1>3 DEF UdpNext, Program

-----------------------------------------------------------------------------
(* The theorems.                                                           *)

(* No step of the loop or of the DMA breaks the invariant.                 *)
THEOREM UdpInvNext == UdpInv /\ [UdpNext]_allVars => UdpInv'
<1> SUFFICES ASSUME UdpInv, [UdpNext]_allVars PROVE UdpInv'
  OBVIOUS
<1>1. IInv' /\ TypeOK'
  BY UdpStep, IInvNext DEF UdpInv, IInv
<1> QED BY <1>1, UdpTypeStep, CallStep, SentStep, PktStep, RoundStep
        DEF UdpInv

(* The inductive invariant holds in every reachable state.                 *)
THEOREM UdpInvariance == UdpSpec => []UdpInv
  BY UdpInitInv, UdpInvNext, PTL DEF UdpSpec

(* Call numbers, serial numbers and packets stay in their ranges: no more  *)
(* calls than blocks.                                                      *)
THEOREM UdpTypeCorrect == UdpSpec => []UdpTypeOK
<1>1. UdpInv => UdpTypeOK
  BY DEF UdpInv
<1> QED BY UdpInvariance, <1>1, PTL

(* The serial numbers main counts order the packets of do_streaming_udp    *)
(* within half a wrap, whatever the network does to them.                  *)
THEOREM SerialsOrder == UdpSpec => []SerialOrdersBlocks
<1>1. UdpInv => SerialOrdersBlocks
  <2> SUFFICES ASSUME UdpInv, NEW p \in Sound, NEW q \in Sound,
                      q.call - p.call \in (1 - Half)..(Half - 1)
               PROVE  /\ p.serial = q.serial => p = q
                      /\ Ahead(p, q) <=> p.block < q.block
    BY DEF SerialOrdersBlocks
  <2>1. /\ p \in sent /\ q \in sent /\ p.magic /\ q.magic
        /\ ~p.late /\ ~q.late
    BY DEF Sound
  <2>2. /\ p.call \in Nat /\ q.call \in Nat
        /\ p.block \in Nat /\ q.block \in Nat
    BY <2>1 DEF UdpInv, UdpTypeOK
  <2>3. /\ p.serial = p.call % SerialMod /\ q.serial = q.call % SerialMod
        /\ p.call = q.call => p = q
        /\ p.call < q.call => p.block < q.block
        /\ q.call < p.call => q.block < p.block
    BY <2>1 DEF UdpInv, SentInv
  <2>4. /\ p.serial = q.serial => p.call = q.call
        /\ Ahead(p, q) <=> p.call < q.call
    BY <2>2, <2>3, SerialDistance DEF Ahead
  <2> QED BY <2>2, <2>3, <2>4
<1> QED BY UdpInvariance, <1>1, PTL

(* adc_stream_packet overwrites one unsent packet at most.                 *)
THEOREM OneOverwritten == UdpSpec => []AtMostOneOverwritten
<1>1. UdpInv => AtMostOneOverwritten
  BY DEF UdpInv, StepInv
<1> QED BY UdpInvariance, <1>1, PTL

(* Seen from the buffers, sending changes nothing: the streamer with -U    *)
(* implements the feed of whole blocks in order.                           *)
THEOREM UdpFeeds == UdpSpec => ImplementsFeed
<1>1. UdpInit => Feed!Init
  BY FeedInit DEF UdpInit
<1>2. UdpInv /\ [UdpNext]_allVars => [Feed!Next]_(Feed!vars)
  BY UdpStep, FeedNext DEF UdpInv
<1> QED BY UdpInvariance, <1>1, <1>2, PTL DEF UdpSpec, ImplementsFeed,
           Feed!Spec

-----------------------------------------------------------------------------
(* Every flag is sent for.  The hypotheses are those of FlagsAreServed in  *)
(* PingPong_proofs: that the program can move, and that memcpy returns.    *)

(* adc_stream_packet is called, or looks at the buffer m, while the flag b *)
(* is set; then it has seen a filled buffer, and is at p, with m.          *)
Called(b)    == up = "fetch" /\ states[b] = 1 /\ pc = "call"
Looks(b, m)  == up = "fetch" /\ states[b] = 1 /\ pc = "test" /\ n = m
Has(p)       == up = "fetch" /\ done /\ pc = p
HasAt(p, m)  == Has(p) /\ n = m
Takes        == up = "fetch" /\ done /\ pc \notin {"call", "test"}
Sending      == up = "send"

(* There is, or was in this call, a filled buffer, and nothing is sent yet.*)
Busy == up = "fetch" /\ (Pending \/ (done /\ pc # "call"))

(* From P the program goes to Q, and nobody takes it anywhere else; when   *)
(* it copies, with its last word.                                          *)
Moves(P, Q) ==
  /\ P => Busy
  /\ UdpInv /\ P /\ [UdpNext]_allVars => (P \/ Q)'
  /\ UdpInv /\ P /\ <<Program>>_allVars => Q'
Fills(P, Q) ==
  /\ P => Copying
  /\ UdpInv /\ P /\ [UdpNext]_allVars => (P \/ Q)'

UdpScheduled == [][UdpNext]_allVars /\ WF_allVars(Program)
UdpNeverStuck == [](Busy => ENABLED <<Program>>_allVars)

(* The DMA leaves the program where it is, and the flag set.               *)
LEMMA UdpKeeps ==
  ASSUME UdpInv, [UdpNext]_allVars, ~ Program
  PROVE  /\ UNCHANGED <<pc, n, done, up>>
         /\ \A b \in Buf : states[b] = 1 => states'[b] = 1
<1>1. IInv
  BY DEF UdpInv
<1>2. CASE DmaStep
  BY <1>1, <1>2, DmaLeaves
  DEF DmaStep, Dma, DmaUsec, DmaWord, DmaState, IInv, TypeOK
<1>3. CASE UNCHANGED allVars
  BY <1>3 DEF allVars, vars, udpVars, dmaVars, loopVars
<1> QED BY <1>2, <1>3 DEF UdpNext

(* A step of adc_stream_packet is one of PingPong.                         *)
LEMMA PacketMoves ==
  ASSUME UdpInv, Program, up = "fetch"
  PROVE  /\ Cpu
         /\ pc # "ret" => up' = up
         /\ pc = "ret" => up' = "send"
<1>1. Packet
  BY DEF Program, Send
<1>2. Emit(TRUE) => \E keep \in BOOLEAN : Emit(keep)
  OBVIOUS
<1>3. Cpu
  BY <1>1, <1>2 DEF Packet, Fetching, MakePacket, Cpu
<1>4. pc = "ret" => Return
  BY <1>3 DEF Cpu, FetchStep, Enter, Test, CopyWord, Stamp, Check, DropSecond,
     DropFirst, Clear, Emit
<1>5. pc # "ret" => ~ Return
  BY DEF Return
<1> QED BY <1>1, <1>3, <1>4, <1>5 DEF Packet, Return, Fetching, MakePacket,
           Enter, FetchStep, Test, CopyWord, Stamp, Check, DropSecond,
           DropFirst, Clear, Emit

(* On the way to the first filled buffer...                                *)
LEMMA LookStep ==
  ASSUME UdpInv, Program, up = "fetch", NEW b \in Buf, states[b] = 1,
         pc \in {"call", "test"}
  PROVE  /\ up' = "fetch" /\ states'[b] = 1
         /\ pc = "call" => pc' = "test" /\ n' = 0
         /\ pc = "test" /\ n = b => pc' = "copy" /\ n' = b /\ done'
         /\ pc = "test" /\ n = 0 =>
              (pc' = "copy" /\ n' = 0 /\ done') \/ (pc' = "test" /\ n' = 1)
         /\ pc = "test" /\ n = 1 =>
              \/ pc' = "copy" /\ n' = 1 /\ done'
              \/ pc' = "test" /\ n' = 0
              \/ pc' = "ret" /\ done'
<1>1. IInv
  BY DEF UdpInv
<1>2. Cpu /\ up' = up
  BY PacketMoves
<1>3. pc = "test" /\ pc' \in {"copy", "ret"} => done'
  <2>1. pc = "test" => Test
    BY <1>2 DEF Cpu, FetchStep, Enter, CopyWord, Stamp, Check, DropSecond,
       DropFirst, Clear, Emit, Return
  <2>2. EndOfBuffer(done) /\ pc' = "ret" => done
    BY ReturnsWithData
  <2>3. pc = "test" => \/ EndOfBuffer(done) /\ done' = done /\ pc' # "copy"
                       \/ done' = (done \/ Fetch = "packet")
    BY <2>1 DEF Test, EndOfBuffer, EndOfScan
  <2> QED BY <2>2, <2>3, UdpFetchesPackets
<1> QED BY <1>1, <1>2, <1>3, ScanStep, UdpFetchesPackets

(* ... and from there to the return.                                       *)
LEMMA HasStep ==
  ASSUME UdpInv, Program, up = "fetch", done, pc # "call"
  PROVE  /\ done' /\ (pc # "ret" => up' = "fetch")
         /\ pc = "ret" => up' = "send"
         /\ pc = "copy"  => pc' \in {"copy", "stamp"} /\ n' = n
         /\ pc = "stamp" => pc' = "check" /\ n' = n
         /\ pc = "check" => pc' \in {"clear", "drop1"} /\ n' = n
         /\ pc = "clear" => pc' = "emit" /\ n' = n
         /\ pc = "drop1" => pc' = "drop0"
         /\ pc = "drop0" => pc' = "ret"
         /\ pc = "emit" /\ n = 0 => pc' = "test" /\ n' = 1
         /\ pc = "emit" /\ n = 1 => pc' = "ret"
         /\ pc = "test" /\ n = 1 => (pc' = "copy" /\ n' = 1) \/ pc' = "ret"
<1>1. Cpu /\ up \in {"fetch", "send"}
  BY PacketMoves DEF UdpInv, UdpTypeOK
<1>2. CASE pc \in {"copy", "stamp", "check", "clear", "drop1"}
  BY <1>1, <1>2, PacketMoves
  DEF Cpu, FetchStep, Enter, Test, CopyWord, Stamp, Check, DropSecond,
      DropFirst, Clear, Emit, Return
<1>3. CASE pc \in {"drop0", "ret"}
  BY <1>1, <1>3, PacketMoves
  DEF Cpu, FetchStep, Enter, Test, CopyWord, Stamp, Check, DropSecond,
      DropFirst, Clear, Emit, Return, EndOfScan
<1>4. CASE pc = "test"
  <2>1. Test
    BY <1>1, <1>4 DEF Cpu, FetchStep, Enter, CopyWord, Stamp, Check,
       DropSecond, DropFirst, Clear, Emit, Return
  <2>2. \/ EndOfBuffer(done) /\ done' = done
        \/ pc' = "copy" /\ n' = n /\ done' = (done \/ Fetch = "packet")
    BY <2>1 DEF Test
  <2>3. done'
    BY <2>2
  <2>4. n = 1 => (pc' = "copy" /\ n' = 1) \/ pc' = "ret"
    <3>1. n = 1 => n # 0
      OBVIOUS
    <3>2. EndOfBuffer(done) /\ n # 0 => EndOfScan(done)
      BY Zenon DEF EndOfBuffer
    <3>3. EndOfScan(done) => pc' = "ret"
      BY DEF EndOfScan
    <3> QED BY <2>2, <3>1, <3>2, <3>3
  <2> QED BY <1>1, <1>4, <2>3, <2>4, PacketMoves
<1>5. CASE pc = "emit"
  <2>1. PICK keep \in BOOLEAN : Emit(keep)
    BY <1>1, <1>5 DEF Cpu, FetchStep, Enter, Test, CopyWord, Stamp, Check,
       DropSecond, DropFirst, Clear, Return
  <2>2. done' /\ EndOfBuffer(done')
    BY <2>1 DEF Emit
  <2>3. /\ n = 0 => pc' = "test" /\ n' = 1
        /\ n = 1 => pc' = "ret"
    BY <2>2, UdpFetchesPackets DEF EndOfBuffer, EndOfScan
  <2> QED BY <1>1, <1>5, <2>2, <2>3, PacketMoves
<1> QED BY <1>1, <1>2, <1>3, <1>4, <1>5 DEF UdpInv, IInv, TypeOK

(* A call that has seen a filled buffer returns.                            *)
LEMMA HasSent ==
  UdpScheduled /\ UdpNeverStuck /\ MemcpyReturns /\ []UdpInv
    => (Takes ~> Sending)
<1> USE DEF Moves, Fills, Copying, Pending, Busy, Called, Looks, Has, HasAt,
            Sending, Takes, Buf
<1>1. Fills(HasAt("copy", 0), HasAt("stamp", 0))
  BY UdpKeeps, HasStep
<1>2. Moves(HasAt("stamp", 0), HasAt("check", 0))
  BY UdpKeeps, HasStep
<1>3. Moves(HasAt("check", 0), HasAt("clear", 0) \/ Has("drop1"))
  BY UdpKeeps, HasStep
<1>4. Moves(HasAt("clear", 0), HasAt("emit", 0))
  BY UdpKeeps, HasStep
<1>5. Moves(HasAt("emit", 0), HasAt("test", 1))
  BY UdpKeeps, HasStep
<1>6. Moves(HasAt("test", 1), HasAt("copy", 1) \/ Has("ret"))
  BY UdpKeeps, HasStep
<1>7. Fills(HasAt("copy", 1), HasAt("stamp", 1))
  BY UdpKeeps, HasStep
<1>8. Moves(HasAt("stamp", 1), HasAt("check", 1))
  BY UdpKeeps, HasStep
<1>9. Moves(HasAt("check", 1), HasAt("clear", 1) \/ Has("drop1"))
  BY UdpKeeps, HasStep
<1>10. Moves(HasAt("clear", 1), HasAt("emit", 1))
  BY UdpKeeps, HasStep
<1>11. Moves(HasAt("emit", 1), Has("ret"))
  BY UdpKeeps, HasStep
<1>12. Moves(Has("drop1"), Has("drop0"))
  BY UdpKeeps, HasStep
<1>13. Moves(Has("drop0"), Has("ret"))
  BY UdpKeeps, HasStep
<1>14. Moves(Has("ret"), Sending)
  BY UdpKeeps, HasStep
<1>15. UdpInv /\ Takes
         => HasAt("copy", 0) \/ HasAt("stamp", 0) \/ HasAt("check", 0)
            \/ HasAt("clear", 0) \/ HasAt("emit", 0) \/ HasAt("copy", 1)
            \/ HasAt("stamp", 1) \/ HasAt("check", 1) \/ HasAt("clear", 1)
            \/ HasAt("emit", 1) \/ Has("drop1") \/ Has("drop0") \/ Has("ret")
  BY DEF UdpInv, IInv, TypeOK
<1> HIDE DEF Copying, Pending, Busy, Called, Looks, Has, HasAt, Sending,
             Takes, Buf
<1> QED BY <1>1, <1>2, <1>3, <1>4, <1>5, <1>6, <1>7, <1>8, <1>9, <1>10,
           <1>11, <1>12, <1>13, <1>14, <1>15, PTL
   DEF Moves, Fills, UdpScheduled, UdpNeverStuck, MemcpyReturns

(* The flag of the first buffer: the loop may be past it, and comes back.  *)
LEMMA FirstSent ==
  UdpScheduled /\ UdpNeverStuck /\ MemcpyReturns /\ []UdpInv
    => (states[0] = 1 ~> Sending)
<1> USE DEF Moves, Fills, Copying, Pending, Busy, Called, Looks, Has, HasAt,
            Sending, Takes, Buf
<1>1. Moves(Called(0), Looks(0, 0))
  BY UdpKeeps, LookStep
<1>2. Moves(Looks(0, 0), Takes)
  BY UdpKeeps, LookStep
<1>3. Moves(Looks(0, 1), Takes \/ Looks(0, 0))
  BY UdpKeeps, LookStep
<1>4. UdpInv /\ states[0] = 1
         => Sending \/ Called(0) \/ Looks(0, 0) \/ Looks(0, 1) \/ Takes
  BY DEF UdpInv, UdpTypeOK, CallInv, IInv, TypeOK
<1> HIDE DEF Copying, Pending, Busy, Called, Looks, Has, HasAt, Sending,
             Takes, Buf
<1> QED BY <1>1, <1>2, <1>3, <1>4, HasSent, PTL
   DEF Moves, Fills, UdpScheduled, UdpNeverStuck, MemcpyReturns

(* The flag of the second buffer.                                          *)
LEMMA SecondSent ==
  UdpScheduled /\ UdpNeverStuck /\ MemcpyReturns /\ []UdpInv
    => (states[1] = 1 ~> Sending)
<1> USE DEF Moves, Fills, Copying, Pending, Busy, Called, Looks, Has, HasAt,
            Sending, Takes, Buf
<1>1. Moves(Called(1), Looks(1, 0))
  BY UdpKeeps, LookStep
<1>2. Moves(Looks(1, 0), Takes \/ Looks(1, 1))
  BY UdpKeeps, LookStep
<1>3. Moves(Looks(1, 1), Takes)
  BY UdpKeeps, LookStep
<1>4. UdpInv /\ states[1] = 1
         => Sending \/ Called(1) \/ Looks(1, 0) \/ Looks(1, 1) \/ Takes
  BY DEF UdpInv, UdpTypeOK, CallInv, IInv, TypeOK
<1> HIDE DEF Copying, Pending, Busy, Called, Looks, Has, HasAt, Sending,
             Takes, Buf
<1> QED BY <1>1, <1>2, <1>3, <1>4, HasSent, PTL
   DEF Moves, Fills, UdpScheduled, UdpNeverStuck, MemcpyReturns

(* Every flag the DMA sets makes adc_stream_packet return: with a packet,  *)
(* or after an overrun without one.                                        *)
THEOREM FlagsAreSent ==
  UdpSpec /\ UdpNeverStuck /\ MemcpyReturns => FlagSent
<1>1. UdpSpec => UdpScheduled
  BY PTL DEF UdpSpec, UdpScheduled
<1> QED BY <1>1, UdpInvariance, FirstSent, SecondSent, PTL
   DEF FlagSent, Sending
=============================================================================
