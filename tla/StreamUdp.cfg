\* UDP streaming, with serial numbers that wrap after six calls.
CONSTANTS
  NSamp = 2
  MaxBlk = 9
  Fetch = "packet"
  SerialMod = 6
SPECIFICATION UdpSpec
\* The receive buffers and adc_stream_packet.
INVARIANT IInv
PROPERTIES FlagServed ImplementsFeed
\* The loop around them, and the packets sent.
INVARIANTS UdpTypeOK SerialOrdersBlocks AtMostOneOverwritten
PROPERTY FlagSent
