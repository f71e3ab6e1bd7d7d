\* An overrun in a call of adc_stream_packet.
CONSTANTS
  NSamp = 2
  MaxBlk = 7
  Fetch = "packet"
  SerialMod = 65536
SPECIFICATION UdpSpec
INVARIANT PacketMade
