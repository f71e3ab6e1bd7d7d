\* Streaming lines of two pages to readers that come and go.
CONSTANTS
  NSamp = 2
  MaxBlk = 6
  Fetch = "csv"
  Slots = 3
  Pages = 2
  lockstep = FALSE
SPECIFICATION FifoSpec
\* The receive buffers and adc_stream_csv.
INVARIANTS TypeOK WholeBlock NewerBlock NoSilentLoss SampTotalBound IInv
PROPERTIES NewestBlock ImplementsFeed
\* The loop around them, the pipe and its readers.
INVARIANTS FifoTypeOK LineSuccessor WriteFits
PROPERTIES ReaderServed TakenWhileOpen PagesInOrder
