CONSTANTS
  NumBufs = 2
  Addrs = {a1, a2}
  Run = Run
  Ctl = Ctl
  Threads = {Run, Ctl}
  Irq = Irq
  MaxFrame = 3
SPECIFICATION FwSpec
INVARIANTS OneList WrittenIsAllocated UsesWhatIsMapped BuffersComeBack
PROPERTIES MailboxSpec FallbackSurvives ExitEnds
