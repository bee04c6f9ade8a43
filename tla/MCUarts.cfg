CONSTANTS
  Writer = {w1, w2}
  NoThread = NoThread
  Size = 3
  RxSize = 2
  TxSize = 1
  RxFifo = 1
  TxFifo = 1
  DmaSize = 3
  Modulus = 9
  MaxBytes = 5
  ZephyrBytes = 3
  DmaBytes = 12
  MaxLength = 2
  ZephyrLength = 2
  DmaLength = 3
  MaxWrites = 2
  MaxStalls = 1
  MaxErrors = 1
SPECIFICATION MCSpec
SYMMETRY Symmetry
INVARIANTS
  RxStaysEnabled NoLostWakeup TxKeepsRunning WritesInOrder
   
PROPERTIES
  IrqFifoSpec ZephyrFifoSpec 
CHECK_DEADLOCK FALSE
