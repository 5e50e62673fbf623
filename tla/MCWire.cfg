SPECIFICATION Spec
CONSTANTS
  Byte = 16
  BufSize = 24
  StringSize = 8
  Messages <- Traffic
  MaxSends = 2
INVARIANTS TypeOK IntactWhenWhole SenderInBuffer
