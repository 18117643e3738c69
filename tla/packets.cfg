SPECIFICATION Spec
CONSTANTS
  Strings <- FewStrings
  Numbers <- FewNumbers
  StringLists <- FewLists
  Images <- FewImages
  MaxImage = 2
  HmacLen = 2
  BlockLen = 3
  MaxPacket = 22
  DigestByte <- SomeDigest
  ByteXor <- ExclusiveOr
  Byte = {0, 1, 2}
  MaxBytes = 6
INVARIANTS RoundTrip Exact FramesRead
CHECK_DEADLOCK FALSE
