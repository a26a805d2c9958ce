SPECIFICATION Spec
CONSTANTS
  LineWords = 2
  LineCount = 4
  Value = {0, 3}
  MaxPayload = 3
  HeaderCount = 2
  High = {0, 1}
  CheckerPeriod = 2
  Tried = {"Header", "HeaderAligned", "HeaderDancing", "HeaderAlignedDancing", "Classic", "ClassicAligned", "Zero", "ZeroAligned", "ZeroBlocked", "ZeroCached", "Mnemosyne", "MnemosyneAligned"}
INVARIANTS
  TypeOK
  FooterImpliesEntry
  
  BufferMatchesLog
  RecoveredIsPrefix
PROPERTIES
  ImplementsDurableLog
CHECK_DEADLOCK FALSE
