SPECIFICATION Spec
CONSTANTS
  SectionSize = 2
  MaxIndex = 3
INVARIANT IndexInv
PROPERTY
  RangeLostOnlyAtStart
  CountLostOnlyAtStart
  DummiesDropped
