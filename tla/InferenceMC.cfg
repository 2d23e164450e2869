CONSTANTS
  Alignment = 2
  LineCells = 4
  Nets <- MCNets
  MaxImages = 3
SPECIFICATION FairSpec
INVARIANTS IInv NoRace
PROPERTIES StreamSpec HandshakeProgress
\* a program that has ended is the end
CHECK_DEADLOCK FALSE
