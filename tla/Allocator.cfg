\* Two threads over two blocks.  Sizes: one too short for the prefix of a
\* reallocated block, one that an int holds, and one that neither fits an int
\* of 3 bits nor, with the prefix, a size_t of 4.
CONSTANTS
  Thread = {t1, t2}
  Addr = {p1, p2}
  Size = {1, 2, 14}
  Prefix = 3
  Box = 2
  Words = 16
  IntWords = 8
  Garbage <- MCGarbage
SYMMETRY BlocksAndThreads
SPECIFICATION Spec
INVARIANTS TypeOK Accounted OneThreadPerBlock
PROPERTIES FreedByMaker
