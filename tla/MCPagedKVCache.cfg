CONSTANTS
  s1 = s1
  s2 = s2
  a = a
  b = b
  Seqs = {s1, s2}
  Chunk = {a, b}
  Prompts <- MCPrompts
  NumBlocks = 4
  BlockSize = 2
  EnablePrefixCaching = TRUE
  Lens = {2, 3}
SPECIFICATION MCSpec
SYMMETRY Symmetry
INVARIANTS RefCountExact FreeListSound SharedPrefixIdentical ReferencedStaysCached
PROPERTY HeldContentStable
CHECK_DEADLOCK FALSE
