CONSTANTS
  s1 = s1
  s2 = s2
  s3 = s3
  a = a
  b = b
  Seqs = {s1, s2, s3}
  Chunk = {a, b}
  Prompts <- PassPrompts
  Workloads <- PassWorkloads
  NumBlocks = 7
  BlockSize = 3
  EnablePrefixCaching = TRUE
  Lens = {0, 1, 2, 3, 4, 5, 6, 7, 8, 9, 10, 11, 12, 13, 14, 15, 16, 17, 18, 19, 20}
  Configs <- PassConfigs
  MaxBurst = 2
SPECIFICATION MCSpec
INVARIANTS PlacesAreSound WholePrefillComputed
PROPERTIES AllFinish EngineUsesKV EngineIsTokenSource
