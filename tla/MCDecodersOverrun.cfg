\* The data of a chunk against the comment that gives its grammar.
SPECIFICATION DecodersSpec
CONSTANTS
  ChunkSizeLimit = 2
  LineLimit = 15
  FieldLimit = 2
  FieldSizeLimit = 11
  MostLength = 21
  ChunkMost = 16
  Kinds = {"chunk"}
  Inputs <- MCInputs
  MaxLen <- MCMaxLen
  Bodies <- MCBodies
  SizeLies = TRUE
INVARIANT ExactChunks
\* A decoder comes to its end.
CHECK_DEADLOCK FALSE
