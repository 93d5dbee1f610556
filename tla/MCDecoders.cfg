\* Every decoder, and the chunked response with its reader, on all texts of a
\* few octets of each class.  The limits are small, so that they are met.
SPECIFICATION DecodersSpec
CONSTANTS
  ChunkSizeLimit = 2
  LineLimit = 15
  FieldLimit = 2
  FieldSizeLimit = 11
  MostLength = 21
  ChunkMost = 16
  Kinds = {"line", "header", "chunk", "length", "tokens", "any_tokens", "parameters", "tags", "path", "response"}
  Inputs <- MCInputs
  MaxLen <- MCMaxLen
  Bodies <- MCBodies
  SizeLies = TRUE
INVARIANTS DecodersTypeOK LineAsWritten HeaderAsWritten ChunksAsWritten ChunksRoundTrip LengthAsWritten TokensAsWritten ElementsAsWritten PathAsWritten
\* A decoder comes to its end.
CHECK_DEADLOCK FALSE
