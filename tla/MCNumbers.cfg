SPECIFICATION Spec
CONSTANTS
  GroupBits = 3
  LebBits = 8
  Bits32 = 4
  Bits64 = 8
  F32 <- MCF32
  F64 <- MCF64
  Float <- MCFloat
  Double <- MCDouble
  Samples64 <- MCSamples64
  SamplesF64 <- MCSamplesF64
  IntLiterals <- MCIntLiterals
  HexLiterals <- MCHexLiterals
INVARIANTS
  IntegersExact
  TruncInRange
  FloatsExact
  HexRoundTrip
  LiteralsExact
  LebRoundTrip

