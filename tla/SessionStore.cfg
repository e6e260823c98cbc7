CONSTANTS
  Savers = {s1, s2}
  Readers = {r1}
  Identities <- MCIdentities
  Texts <- MCTexts
  Scrub <- MCScrub
  ChunksOf <- MCChunksOf
  Calls <- MCCalls
  Legacy <- MCLegacy
  MaxFrames = 7
  Absent = Absent
  Corrupt = Corrupt
  None = None
  Free = Free
SPECIFICATION Spec
INVARIANTS TypeOK Readable SavedIsLoaded LoadsConsistent
PROPERTIES PrefixStable ImplementsRegister
SYMMETRY SaverSymmetry
