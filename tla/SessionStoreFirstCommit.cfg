CONSTANTS
  Savers = {s1}
  Readers = {r1}
  Identities <- MCIdentities
  Texts <- MCTexts
  Scrub <- MCScrub
  ChunksOf <- MCChunksOf
  Calls <- MCCalls
  Legacy <- MCLegacy
  MaxFrames = 3
  Absent = Absent
  Corrupt = Corrupt
  None = None
  Free = Free
SPECIFICATION Spec
INVARIANT LoadsAtomic
