SPECIFICATION Spec
CONSTANTS
  Content <- MCContent
  Texts <- MCTexts
  Large <- MCLarge
  Blob = {"b1", "b2"}
  BlobsOf <- MCBlobsOf
  Slot = {1}
  Pin = {}
  MaxAge = 2
  LargeAge = 1
  MaxClips = 1
  Faults = TRUE
  MaxId = 2
  MaxTime = 3
INVARIANTS TypeOK NoDanglingBlob BuffersLive RetentionExact
PROPERTIES InvestedSurvive SweepClean ImplementsHistory
