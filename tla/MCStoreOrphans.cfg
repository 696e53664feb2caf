SPECIFICATION FairSpec
CONSTANTS
  Content = {"shot", "page"}
  Texts = {}
  Large = {}
  Blob = {"b1", "b2"}
  BlobsOf <- MCBlobsOf
  Slot = {1}
  Pin = {}
  MaxAge = 0
  LargeAge = 0
  MaxClips = 2
  Faults = FALSE
  MaxId = 2
  MaxTime = 0
PROPERTY OrphansCollected
