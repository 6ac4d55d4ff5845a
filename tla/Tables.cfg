SPECIFICATION Spec
CONSTANTS
  None = None
  Garbage = Garbage
  Ephemeral = "no"
  MaxDepth = 3
  Shortlists <- PoolShortlists
  Bodies <- GridBodies
  Records <- LeafRecords
  Files <- BareFiles
  Words <- LogWords
  Foreign = {"plugins"}
INVARIANTS OrderIsContract PinKeepsFallbacks NothingPrivate RedactTwice LoadedIsUsable
PROPERTIES GrowthIsMonotone WrapperIsOptional
