SPECIFICATION Spec
CONSTANTS
  Words = {"GET", "url", "site"}
  MaxHeaders = 2
  Streams <- MCStreams
  Behinds <- MCBehinds
INVARIANT PartialIsRefused
