\* Three pieces of a stream, cut in every way, over any number of connections.
SPECIFICATION Spec
CONSTANTS
  Base = 8
  StartMarker <- MCStart
  EndMarker <- MCEnd
  MaxFrameSize = 6
  MaxRead = 6
  Payloads <- MCPayloads
  Endings <- MCEndings
  Junk <- MCJunk
  MaxPieces = 3
INVARIANTS
  DecodesStream
  InSync
  NeverOverflows
