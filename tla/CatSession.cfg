\* Three pieces of a client's stream, cut in every way; three of six characters without
\* an end are more than the buffer may keep.
SPECIFICATION SessionSpec
CONSTANTS
  Letters <- MCLetters
  Controls <- MCControls
  Pieces <- MCPieces
  MaxCmd = 4
  MaxRead = 6
  MaxPieces = 3
INVARIANTS SessionTypeOK AnswersStream
PROPERTY ModeAsReported
