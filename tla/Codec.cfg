\* Every kind of text; integers of eight bits and bytes of four.
SPECIFICATION Spec
CONSTANTS
  Width = 8
  ByteWidth = 4
  Characters = {"A", "u"}
  Kinds = {"document", "literal", "number", "content"}
  MaxPieces <- MCMaxPieces
INVARIANTS
  AcceptsExactlyTheGrammar
  StringsDecodeAsUtf16
  FramesReadBack
  NumbersAreReadExactly
  StringsSurvive
  NumbersKeepTheirType
CHECK_DEADLOCK FALSE
