SPECIFICATION FairSpec
CONSTANTS
  Widths = {6, 8}
  MaxCalls = 6
  Overlap = FALSE
  Nobody = Nobody
CHECK_DEADLOCK FALSE
INVARIANTS EncoderAtHand FilesComplete PicturesFit
PROPERTIES OneSizePerFile CallsEnd
