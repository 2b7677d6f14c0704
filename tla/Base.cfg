SPECIFICATION BaseSpec
CONSTANTS
  Writers = {w1}
  Readers = {r1}
  Messages = {a, b}
  RingSize = 8
  MsgSize = 3
  PosMod = 16
  WriterPatience = {"poll", "deadline", "forever"}
  ReaderPatience = {"poll", "deadline", "forever"}
  None = None
  Addresses = {a1, a2, a3}
  FirstAddress = a1
  Page = 4
  Header = 2
  ResSize = 8
  CmtSize = 4
  Sizes = {0, 1, 3, 7}
  Aligns = {1, 2}
  MaxLive = 4
  MaxTemps = 2
  MaxFrames = 4
  MaxScopes = 4
  MaxKept = 3
  Bytes = {"a", "b"}
  Zero = "0"
  Cap = 5
  Texts <- MCTexts
  AtlasSize = 8
  MaxGlyphs = 5
  GlyphKeys = {1, 2, 3, 4, 5, 6}
  Ink <- MCInk
  IconDim = 2
  Icons = 2
INVARIANTS NoLostWakeUp AllocationsApart ScopesCanEnd ResultsSurvive RectanglesApart
PROPERTIES WritersGetThrough ChannelSpec TextSpec
CHECK_DEADLOCK FALSE
