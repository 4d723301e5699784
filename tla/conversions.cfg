SPECIFICATION Spec
CONSTANTS
  a = a b = b j = j s = s J = J S = S
  slash = slash space = space tab = tab feed = feed semicolon = semicolon
  Npos = 255
  Space = {space, tab}
  OptionalWhitespace = {space, tab}
  Semicolon = semicolon
  JsonMediaType <- MCMediaType
  UpperOf <- MCUpperOf
  HexDigitsPerWord = 3
  MaxRequestIdLength = 6
  HoursPerDay = 3
  MinutesPerHour = 1
  SecondsPerMinute = 2
  MillisecondsPerSecond = 101
  UnsignedModulus = 100000
  SplitTexts <- MCSplitTexts
  Headers <- MCHeaders
  Words <- MCWords
  QuotedTexts <- MCQuotedTexts
  Instants <- MCInstants
  RoutePaths <- MCRoutePaths
  UidParameter <- MCUidParameter
  MaxUidLength = 2
  Paths <- MCPaths
  JsonWhitespace = {space, tab}
  RawObjects <- MCRawObjects
INVARIANTS WordsAreTheRuns AcceptsExactlyJson IdTellsTheWords QuotedTextReadsBack InstantReadsBack PathsNameTheirIndex SourceIsTheObject
CHECK_DEADLOCK FALSE
