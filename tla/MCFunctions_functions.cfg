\* The decoder, the joining of instructions, the code emitted for each, paths of up to six
\* characters or three names, and the debugger on paths of five instructions and expressions of five
\* characters.
SPECIFICATION FunctionsSpec
CONSTANTS
    Float <- FloatHash
    Raised <- RaisedHash
    MaxChars = 4
    MaxNames = 3
    MaxFollow = 4
    MaxPath = 5
    MaxRest = 3
    Root = "root"
    NoNode = "none"
INVARIANTS TranslatesAsIsa EveryBitCounts CompressedLayout JoinsKeepEffect PathsAreWays ResolvesAsVisited ListsWhatLeads HaltsAsAsked ExpressionsRead
