CONSTANTS
    Clocks <- MCClocks
    StopWords <- MCStopWords
    Excluded = {"y255"}
    LongestToken = 3
    Alphabet = {"a", "A", "1", "space", "bom", "latin", "y255", "wide", "wideComma"}
    MaxText = 5
    Attributes = {"none", "href", "image"}
    MaxElements = 3
SPECIFICATION InputSpec
INVARIANTS
    KeysNeverGoBack
    WindowFitsTimeout
    BasicCutIsExact
    TokensTellTheText
    
CHECK_DEADLOCK FALSE
