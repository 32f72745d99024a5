SPECIFICATION Spec
CONSTANTS
    Undefined = Undefined
    Yes = Yes
    No = No
    Shapes <- MCShapes
    MaxBars = 5
    Definitions <- MCDefinitions
    Plan <- MCPlan
    Locales <- MCLocales
    DateTexts <- MCDateTexts
    MaxShuffled = 4
    MaxEvidenceRows = 100
    MinOverlapDays = 2
    MinForwardTrades = 2
    BarsPerDay = 1
    BarsPerMonth = 3
INVARIANT LedgerAgrees
PROPERTY NoLookahead
CHECK_DEADLOCK FALSE
