\* Every kind of call, and lookups of every kind of vendor with every kind of
\* answer, whole or broken.
SPECIFICATION Spec
CONSTANTS
    Nil = Nil
    Malformed = Malformed
    NaN = NaN  PosInf = PosInf  NegInf = NegInf
    Empty = Empty
    Trimmed <- MCTrimmed
    Hosts <- MCHosts
    RawConfigs <- MCConfigs
    Bodies <- MCBodies
    PlanBodies <- MCPlanBodies
    Catalog <- MCCatalog
INVARIANTS TypeOK CardSpeaks ZhipuWindowsRight MonthlyNotInvented
INVARIANTS RuntimeSound NothingLeaks
PROPERTIES SecondOnlyAdds ErrorsChangeNothing OnlySuccessIsShown
