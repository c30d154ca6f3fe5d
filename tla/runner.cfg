SPECIFICATION FairFlowSpec
CONSTANTS
    Codes <- MCCodes
    MaxWrites = 2
    Ops = {"Capture", "Inherit"}
    Texts <- MCTexts
INVARIANTS
    TypeOK
    NilMeansSuccess
    WellBehavedUntouched
    UrlReported
    FlowSucceeds
PROPERTIES
    CallReturns
    UrlSurfaces
    ImplementsShellOut
