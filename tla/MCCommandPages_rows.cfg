\* The EVS row is missing its port.  When every bound is used no step is
\* enabled, which only ends the bounded behaviour.
CONSTANTS
    PageRows <- PagesShortRow
    QuickRows <- MCQuickRows
    CmdFiles <- MCCmdFiles
    ParamFiles <- MCParamFiles
    MaxPages = 2
    MaxDialogs = 1
    MaxSent = 3
SPECIFICATION CmdSpec
CHECK_DEADLOCK FALSE
INVARIANT SentCommandTargetsItsPage
