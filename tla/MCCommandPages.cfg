\* Two command pages, one dialog at a time, three cmdUtil runs.  When every
\* bound is used no step is enabled, which only ends the bounded behaviour.
\* Beside them, CHeaderParser on two headers and the cFS plugin (see
\* MCCommandPages); the parser's user may stop answering, which ends it.
\* The requirement validation plugin on the files of MCReqValidation, and
\* HTMLDocsParser on the pages of MCHTMLDocs; its user may stop answering.
CONSTANTS
    PageRows <- Pages3
    QuickRows <- MCQuickRows
    CmdFiles <- MCCmdFiles
    ParamFiles <- MCParamFiles
    MaxPages = 2
    MaxDialogs = 1
    MaxSent = 3
SPECIFICATION CmdSpec
CHECK_DEADLOCK FALSE
INVARIANT SentCommandTargetsItsPage
INVARIANT QuickCommandIsItsPages
PROPERTY SentArgvCarriesInputs
PROPERTY SendablePressSends
INVARIANT HpTypeOK
INVARIANT StructsAreBraceBlocks
PROPERTY ScanEnds
INVARIANT SentOnlyToRegistered
INVARIANT InterpretedLogDescribesEntries
INVARIANT PickledFieldsAreStructFields
PROPERTY ParseEnds
