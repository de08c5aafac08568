-------------------------- MODULE MCCommandPages --------------------------
(***************************************************************************)
(* The command system window with the ES, EVS and TBL pages (TBL's       *)
(* command file is missing), a quick button for EVS only, and a parameter *)
(* dialog whose fields are those of ParameterDialog: one command with a   *)
(* 16-bit and a string parameter, one with no parameters, one with no     *)
(* parameter file.  At most one dialog is open at a time: dialogs share   *)
(* nothing, so one at a time loses no behaviour of any of them.           *)
(*                                                                         *)
(* Beside them, the tools that feed and drive commands: CHeaderParser.py  *)
(* on the headers of MCCHeaderFiles, the CTF cFS plugin with the          *)
(* configuration of MCCfsPlugin, and the CTF requirement validation plugin *)
(* with the files of MCReqValidation, and HTMLDocsParser.py on the pages   *)
(* and headers of MCHTMLDocs.  They share no state with the               *)
(* window; a component steps only while the others are at their start,    *)
(* so every reachable state of each is reached, with the others' initial  *)
(* state.                                                                  *)
(***************************************************************************)
EXTENDS CommandPages, MCCHeaderFiles, MCReqValidation, MCHTMLDocs

VARIABLES dlgInput, dlgStatus, dlgSent, dlgPresses

dlgVars == <<dlgInput, dlgStatus, dlgSent, dlgPresses>>
allVars == <<cmdVars, dlgVars>>

\* Rows: a comment, a blank line, then the three pages.
ES == <<"ES", "es_cmds", 6150, "LE", "UdpCommands.py", "10.0.0.1", 1234>>
EVS == <<"EVS", "evs_cmds", 6145, "LE", "UdpCommands.py", "10.0.0.2", 1235>>
TBL == <<"TBL", "tbl_cmds", 6148, "BE", "UdpCommands.py", "10.0.0.3", 1236>>
Pages3 == << <<"#Desc", "file">>, <<>>, ES, EVS, TBL >>

\* EVS's row cut after the address: its port is missing.
PagesShortRow == << <<"#Desc", "file">>, <<>>, ES, SubSeq(EVS, 1, 6), TBL >>

MCQuickRows ==
    << <<"#Subsys", "file">>,
       <<"EVS", "evs_cmds", "Enable", "5", "0x1801", "BE", "10.0.0.9", "1240", "evs_ena">> >>

MCCmdFiles ==
    "es_cmds" :> [desc |-> <<"NOOP", "START">>, code |-> <<"0", "4">>,
                  param |-> <<"es_noop", "es_start">>] @@
    "evs_cmds" :> [desc |-> <<"NOOP">>, code |-> <<"0">>, param |-> <<"evs_noop">>]

Half == [type |-> "--half", strLen |-> <<>>]
Str10 == [type |-> "--string", strLen |-> <<"1", "0">>]
CmdParams == <<Half, Str10>>

MCParamFiles == "es_start" :> Len(CmdParams) @@ "es_noop" :> 0

\* Field texts the operator may type into the dialog.
CmdTypeable ==
    1 :> {<<>>, <<"4", "2">>, <<" ", "7">>} @@
    2 :> {<<>>, <<"a", " ", "b">>, <<"a", "b", "c", " ">>} @@
    3 :> {<<>>, <<"4", "2">>}

Dlg == INSTANCE ParameterDialog
         WITH input <- dlgInput, status <- dlgStatus, sent <- dlgSent,
              presses <- dlgPresses, Params <- CmdParams, NumInputs <- 3,
              Typeable <- CmdTypeable, MaxPresses <- 2

CmdInit == Init /\ Dlg!Init

VARIABLES hpPc, hpHdr, hpCmdFile, hpUnused, hpUsed, hpChoice, hpCmdName,
          hpLineNum, hpStructs, hpStructLines, hpParams, hpParamFiles

hpVars == <<hpPc, hpHdr, hpCmdFile, hpUnused, hpUsed, hpChoice, hpCmdName,
            hpLineNum, hpStructs, hpStructLines, hpParams, hpParamFiles>>

Hp == INSTANCE CHeaderParser
        WITH pc <- hpPc, hdr <- hpHdr, cmdFile <- hpCmdFile, unused <- hpUnused,
             used <- hpUsed, choice <- hpChoice, cmdName <- hpCmdName,
             lineNum <- hpLineNum, structs <- hpStructs,
             structLines <- hpStructLines, params <- hpParams,
             paramFiles <- hpParamFiles,
             HeaderLists <- PassHeaders, UserSizes <- {16, 200}, MaxStructs <- 2

VARIABLES cfsTargets, cfsDeleted, cfsInitialized, cfsSent, cfsRet

cfsVars == <<cfsTargets, cfsDeleted, cfsInitialized, cfsSent, cfsRet>>

\* The sections and calls of MCCfsPlugin.
CfsSections ==
    << [name |-> "cfs_a", cfs |-> TRUE, protocol |-> "local"],
       [name |-> "gui", cfs |-> FALSE, protocol |-> ""],
       [name |-> "cfs_b", cfs |-> TRUE, protocol |-> "ssh"],
       [name |-> "cfs_c", cfs |-> TRUE, protocol |-> ""] >>

Cfs == INSTANCE CfsPlugin
         WITH targets <- cfsTargets, deleted <- cfsDeleted,
              initialized <- cfsInitialized, sent <- cfsSent, ret <- cfsRet,
              Sections <- CfsSections, CallNames <- {"", "cfs_a", "cfs_b"},
              Mults <- {0, 2}, MaxSent <- 2

VARIABLES rvRet, rvFs, rvCall
rvVars == <<rvRet, rvFs, rvCall>>

Rv == INSTANCE ReqValidation
        WITH ret <- rvRet, fs <- rvFs, call <- rvCall,
             TextFiles <- RvTextFiles, LogEntries <- RvLogEntries, Names <- RvNames,
             Searches <- RvSearches, Flags <- RvFlags

VARIABLES htPc, htF, htI, htJ, htLists, htKeyword, htPickles
htVars == <<htPc, htF, htI, htJ, htLists, htKeyword, htPickles>>

Ht == INSTANCE HTMLDocsParser
        WITH pc <- htPc, f <- htF, i <- htI, j <- htJ, lists <- htLists,
             keyword <- htKeyword, pickles <- htPickles,
             Pages <- DocPages, Headers <- DocHeaders, UserValues <- {16, 32}

\* ParameterDialog's Init for a Parameter.py process just started.
DlgFresh ==
    /\ dlgInput' = [k \in 1..3 |-> <<>>]
    /\ dlgStatus' = <<>>
    /\ dlgSent' = <<>>
    /\ dlgPresses' = 0

\* A step of the window, a command page or a dialog close; a dialog that
\* opens is a new Parameter.py process with empty fields.
PageStep ==
    /\ PagesNext
    /\ IF Len(dialogs') > Len(dialogs) THEN DlgFresh ELSE UNCHANGED dlgVars

\* The operator types into the open dialog.
DialogType ==
    /\ dialogs # <<>>
    /\ \E k \in 1..3 : \E v \in CmdTypeable[k] : Dlg!TypeInput(k, v)
    /\ UNCHANGED cmdVars

\* Send of the open dialog: cmdUtil gets the argument vector Parameter.py
\* built, after the dialog's header arguments.
DialogPress ==
    /\ dialogs # <<>>
    /\ Dlg!ProcessSendButton
    /\ IF Len(dlgSent') > Len(dlgSent)
       THEN \E d \in DOMAIN dialogs : DialogSend(d, Last(dlgSent'))
       ELSE UNCHANGED cmdVars

PagesNextAll == PageStep \/ DialogType \/ DialogPress

\* A step of the structure scan, the parser's own loop.
HpScan == CmdInit /\ Cfs!Init /\ Rv!Init /\ Ht!Init /\ Hp!ScanStep
          /\ UNCHANGED <<allVars, cfsVars, rvVars, htVars>>

\* A step HTMLDocsParser.py takes by itself, without its user.  It is never
\* enabled together with HpScan (each needs the other parser at its start),
\* so one weak fairness for both is weak fairness for each.
HtParse == htPc \notin {"done", "raised"} /\ CmdInit /\ Hp!Init /\ Cfs!Init /\ Rv!Init
           /\ Ht!ParseStep /\ UNCHANGED <<allVars, hpVars, cfsVars, rvVars>>

CmdNext ==
    \/ Hp!Init /\ Cfs!Init /\ Rv!Init /\ Ht!Init /\ PagesNextAll
       /\ UNCHANGED <<hpVars, cfsVars, rvVars, htVars>>
    \/ CmdInit /\ Cfs!Init /\ Rv!Init /\ Ht!Init /\ Hp!Next
       /\ UNCHANGED <<allVars, cfsVars, rvVars, htVars>>
    \/ CmdInit /\ Hp!Init /\ Rv!Init /\ Ht!Init /\ Cfs!Next
       /\ UNCHANGED <<allVars, hpVars, rvVars, htVars>>
    \/ CmdInit /\ Hp!Init /\ Cfs!Init /\ Ht!Init /\ Rv!Next
       /\ UNCHANGED <<allVars, hpVars, cfsVars, htVars>>
    \/ CmdInit /\ Hp!Init /\ Cfs!Init /\ Rv!Init /\ Ht!Next
       /\ UNCHANGED <<allVars, hpVars, cfsVars, rvVars>>

AllInit == CmdInit /\ Hp!Init /\ Cfs!Init /\ Rv!Init /\ Ht!Init

cmdAllVars == <<allVars, hpVars, cfsVars, rvVars, htVars>>

CmdSpec ==
    /\ AllInit
    /\ [][CmdNext]_cmdAllVars
    /\ WF_cmdAllVars(HpScan \/ HtParse)

(* The parameter dialog gives cmdUtil one argument per filled field       *)
(* (Parameter.py ProcessSendButton: the join and shlex.split).            *)
SentArgvCarriesInputs == Dlg!SentArgvCarriesInputs

(* A press of the dialog's Send with sendable values starts cmdUtil       *)
(* (Parameter.py ProcessSendButton).                                       *)
SendablePressSends == Dlg!SendablePressSends

(* See CHeaderParser: the parser's structures are the headers' brace      *)
(* blocks, and its structure scan ends.                                   *)
HpTypeOK == Hp!TypeOK
StructsAreBraceBlocks == Hp!StructsAreBraceBlocks
ScanEnds == Hp!ScanEnds

(* See CfsPlugin: commands go only to registered targets.                *)
SentOnlyToRegistered == Cfs!SentOnlyToRegistered

(* See ReqValidation: InterpretEventLog's lines describe the entries of   *)
(* the log its input held when it was called.                            *)
InterpretedLogDescribesEntries == Rv!InterpretedLogDescribesEntries

(* See HTMLDocsParser: every parameter file it writes lists its page's     *)
(* structure, with the string sizes the headers give, and once inside a   *)
(* page's field loop the script gets out of it.                            *)
PickledFieldsAreStructFields == Ht!PickledFieldsAreStructFields
ParseEnds == Ht!ParseEnds
=============================================================================
