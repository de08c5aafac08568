----------------------------- MODULE GenAppCode -----------------------------
(***************************************************************************)
(* gen_app_code.py: the cFS application code generator.  It reads its     *)
(* settings from the command line or an input file (app_code_configs),    *)
(* then for every application name creates the directory tree             *)
(* (app_utils.create_cfs_dirs) and writes, overwrites or removes each      *)
(* generated file, in the order of gen_app_code.py, lines 40 to 73.  The   *)
(* TBLS keys decide which table files and which table code are generated. *)
(*                                                                         *)
(* The output tree persists from one run of the script to the next: the    *)
(* state is the tree, one step is one whole run.  A file is abstracted to  *)
(* the TBLS keys of the run that wrote it; what it refers to is computed   *)
(* from them by the Content operators, one per construct_*_content          *)
(* function: the headers it includes, the sources a makefile builds, the  *)
(* application functions it defines and calls and the table types it      *)
(* defines and uses.  Text that is the same whatever the keys (banners,   *)
(* dates, cFE calls, message ids) is left out.  The readme step of lines   *)
(* 31 and 62 imports app_code_readme, which the repository does not hold;  *)
(* the README it would write is not modelled.                              *)
(***************************************************************************)
EXTENDS Naturals, Sequences, SequencesExt, FiniteSets

CONSTANTS
    Apps,        \* application names the command lines may give (lower case)
    Argvs,       \* command lines the user may type, without the script name
    InputFiles,  \* file name -> its lines, each the sequence of its words
    MaxRuns      \* bound on the runs of the script in one behaviour

OptList == {"MISSION", "OWNER", "OUTDIR", "TBLS", "APPS"}

Files ==
    { "Makefile", "tables.mak",                         \* fsw/for_build
      "mission_cfg.h", "private_ids.h", "private_types.h", \* fsw/mission_inc
      "platform_cfg.h", "perfids.h", "msgids.h",        \* fsw/platform_inc
      "msg.h", "app.h", "app.c",                        \* fsw/src
      "tbldefs.h", "iloads.c", "iload_utils.h", "iload_utils.c",
      "cds_utils.h", "cds_utils.c",                     \* fsw/tables
      "ut.Makefile", "ut_main.c" }                      \* fsw/unit_test

DirOf(f) ==
    CASE f \in {"Makefile", "tables.mak"} -> "for_build"
      [] f \in {"mission_cfg.h", "private_ids.h", "private_types.h"} -> "mission_inc"
      [] f \in {"platform_cfg.h", "perfids.h", "msgids.h"} -> "platform_inc"
      [] f \in {"msg.h", "app.h", "app.c"} -> "src"
      [] f \in {"ut.Makefile", "ut_main.c"} -> "unit_test"
      [] OTHER -> "tables"

VARIABLES
    tree,    \* tree[a]: the directories and files under OUTDIR/a/fsw
    status,  \* how the last run ended: "ok", "exit" (sys.exit) or "ioerror"
    runs     \* runs of the script so far

vars == <<tree, status, runs>>

\* A file of the tree: present or not, and the TBLS keys it was written with.
Absent == [present |-> FALSE, tbls |-> {}]
Written(T) == [present |-> TRUE, tbls |-> T]

EmptyTree == [a \in Apps |-> [dirs |-> {}, files |-> [f \in Files |-> Absent]]]

-----------------------------------------------------------------------------
(* app_code_configs: the settings.                                        *)

\* A line of the input file is skipped when it starts with '#'.
IsComment(l) == l # <<>> /\ SubSeq(l[1], 1, 1) = "#"

\* One line of parse_input_file: "APPS" and "TBLS" extend the lists with
\* the words after the key; MISSION, OUTDIR, OWNER and other keys do not
\* bear on the tree.
InputLine(acc, l) ==
    IF l = <<>> \/ IsComment(l) THEN acc
    ELSE CASE l[1] = "APPS" -> [acc EXCEPT !.apps = @ \o Tail(l)]
           [] l[1] = "TBLS" -> [acc EXCEPT !.tbls = @ \cup ToSet(Tail(l))]
           [] OTHER -> acc

\* parse_input_file: open_file_for_reading exits when the file is missing.
ParseInputFile(acc, name) ==
    IF name \notin DOMAIN InputFiles
    THEN [acc EXCEPT !.exit = TRUE, !.stop = TRUE]
    ELSE [FoldLeft(InputLine, acc, InputFiles[name]) EXCEPT !.stop = TRUE]

\* One word of the "for itm in tmpList" loop of parse_configs: an option
\* name selects the list the next words go to; a word before any option
\* is the input file, read before the loop breaks.
ArgWord(acc, w) ==
    CASE acc.stop -> acc
      [] w \in OptList -> [acc EXCEPT !.cur = w]
      [] acc.cur = "" -> ParseInputFile(acc, w)
      [] acc.cur = "TBLS" -> [acc EXCEPT !.tbls = @ \cup {w}]
      [] acc.cur = "APPS" -> [acc EXCEPT !.apps = Append(@, w)]
      [] OTHER -> acc

\* parse_configs: with no argument the usage is printed and the script
\* exits.  g_Tbls is a list; only membership is ever tested, so a set.
ParseConfigs(argv) ==
    IF argv = <<>>
    THEN [cur |-> "", apps |-> <<>>, tbls |-> {}, stop |-> TRUE, exit |-> TRUE]
    ELSE FoldLeft(ArgWord,
                  [cur |-> "", apps |-> <<>>, tbls |-> {}, stop |-> FALSE, exit |-> FALSE],
                  argv)

-----------------------------------------------------------------------------
(* What each generated file refers to, for the TBLS keys T it was written *)
(* with.  inc: headers of the application it includes; src: sources a     *)
(* makefile builds; fdefs/calls: application functions (and the global    *)
(* g_<APP>_AppData) it defines and uses; tdefs/types: the types and the   *)
(* macros (<APP>_EVT_CNT) it defines and uses.                             *)

Has(T, k) == k \in T
AnyTbl(T) == Has(T, "iload") \/ Has(T, "cds")
If(c, S) == IF c THEN S ELSE {}

Nothing == [inc |-> {}, src |-> {}, fdefs |-> {}, calls |-> {}, tdefs |-> {}, types |-> {}]
With(r, inc, src, fdefs, calls, tdefs, types) ==
    [inc |-> r.inc \cup inc, src |-> r.src \cup src, fdefs |-> r.fdefs \cup fdefs,
     calls |-> r.calls \cup calls, tdefs |-> r.tdefs \cup tdefs, types |-> r.types \cup types]
Refs(inc) == With(Nothing, inc, {}, {}, {}, {}, {})

\* app_code_builds.construct_makefile_content: OBJS.
FlightMakefileContent(T) ==
    With(Nothing, {}, {"app.c"} \cup If(Has(T, "iload"), {"iload_utils.c"})
                                \cup If(Has(T, "cds"), {"cds_utils.c"}), {}, {}, {}, {})

\* construct_table_makefile_content: TABLES = <app>_iloads.tbl.
TableMakefileContent(T) == With(Nothing, {}, {"iloads.c"}, {}, {}, {}, {})

\* app_code_tests.construct_makefile_content: ut_<app>.bin from ut_<app>.c.
UtMakefileContent(T) == With(Nothing, {}, {"ut_main.c"}, {}, {}, {}, {})

\* construct_mission_cfg_content, construct_perfids_content and
\* construct_msgids_content: <app>_tbldefs.h when a table key is given.
TblDefsIncluder(T) == Refs(If(AnyTbl(T), {"tbldefs.h"}))

\* Faulty form of MsgHeaderContent: iload_utils.h included for any table key.
MsgHeaderContentAnyTbl(T) ==
    With(Nothing, If(AnyTbl(T), {"iload_utils.h"}) \cup If(Has(T, "cds"), {"cds_utils.h"}),
         {}, {}, {}, {"HkTlm_t"}, {})

\* app_code_src.construct_msgheader_content: the utility headers and
\* <APP>_HkTlm_t.
MsgHeaderContent(T) ==
    With(Nothing, If(Has(T, "iload"), {"iload_utils.h"}) \cup If(Has(T, "cds"), {"cds_utils.h"}),
         {}, {}, {}, {"HkTlm_t"}, {})

\* app_code_incs.construct_ids_content: the event ids and <APP>_EVT_CNT.
PrivateIdsContent == With(Nothing, {}, {}, {}, {}, {"EVT_CNT"}, {})

\* app_code_incs.construct_private_types_content: includes only cfe.h.
PrivateTypesContent == With(Nothing, {}, {}, {}, {}, {"NoArgCmd_t", "InData_t", "OutData_t"}, {})

\* app_code_src.construct_header_content: the includes, the table members
\* of <APP>_AppData_t and the prototypes.
AppHeaderContent(T) ==
    With(Nothing,
         {"platform_cfg.h", "mission_cfg.h", "private_ids.h", "private_types.h",
          "perfids.h", "msgids.h", "msg.h"}
            \cup If(Has(T, "iload"), {"iload_utils.h"}) \cup If(Has(T, "cds"), {"cds_utils.h"}),
         {}, {}, {}, {},
         {"EVT_CNT", "InData_t", "OutData_t", "HkTlm_t"}
            \cup If(Has(T, "iload"), {"ILoadTblEntry_t"}) \cup If(Has(T, "cds"), {"CdsTbl_t"}))

\* The parts of <app>_app.c, written by generate_source in this order:
\* construct_source_head_content defines g_<APP>_AppData; each function
\* part defines its function and calls the ones named.
Defines(fs, cs) == With(Nothing, {}, {}, fs, cs, {}, {})
SourceHead == With(Nothing, {"platform_cfg.h", "mission_cfg.h", "app.h"}, {}, {"AppData"}, {}, {}, {})
SourceInitApp(T) ==
    Defines({"InitApp"}, {"AppData", "InitEvent", "InitPipe", "InitData", "CleanupCallback"}
                            \cup If(Has(T, "iload"), {"InitILoadTbl"})
                            \cup If(Has(T, "cds"), {"InitCdsTbl"}))
SourceInitEvent == With(Nothing, {}, {}, {"InitEvent"}, {"AppData"}, {}, {"EVT_CNT"})
SourceInitPipe == Defines({"InitPipe"}, {"AppData"})
SourceInitData == Defines({"InitData"}, {"AppData"})
\* Faulty form of SourceMain: the CDS update and save called for any table key.
SourceMainAnyTbl(T) ==
    Defines({"AppMain"}, {"AppData", "InitApp", "RcvMsg"}
                            \cup If(AnyTbl(T), {"UpdateCdsTbl", "SaveCdsTbl"}))
SourceMain(T) ==
    Defines({"AppMain"}, {"AppData", "InitApp", "RcvMsg"}
                            \cup If(Has(T, "cds"), {"UpdateCdsTbl", "SaveCdsTbl"}))
SourceCleanup == Defines({"CleanupCallback"}, {})
SourceRecvMsg == Defines({"RcvMsg"}, {"AppData", "ProcessNewCmds", "ProcessNewData", "SendOutData"})
SourceProcessNewData == Defines({"ProcessNewData"}, {"AppData"})
SourceProcessNewCmds == Defines({"ProcessNewCmds"}, {"AppData", "ProcessNewAppCmds", "ReportHousekeeping"})
SourceProcessNewAppCmds == Defines({"ProcessNewAppCmds"}, {"AppData"})
SourceReportHk == Defines({"ReportHousekeeping"}, {"AppData"})
SourceSendOutData == Defines({"SendOutData"}, {"AppData"})
SourceVerifyCmdLen == Defines({"VerifyCmdLength"}, {})

\* Field-wise union of the parts of one file.
Joined(parts) ==
    LET u(k) == UNION {parts[i][k] : i \in DOMAIN parts}
    IN [inc |-> u("inc"), src |-> u("src"), fdefs |-> u("fdefs"),
        calls |-> u("calls"), tdefs |-> u("tdefs"), types |-> u("types")]

AppSourceContent(T) ==
    Joined(<<SourceHead, SourceInitApp(T), SourceInitEvent, SourceInitPipe, SourceInitData,
             SourceMain(T), SourceCleanup, SourceRecvMsg, SourceProcessNewData,
             SourceProcessNewCmds, SourceProcessNewAppCmds, SourceReportHk,
             SourceSendOutData, SourceVerifyCmdLen>>)

\* app_code_tables.construct_header_content: the table types.
TblDefsContent(T) ==
    With(Nothing, {"mission_cfg.h"}, {}, {}, {},
         If(Has(T, "iload"), {"ILoadTblEntry_t"}) \cup If(Has(T, "cds"), {"CdsTbl_t"}), {})

\* construct_source_iload_content: the default ILoad table.
ILoadSourceContent == With(Nothing, {"tbldefs.h"}, {}, {}, {}, {}, {"ILoadTblEntry_t"})

\* construct_iload_util_header_content and the parts of <app>_iload_utils.c.
ILoadUtilHeaderContent == With(Nothing, {"app.h"}, {}, {}, {}, {}, {"ILoadTblEntry_t"})
ILoadUtilHead == With(Nothing, {"iload_utils.h"}, {}, {}, {"AppData"}, {}, {})
ILoadUtilInit ==
    With(Nothing, {}, {}, {"InitILoadTbl"}, {"AppData", "ValidateILoadTbl", "ProcessNewILoadTbl"},
         {}, {"ILoadTblEntry_t"})
ILoadUtilValidate == With(Nothing, {}, {}, {"ValidateILoadTbl"}, {}, {}, {"ILoadTblEntry_t"})
ILoadUtilProcess == Defines({"ProcessNewILoadTbl"}, {"AppData"})
ILoadUtilSourceContent ==
    Joined(<<ILoadUtilHead, ILoadUtilInit, ILoadUtilValidate, ILoadUtilProcess>>)

\* construct_cds_util_header_content and the parts of <app>_cds_utils.c.
CdsUtilHeaderContent == Refs({"tbldefs.h"})
CdsUtilHead == With(Nothing, {"app.h", "cds_utils.h"}, {}, {}, {"AppData"}, {}, {})
CdsUtilInit == With(Nothing, {}, {}, {"InitCdsTbl"}, {"AppData"}, {}, {"CdsTbl_t"})
CdsUtilUpdate == Defines({"UpdateCdsTbl"}, {"AppData"})
CdsUtilSave == Defines({"SaveCdsTbl"}, {"AppData"})
CdsUtilSourceContent == Joined(<<CdsUtilHead, CdsUtilInit, CdsUtilUpdate, CdsUtilSave>>)

\* What file f written with keys T refers to.
Content(f, T) ==
    CASE f = "Makefile" -> FlightMakefileContent(T)
      [] f = "tables.mak" -> TableMakefileContent(T)
      [] f = "ut.Makefile" -> UtMakefileContent(T)
      [] f \in {"mission_cfg.h", "perfids.h", "msgids.h"} -> TblDefsIncluder(T)
      [] f = "msg.h" -> MsgHeaderContent(T)
      [] f = "private_ids.h" -> PrivateIdsContent
      [] f = "private_types.h" -> PrivateTypesContent
      [] f = "app.h" -> AppHeaderContent(T)
      [] f = "app.c" -> AppSourceContent(T)
      [] f = "tbldefs.h" -> TblDefsContent(T)
      [] f = "iloads.c" -> ILoadSourceContent
      [] f = "iload_utils.h" -> ILoadUtilHeaderContent
      [] f = "iload_utils.c" -> ILoadUtilSourceContent
      [] f = "cds_utils.h" -> CdsUtilHeaderContent
      [] f = "cds_utils.c" -> CdsUtilSourceContent
      [] OTHER -> Nothing

-----------------------------------------------------------------------------
(* The steps of one application, on r = [tree, err]: err is an IOError    *)
(* that ended the script; no later step runs.                              *)

\* open_file_for_writing(path, False): open(path, 'w') raises IOError when
\* the directory of the file does not exist.
WriteFile(r, a, f, T) ==
    CASE r.err -> r
      [] DirOf(f) \in r.tree[a].dirs -> [r EXCEPT !.tree[a].files[f] = Written(T)]
      [] OTHER -> [r EXCEPT !.err = TRUE]

\* app_utils.remove_file: os.remove when the file exists.
RemoveFile(r, a, f) ==
    IF r.err THEN r ELSE [r EXCEPT !.tree[a].files[f] = Absent]

SubDirs == {"for_build", "mission_inc", "platform_inc", "src", "unit_test"}

\* Faulty form of CreateCfsDirs: tables/ made only for the iload key.
CreateCfsDirsIloadOnly(r, a, T) ==
    LET t == r.tree[a]
        cleared == IF Has(T, "none")
                   THEN [dirs |-> t.dirs \ {"tables"},
                         files |-> [f \in Files |-> IF DirOf(f) = "tables" THEN Absent ELSE t.files[f]]]
                   ELSE t
        new == SubDirs \cup If(~Has(T, "none") /\ Has(T, "iload"), {"tables"})
    IN IF r.err THEN r
       ELSE [r EXCEPT !.tree[a] = [cleared EXCEPT !.dirs = @ \cup new]]

\* app_utils.create_cfs_dirs: the app's directory, fsw and its
\* sub-directories; "none" removes the tables tree first, "iload" or
\* "cds" adds tables.  OUTDIR itself is taken to exist.
CreateCfsDirs(r, a, T) ==
    LET t == r.tree[a]
        cleared == IF Has(T, "none")
                   THEN [dirs |-> t.dirs \ {"tables"},
                         files |-> [f \in Files |-> IF DirOf(f) = "tables" THEN Absent ELSE t.files[f]]]
                   ELSE t
        new == SubDirs \cup If(~Has(T, "none") /\ AnyTbl(T), {"tables"})
    IN IF r.err THEN r
       ELSE [r EXCEPT !.tree[a] = [cleared EXCEPT !.dirs = @ \cup new]]

\* app_code_builds.generate_makefile and generate_table_makefile.
GenerateMakefile(r, a, T) == WriteFile(r, a, "Makefile", T)
GenerateTableMakefile(r, a, T) ==
    CASE T = {} -> RemoveFile(r, a, "tables.mak")
      [] AnyTbl(T) -> WriteFile(r, a, "tables.mak", T)
      [] OTHER -> r

\* app_code_incs.generate_mission_cfg, generate_ids, generate_private_types,
\* generate_platform_cfg, generate_perfids, generate_msgids.
GenerateMissionCfg(r, a, T) == WriteFile(r, a, "mission_cfg.h", T)
GenerateIds(r, a, T) == WriteFile(r, a, "private_ids.h", T)
GeneratePrivateTypes(r, a, T) == WriteFile(r, a, "private_types.h", T)
GeneratePlatformCfg(r, a, T) == WriteFile(r, a, "platform_cfg.h", T)
GeneratePerfids(r, a, T) == WriteFile(r, a, "perfids.h", T)
GenerateMsgids(r, a, T) == WriteFile(r, a, "msgids.h", T)

\* app_code_src.generate_msgheader, generate_header, generate_source.
GenerateMsgheader(r, a, T) == WriteFile(r, a, "msg.h", T)
GenerateHeader(r, a, T) == WriteFile(r, a, "app.h", T)
GenerateSource(r, a, T) == WriteFile(r, a, "app.c", T)

\* app_code_tables.generate_header: removed for "none", written for a
\* table key, left as it is otherwise.
GenerateTblHeader(r, a, T) ==
    CASE Has(T, "none") -> RemoveFile(r, a, "tbldefs.h")
      [] AnyTbl(T) -> WriteFile(r, a, "tbldefs.h", T)
      [] OTHER -> r

\* The other generators of app_code_tables: removed for "none" or when
\* their key is missing, written otherwise.
TableFile(r, a, T, key, f) ==
    IF Has(T, "none") \/ ~Has(T, key) THEN RemoveFile(r, a, f) ELSE WriteFile(r, a, f, T)

GenerateDefaultIloadSource(r, a, T) == TableFile(r, a, T, "iload", "iloads.c")
GenerateIloadUtilsHeader(r, a, T) == TableFile(r, a, T, "iload", "iload_utils.h")
GenerateIloadUtilsSource(r, a, T) == TableFile(r, a, T, "iload", "iload_utils.c")
GenerateCdsUtilsHeader(r, a, T) == TableFile(r, a, T, "cds", "cds_utils.h")
GenerateCdsUtilsSource(r, a, T) == TableFile(r, a, T, "cds", "cds_utils.c")

\* app_code_tests.generate_makefile (generate_ut_main is never called).
GenerateUtMakefile(r, a, T) == WriteFile(r, a, "ut.Makefile", T)

\* The body of "for itm in g_Apps", in its order.
GenerateApp(r, a, T) ==
    LET r1 == CreateCfsDirs(r, a, T)
        r2 == GenerateTableMakefile(GenerateMakefile(r1, a, T), a, T)
        r3 == GeneratePrivateTypes(GenerateIds(GenerateMissionCfg(r2, a, T), a, T), a, T)
        r4 == GenerateMsgids(GeneratePerfids(GeneratePlatformCfg(r3, a, T), a, T), a, T)
        r5 == GenerateSource(GenerateHeader(GenerateMsgheader(r4, a, T), a, T), a, T)
        r6 == GenerateIloadUtilsHeader(GenerateDefaultIloadSource(GenerateTblHeader(r5, a, T), a, T), a, T)
        r7 == GenerateCdsUtilsSource(GenerateCdsUtilsHeader(GenerateIloadUtilsSource(r6, a, T), a, T), a, T)
    IN GenerateUtMakefile(r7, a, T)

Init ==
    /\ tree = EmptyTree
    /\ status = "ok"
    /\ runs = 0

(* One run of gen_app_code.py: parse the settings, then generate every    *)
(* application in turn; sys.exit in parsing writes nothing.               *)
RunGenAppCode(argv) ==
    /\ runs < MaxRuns
    /\ LET c == ParseConfigs(argv)
           r == FoldLeft(LAMBDA rr, a : GenerateApp(rr, a, c.tbls),
                         [tree |-> tree, err |-> FALSE], c.apps)
       IN IF c.exit
          THEN tree' = tree /\ status' = "exit"
          ELSE tree' = r.tree /\ status' = IF r.err THEN "ioerror" ELSE "ok"
    /\ runs' = runs + 1

Next == \E argv \in Argvs : RunGenAppCode(argv)

Spec == Init /\ [][Next]_vars

-----------------------------------------------------------------------------
Present(a, f) == tree[a].files[f].present
InTree(a) == {f \in Files : Present(a, f)}
ContentOf(a, f) == Content(f, tree[a].files[f].tbls)

\* The keys the usage text documents: "TBLS <key-list> ... Keys: [iload, cds]".
Documented(T) == T \subseteq {"iload", "cds"}

\* The TBLS keys of the last run that generated application a: its
\* Makefile is written on every run.
LastKeys(a) == tree[a].files["Makefile"].tbls
Generated(a) == Present(a, "Makefile") /\ Documented(LastKeys(a))

\* The include links of the files in the tree: f includes h.
Includes(a) == {e \in InTree(a) \X Files : e[2] \in ContentOf(a, e[1]).inc}

\* The files reachable from the set S along the links E.
RECURSIVE ReachableVia(_, _)
ReachableVia(E, S) ==
    LET S2 == S \cup {e[2] : e \in {x \in E : x[1] \in S}}
    IN IF S2 = S THEN S ELSE ReachableVia(E, S2)

\* f and the headers it includes, directly or through other headers.
IncludeClosure(a, f) == ReachableVia(Includes(a), {f})

TypeOK ==
    /\ tree \in [Apps -> [dirs : SUBSET (SubDirs \cup {"tables"}),
                          files : [Files -> [present : BOOLEAN, tbls : SUBSET STRING]]]]
    /\ status \in {"ok", "exit", "ioerror"}
    /\ runs \in 0..MaxRuns

(* After a run with the documented TBLS keys, every file of the tree,     *)
(* including one an earlier run left behind, compiles as far as the       *)
(* application goes: each header it includes is in the tree, and each    *)
(* type or macro it uses is defined by a header it includes.  The include *)
(* choices of app_code_src and app_code_incs must agree with the files    *)
(* app_code_tables keeps or removes, over every history of runs.          *)
IncludesResolve ==
    \A a \in Apps : Generated(a) =>
        \A f \in InTree(a) :
            /\ ContentOf(a, f).inc \subseteq InTree(a)
            /\ \A t \in ContentOf(a, f).types :
                  \E h \in IncludeClosure(a, f) \cap InTree(a) : t \in ContentOf(a, h).tdefs

(* After a run with the documented TBLS keys, the flight makefile builds  *)
(* only sources that are in the tree, and every application function a   *)
(* built source calls is defined by a built source: the table calls of    *)
(* <app>_app.c, the OBJS of the makefile and the utility files written    *)
(* or removed agree.                                                       *)
FlightBuildLinks ==
    \A a \in Apps : Generated(a) =>
        LET built == ContentOf(a, "Makefile").src
        IN /\ built \subseteq InTree(a)
           /\ \A s \in built :
                 ContentOf(a, s).calls \subseteq UNION {ContentOf(a, x).fdefs : x \in built}

(* No run of the script stops on an IOError: every file a generator       *)
(* opens for writing lies in a directory create_cfs_dirs has made, so a   *)
(* run never leaves an application half generated.                        *)
RunsComplete == status # "ioerror"

(* The table makefile names tables whose C source is in the tree: its     *)
(* template says "There must be a single C source file for each table".   *)
TableBuildResolves ==
    \A a \in Apps : Present(a, "tables.mak") => ContentOf(a, "tables.mak").src \subseteq InTree(a)

=============================================================================
