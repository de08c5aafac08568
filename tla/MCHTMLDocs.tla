------------------------------ MODULE MCHTMLDocs ------------------------------
(***************************************************************************)
(* Model values for HTMLDocsParser, composed in MCCommandPages: four       *)
(* Doxygen struct pages and the three header globs.  START_APP has a       *)
(* string field whose size macro goes through another macro, a uint16 and *)
(* a string field with a two-text description; NOOP has only its header;  *)
(* RESTART documents no fields (no "Data Fields" section); WRITE_CDS has a *)
(* string size that resolves to 0, which the script asks the user for.    *)
(***************************************************************************)
EXTENDS Sequences, SequencesExt

Hdr == [type |-> "uint8", name |-> "CmdHeader", size |-> "CFE_SB_CMD_HDR_SIZE",
        desc |-> <<"cFE Software Bus Command Message Header">>, header |-> TRUE]

Fld(t, n, s, d) == [type |-> t, name |-> n, size |-> s, desc |-> d, header |-> FALSE]

\* The text nodes of a Doxygen struct page: a field is its type, its name,
\* "[size]" for an array, and its description texts.  A page without
\* documented fields has no "Data Fields" section.
FieldTexts(fl) ==
    <<fl.type, fl.name>> \o (IF fl.size = "" THEN <<>> ELSE <<"[" \o fl.size \o "]">>) \o fl.desc

PageTexts(n, fs) ==
    <<n>>
    \o (IF fs = <<>> THEN <<>>
        ELSE <<"Data Fields">> \o FlattenSeq([k \in DOMAIN fs |-> FieldTexts(fs[k])]))
    \o <<"Detailed Description", "The documentation for this struct was generated">>

Page(n, fs) == [name |-> n, texts |-> PageTexts(n, fs), fields |-> fs]

DocPages ==
    << Page("struct_c_f_e___e_s___start_app",
            << Hdr,
               Fld("char", "Application", "CFE_MISSION_MAX_API_LEN",
                   <<"Name of Application to be started">>),
               Fld("uint16", "Priority", "", <<"The priority of the Application">>),
               Fld("char", "AppFileName", "CFE_MISSION_MAX_PATH_LEN",
                   <<"Full path and filename of", "the Application's executable">>) >>),
       Page("struct_c_f_e___e_s___noop", <<Hdr>>),
       Page("struct_c_f_e___e_s___restart", <<>>),
       Page("struct_c_f_e___e_s___write_cds",
            << Hdr, Fld("char", "CDSName", "CFE_PLATFORM_ES_CDS_NAME_LEN",
                        <<"Name of the Critical Data Store">>) >>) >>

\* build/cpu1/inc/*.h, fsw/cfe-core/src/inc/cfe_*.h, mission_inc/cfe_mission_cfg.h
DocHeaders ==
    << << "#ifndef _osconfig_", "#define _osconfig_", "#define OS_MAX_API_NAME 20",
          "#define CFE_PLATFORM_ES_CDS_NAME_LEN 0", "#endif" >>,
       << "#define CFE_SB_CMD_HDR_SIZE (sizeof(CFE_SB_CmdHdr_t))" >>,
       << "#define CFE_MISSION_MAX_API_LEN OS_MAX_API_NAME",
          "#define CFE_MISSION_MAX_PATH_LEN 64" >> >>
=============================================================================
