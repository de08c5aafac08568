---------------------------- MODULE MCCHeaderFiles ----------------------------
(***************************************************************************)
(* Header files for CHeaderParser, written as the script's split() sees    *)
(* them: a line is its tokens, a token its text up to any '[', whether it  *)
(* has a '[' and what stands between '[' and ']'.                         *)
(***************************************************************************)
EXTENDS Sequences

T(s) == [s |-> s, arr |-> FALSE, dim |-> <<>>]
A(s, dim) == [s |-> s, arr |-> TRUE, dim |-> dim]

HdrSize == A("CmdHeader", <<"CFE_SB_CMD_HDR_SIZE">>)

(* sample_app_msg.h: include guard, three command codes (the third with a *)
(* '//' comment that holds a '/*'), a structure with the '{' on a line of *)
(* its own and one with the '{' after "struct"; the second has a numeric  *)
(* string size, one above 128 and a type findDataTypeNew does not know.   *)
SampleMsg ==
    << <<T("#ifndef"), T("SAMPLE_APP_MSG_H")>>,
       <<T("#define"), T("SAMPLE_APP_MSG_H")>>,
       <<T("#define"), T("SAMPLE_APP_NOOP_CC"), T("0")>>,
       <<T("#define"), T("SAMPLE_APP_RESET_COUNTERS_CC"), T("1"), T("/*"), T("reset"), T("*/")>>,
       <<T("#define"), T("SAMPLE_APP_SET_MODE_CC"), T("2"), T("//"), T("see"), T("/*"), T("mode"), T("*/")>>,
       <<T("typedef"), T("struct")>>,
       <<T("{")>>,
       <<T("uint8"), HdrSize>>,
       <<T("}"), T("SAMPLE_NoArgsCmd_t")>>,
       <<T("typedef"), T("struct"), T("{")>>,
       <<T("uint16"), T("Mode")>>,
       <<T("char"), A("Name", <<"2", "0">>)>>,
       <<T("uint8"), A("Data", <<"2", "0", "0">>)>>,
       <<T("int16"), T("Offset")>>,
       <<T("}"), T("SAMPLE_SetModeCmd_t")>>,
       <<T("#endif")>> >>

\* sample_app_msgids.h: a message id, which has the shape of a command code.
SampleMsgIds ==
    << <<T("#define"), T("SAMPLE_APP_CMD_MID"), T("0x1882")>> >>

\* No header file, or the two above.
PassHeaders == {<<>>, <<SampleMsg, SampleMsgIds>>}

\* A command structure written on one line.
OneLineStruct ==
    << <<T("#define"), T("SAMPLE_APP_NOOP_CC"), T("0")>>,
       <<T("typedef"), T("struct"), T("{"), T("uint8"), HdrSize, T("}"),
         T("SAMPLE_NoArgsCmd_t")>> >>
\* The one-line structure alone.
OneLineHeaders == {<<OneLineStruct>>}
=============================================================================
