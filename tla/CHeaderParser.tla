---------------------------- MODULE CHeaderParser ----------------------------
(***************************************************************************)
(* CHeaderParser.py: the interactive script that turns the cFS header     *)
(* files named in CHeaderParser-hdr-paths.txt into the pickles the command *)
(* pages read.  It concatenates the headers, takes every "#define NAME     *)
(* VALUE" line as a command (CommandFiles/<name>), then, for each command  *)
(* the user picks, scans the headers for brace-delimited structures, lets  *)
(* the user pick one and its parameter lines, and writes                   *)
(* ParameterFiles/<command>.                                               *)
(*                                                                         *)
(* A header line is the sequence of its whitespace-separated tokens.  A    *)
(* token is a record: its text s up to any '[', whether it holds a '['    *)
(* (arr) and the characters between '[' and ']' (dim); the ';' the code   *)
(* strips from a parameter name is left out of s.  The code's substring    *)
(* tests for '{', '}', '/*' and '//' are tests for a token: the headers    *)
(* checked write them apart.  The user's answers are free choices; an     *)
(* answer the script rejects and asks again for changes nothing and is    *)
(* not a step.  An exception ends the script ("raised").                   *)
(***************************************************************************)
EXTENDS Integers, Sequences, SequencesExt, FiniteSets

LOCAL Dec == INSTANCE Topic

CONSTANTS
    HeaderLists,  \* what the header files hold: sequences of files, a file a sequence of lines
    UserSizes,    \* array sizes the user may type for a dimension that is not a number
    MaxStructs    \* bound on the structures one scan collects

VARIABLES
    pc,           \* the prompt or loop the script is at
    hdr,          \* master_hdr: the lines of all headers, in order
    cmdFile,      \* the pickle written to CommandFiles/: [desc, code, param lists]
    unused,       \* unused_cmdDesc
    used,         \* used_cmdDesc
    choice,       \* command_choice (1-based), and cmdName = unused[choice]
    cmdName,
    lineNum,      \* line_num of the structure scan (0-based)
    structs,      \* list_cmd_structs: each a sequence of 0-based line numbers
    structLines,  \* cmd_struct_lines: the chosen structure's lines not yet taken
    params,       \* the parameters added so far: one record per list entry
    paramFiles    \* ParameterFiles/: command name -> its parameters

vars == <<pc, hdr, cmdFile, unused, used, choice, cmdName, lineNum, structs,
          structLines, params, paramFiles>>

Ends == {"done", "exit", "raised"}

\* The cmdUtil types findDataTypeNew returns.
CmdUtilTypes == {"--string", "--byte", "--half", "--word", "--double"}

-----------------------------------------------------------------------------
HasTok(l, t) == \E i \in DOMAIN l : l[i].s = t

\* The tokens before the first token t.
Before(l, t) == SubSeq(l, 1, SelectInSeq(l, LAMBDA x : x.s = t) - 1)

\* The comment cut of a "#define" line: at '/*' if there is one, else at '//'.
StripComment(l) ==
    CASE HasTok(l, "/*") -> Before(l, "/*")
      [] HasTok(l, "//") -> Before(l, "//")
      [] OTHER -> l

\* The "#define" lines that split into exactly three parts, comment cut.
Definitions(h) ==
    SelectSeq([i \in DOMAIN SelectSeq(h, LAMBDA l : HasTok(l, "#define")) |->
                  StripComment(SelectSeq(h, LAMBDA l : HasTok(l, "#define"))[i])],
              LAMBDA l : Len(l) = 3)

\* findDataTypeNew(dataTypeOrig, paramName): "" when no type matches.
FindDataTypeNew(orig, name) ==
    CASE name.arr -> "--string"
      [] orig \in {"uint8", "boolean"} -> "--byte"
      [] orig = "uint16" -> "--half"
      [] orig = "uint32" -> "--word"
      [] orig = "uint64" -> "--double"
      [] OTHER -> ""

\* str(x).isdigit() and int(x) of an array dimension.
Digits == {"0", "1", "2", "3", "4", "5", "6", "7", "8", "9"}
IsDigit(d) == d # <<>> /\ \A i \in DOMAIN d : d[i] \in Digits
IntOf(d) == FoldLeft(LAMBDA acc, c : acc * 10 + (CHOOSE v \in 0..9 : Dec!DigitChar[v + 1] = c), 0, d)

\* The lines from..to, 0-based.
LinesFrom(from, to) == [k \in 1..(to - from + 1) |-> from + k - 1]

\* The lines at or after line n (0-based) that hold a '}'.
Closes(n) == {k \in n..(Len(hdr) - 1) : HasTok(hdr[k + 1], "}")}

Init ==
    /\ pc = "init"
    /\ hdr = <<>>
    /\ cmdFile = <<>>
    /\ unused = <<>>
    /\ used = <<>>
    /\ choice = 0
    /\ cmdName = ""
    /\ lineNum = 0
    /\ structs = <<>>
    /\ structLines = <<>>
    /\ params = <<>>
    /\ paramFiles = <<>>

(* __main__ up to the first question: getFileList (no file, or no line    *)
(* that is neither empty nor a comment, exits), master_hdr, the "#define"  *)
(* loop and the command pickle [cmdDesc, cmdCodes, cmdDesc].               *)
ParseHeaders ==
    /\ pc = "init"
    /\ \E files \in HeaderLists :
          IF files = <<>>
          THEN pc' = "exit" /\ UNCHANGED <<hdr, cmdFile, unused>>
          ELSE LET h == FlattenSeq(files)
                   desc == [i \in DOMAIN Definitions(h) |-> Definitions(h)[i][2].s]
                   code == [i \in DOMAIN Definitions(h) |-> Definitions(h)[i][3].s]
               IN /\ hdr' = h
                  /\ cmdFile' = <<desc, code, desc>>
                  /\ unused' = desc
                  /\ pc' = "ask"
    /\ UNCHANGED <<used, choice, cmdName, lineNum, structs, structLines, params, paramFiles>>

(* "Do any commands ... require parameters?": no exits, yes goes on.       *)
AnswerParams ==
    /\ pc = "ask"
    /\ pc' \in {"exit", "cmd"}
    /\ UNCHANGED <<hdr, cmdFile, unused, used, choice, cmdName, lineNum, structs,
                   structLines, params, paramFiles>>

(* "Which command would you like to add parameters to?": -1 ends the loop; *)
(* a rejected answer followed by -1 exits; a listed command starts a new   *)
(* structure scan with empty parameter lists.                              *)
ChooseCommand ==
    /\ pc = "cmd"
    /\ \/ /\ pc' \in {"done", "exit"}
          /\ UNCHANGED <<choice, cmdName, lineNum, structs, params>>
       \/ \E k \in 1..Len(unused) :
             /\ choice' = k
             /\ cmdName' = unused[k]
             /\ lineNum' = 0
             /\ structs' = <<>>
             /\ params' = <<>>
             /\ pc' = "scan"
    /\ UNCHANGED <<hdr, cmdFile, unused, used, structLines, paramFiles>>

\* Faulty form of StructOf: the '}' line left out.
StructOfNoClose(i, j) == LinesFrom(i, j - 1)

\* lines_of_struct: the lines from the '{' line i to the '}' line j,
\* "even if it has a '}'".
StructOf(i, j) == LinesFrom(i, j)

\* Faulty form of PassLine: the "else" branch without its increment.
PassLineInPlace(n) == n

\* "line_num += 1" of a line without '{'.
PassLine(n) == n + 1

(* One iteration of "while line_num in range(0, len(file_lines))": a line *)
(* without '{' is passed; a line with '{' runs the inner loop, which       *)
(* collects lines up to and including the next line with '}' (from this    *)
(* very line on) and breaks there without moving line_num; past the last   *)
(* line it raises IndexError.  Out of range, the scan is over.             *)
ScanStep ==
    /\ pc = "scan"
    /\ \/ /\ lineNum >= Len(hdr)
          /\ pc' = "struct"
          /\ UNCHANGED <<lineNum, structs>>
       \/ /\ lineNum < Len(hdr)
          /\ ~HasTok(hdr[lineNum + 1], "{")
          /\ lineNum' = PassLine(lineNum)
          /\ UNCHANGED <<structs, pc>>
       \/ /\ lineNum < Len(hdr)
          /\ HasTok(hdr[lineNum + 1], "{")
          /\ IF Closes(lineNum) = {}
             THEN pc' = "raised" /\ UNCHANGED <<lineNum, structs>>
             ELSE LET j == Min(Closes(lineNum))
                  IN /\ Len(structs) < MaxStructs
                     /\ structs' = Append(structs, StructOf(lineNum, j))
                     /\ lineNum' = j
                     /\ UNCHANGED pc
    /\ UNCHANGED <<hdr, cmdFile, unused, used, choice, cmdName, structLines, params, paramFiles>>

(* "Which of the above structures would you like to use?": -1 (also after *)
(* rejected answers) exits; a listed structure becomes cmd_struct_lines.   *)
ChooseStruct ==
    /\ pc = "struct"
    /\ \/ /\ pc' = "exit"
          /\ UNCHANGED structLines
       \/ \E s \in 1..Len(structs) :
             /\ structLines' = structs[s]
             /\ pc' = "param"
    /\ UNCHANGED <<hdr, cmdFile, unused, used, choice, cmdName, lineNum, structs, params, paramFiles>>
\* Python's index p into a list s: -1 is the last entry.
InRange(s, p) == -Len(s) <= p /\ p < Len(s)
PyIndex(s, p) == IF p < 0 THEN Len(s) + p + 1 ELSE p + 1

(* stringLens of a '[' parameter: str(array_size), the dimension's own    *)
(* text when it is a number in 0..128, else the number the user types    *)
(* until one is in 0..128.                                                *)
StringLens(tok) ==
    IF IsDigit(tok.dim) /\ IntOf(tok.dim) <= 128 THEN {tok.dim}
    ELSE {Dec!Render(u, 10) : u \in UserSizes \cap 0..128}

\* The list entries of one parameter line: dataTypesOrig, paramNames,
\* paramLens (the raw dimension), dataTypesNew and stringLens.
Param(line, slen) ==
    LET typ == FindDataTypeNew(line[1].s, line[2])
    IN [orig |-> line[1].s, name |-> line[2].s, typ |-> typ,
        len |-> IF typ = "--string" THEN line[2].dim ELSE <<>>,
        slen |-> IF typ = "--string" THEN slen ELSE <<>>]

\* Faulty form of Typed: a line of any type taken.
TypedAny(line) == TRUE

\* dataTypeNew is not '' (otherwise parser.findKeyword, which the class
\* does not have, raises AttributeError).
Typed(line) == FindDataTypeNew(line[1].s, line[2]) # ""

\* Faulty form of Remaining: the "del" left out.
RemainingKeepAll(s, i) == s

\* "del cmd_struct_lines[param_line]".
Remaining(s, i) == RemoveAt(s, i)

(* After the parameter loop: the command moves from unused_cmdDesc to      *)
(* used_cmdDesc and ParameterFiles/<cmdName> is written, over any earlier  *)
(* file of that name.                                                      *)
FinishCommand(ps) ==
    /\ used' = Append(used, cmdName)
    /\ unused' = RemoveAt(unused, choice)
    /\ paramFiles' = (cmdName :> ps) @@ paramFiles
    /\ pc' = "cmd"

(* "Enter the line of the parameter ... (-1 to stop)": -1 ends the loop; an *)
(* index Python cannot take, a line of fewer than two words, or a type     *)
(* findDataTypeNew does not know (findKeyword is not a method of the       *)
(* class) raises; otherwise the parameter is added and its line removed,   *)
(* and the loop ends when no line is left.                                 *)
ChooseParam ==
    /\ pc = "param"
    /\ \E p \in -2..Len(structLines) :
         CASE p = -1 ->
                /\ FinishCommand(params)
                /\ UNCHANGED <<params, structLines>>
           [] ~InRange(structLines, p) ->
                /\ pc' = "raised"
                /\ UNCHANGED <<used, unused, paramFiles, params, structLines>>
           [] OTHER ->
                LET i == PyIndex(structLines, p)
                    line == hdr[structLines[i] + 1]
                IN IF Len(line) < 2 \/ ~Typed(line)
                   THEN /\ pc' = "raised"
                        /\ UNCHANGED <<used, unused, paramFiles, params, structLines>>
                   ELSE \E slen \in StringLens(line[2]) :
                          LET ps == Append(params, Param(line, slen))
                              rest == Remaining(structLines, i)
                          IN /\ params' = ps
                             /\ structLines' = rest
                             /\ IF rest = <<>>
                                THEN FinishCommand(ps)
                                ELSE UNCHANGED <<used, unused, paramFiles, pc>>
    /\ UNCHANGED <<hdr, cmdFile, choice, cmdName, lineNum, structs>>

Next ==
    \/ ParseHeaders
    \/ AnswerParams
    \/ ChooseCommand
    \/ ScanStep
    \/ ChooseStruct
    \/ ChooseParam

(* The user may stop answering at any prompt; the scan runs on its own.    *)
Spec == Init /\ [][Next]_vars /\ WF_vars(ScanStep)

-----------------------------------------------------------------------------
TypeOK ==
    /\ pc \in {"init", "ask", "cmd", "scan", "struct", "param"} \cup Ends
    /\ lineNum \in 0..Len(hdr)
    /\ structs \in Seq(Seq(0..(Len(hdr) - 1)))
    /\ structLines \in Seq(0..(Len(hdr) - 1))
    /\ \A i \in DOMAIN params : params[i].typ \in CmdUtilTypes

\* The reference reading of a header's structures: from a line with '{'
\* outside any earlier structure to the next line with '}'.
RECURSIVE BraceBlocks(_)
BraceBlocks(i) ==
    IF i >= Len(hdr) THEN <<>>
    ELSE IF HasTok(hdr[i + 1], "{") /\ Closes(i) # {}
         THEN <<LinesFrom(i, Min(Closes(i)))>> \o BraceBlocks(Min(Closes(i)) + 1)
         ELSE BraceBlocks(i + 1)

(* The structures the scan offers the user are exactly the brace blocks of *)
(* the headers, each from its '{' line through its '}' line: the outer    *)
(* loop that does not advance on a '{' line and the inner loop that breaks *)
(* on '}' without advancing must together step over every line once.      *)
StructsAreBraceBlocks ==
    pc \in {"struct", "param"} => structs = BraceBlocks(0)

(* Once a structure scan starts, it ends: the script gets back to asking   *)
(* the user, or raises.                                                    *)
ScanEnds == pc = "scan" ~> pc # "scan"
=============================================================================
