---------------------------- MODULE CommandPages ----------------------------
(***************************************************************************)
(* The command side of the ground system: the command system window      *)
(* (CommandSystem.py) loads command-pages.txt and quick-buttons.txt; its *)
(* "Display Page" buttons start a command page (UdpCommands.py) for a    *)
(* page row, and its quick buttons send a page's quick command.  A       *)
(* command page's send buttons, and the quick buttons, start cmdUtil     *)
(* directly for a command without parameters and a parameter dialog      *)
(* (Parameter.py) for one with parameters; the dialog starts cmdUtil     *)
(* when its Send is pressed.                                               *)
(*                                                                         *)
(* Each started process is a record of the arguments its getopt loop      *)
(* stores; a cmdUtil run is a record of its header arguments, the         *)
(* parameter arguments and, as history, the page and command it was sent  *)
(* for.  Rows of the text files are sequences of fields as csv.reader    *)
(* yields them; the line edits are not edited by the operator here.       *)
(***************************************************************************)
EXTENDS Naturals, Sequences, SequencesExt, Topic

CONSTANTS
    PageRows,     \* command-pages.txt: desc, file, appid, endian, class, address, port
    QuickRows,    \* quick-buttons.txt: subsys, file, cmd, code, pktid, endian, address, port, param
    CmdFiles,     \* CommandFiles/<file>: the pickled [desc, code, param] lists
    ParamFiles,   \* ParameterFiles/<key> -> its number of parameters (absent: no file)
    MaxPages,     \* bound on command pages started
    MaxDialogs,   \* bound on parameter dialogs open at once
    MaxSent       \* bound on cmdUtil runs

VARIABLES
    pages,    \* the UdpCommands.py processes started, in order
    dialogs,  \* the Parameter.py processes open
    sent      \* the cmdUtil runs started, in order

cmdVars == <<pages, dialogs, sent>>

\* Python list indexing: l[idx] exists, and its value.
Has(l, idx) == idx < Len(l)
At(l, idx) == l[idx + 1]

Slots == 0..21   \* "for j in range(i, 22)" and the 22 page slots of the window

-----------------------------------------------------------------------------
\* "if cmdRow[0][0] != '#'" raises IndexError for a blank line or an empty
\* first field (caught); a '#' row is a comment.  Either way nothing is appended.
Skipped(r) == r = <<>> \/ r[1] = "" \/ SubSeq(r[1], 1, 1) = "#"

\* One iteration of the loader's "for cmdRow in reader": True, then the
\* fields one list at a time, stopping at the first missing one (IndexError,
\* caught); i counts the rows that had all seven.  Column 0 is cmdPageIsValid.
LoadRow(acc, r) ==
    IF Skipped(r) THEN acc
    ELSE [col |-> [k \in 0..7 |->
                     IF k = 0 THEN Append(acc.col[0], TRUE)
                     ELSE IF k <= Len(r) THEN Append(acc.col[k], r[k]) ELSE acc.col[k]],
          i |-> IF Len(r) >= 7 THEN acc.i + 1 ELSE acc.i]

Loaded == FoldLeft(LoadRow, [col |-> [k \in 0..7 |-> <<>>], i |-> 0], PageRows)

\* "for j in range(i, 22)": appid 0 and False appended for the rest.
Pad(v) == [j \in 1..(IF Loaded.i < 22 THEN 22 - Loaded.i ELSE 0) |-> v]
cmdPageIsValid == Loaded.col[0] \o Pad(FALSE)
cmdPageAppid == Loaded.col[3] \o Pad(0)
Col(k) == Loaded.col[k]

\* The quick-button loader (no try): the rows that are not comments.
QuickList == SelectSeq(QuickRows, LAMBDA r : SubSeq(r[1], 1, 1) # "#")

\* "subsys.index(cmdPageDesc[idx])", -1 on ValueError.
QuickIndexOf(desc) ==
    IF \E k \in DOMAIN QuickList : QuickList[k][1] = desc
    THEN Min({k \in DOMAIN QuickList : QuickList[k][1] = desc}) - 1
    ELSE -1

\* Faulty form of QuickIndices: an index appended only when one is found.
QuickIndicesFoundOnly ==
    FoldLeft(LAMBDA acc, idx :
                IF At(cmdPageIsValid, idx) /\ QuickIndexOf(At(Col(1), idx)) >= 0
                THEN Append(acc, QuickIndexOf(At(Col(1), idx))) ELSE acc,
             <<>>, [j \in 1..22 |-> j - 1])

\* quickIndices: the per-page blocks of the main program append one entry
\* for each valid page, in slot order.
QuickIndices ==
    FoldLeft(LAMBDA acc, idx :
                IF At(cmdPageIsValid, idx) THEN Append(acc, QuickIndexOf(At(Col(1), idx)))
                ELSE acc,
             <<>>, [j \in 1..22 |-> j - 1])

\* The per-page blocks read cmdPageDesc, cmdPageAppid and cmdPageAddress of
\* every valid page; an IndexError there ends the program before show().
StartupCompletes ==
    \A idx \in Slots : At(cmdPageIsValid, idx) =>
        Has(Col(1), idx) /\ Has(cmdPageAppid, idx) /\ Has(Col(6), idx)

\* checkParams: the parameter file opens and lists at least one parameter.
CheckParams(key) == key \in DOMAIN ParamFiles /\ ParamFiles[key] > 0

\* Faulty form of PageProcess: --port taken by the "-p" branch of --pktid.
PageProcessPortAsPktId(idx) ==
    [title |-> At(Col(1), idx), pktid |-> <<At(Col(7), idx)>>, file |-> At(Col(2), idx),
     address |-> At(Col(6), idx), port |-> 1234, endian |-> At(Col(4), idx), page |-> idx]

\* The arguments UdpCommands.py's getopt loop stores from the launch string
\* of ProcessButtonGeneric(idx); the pktid is the text of lineEditPktId_idx,
\* hex(cmdPageAppid[idx]).  The page is history.
PageProcess(idx) ==
    [title |-> At(Col(1), idx), pktid |-> Hex(At(cmdPageAppid, idx)), file |-> At(Col(2), idx),
     address |-> At(Col(6), idx), port |-> At(Col(7), idx), endian |-> At(Col(4), idx), page |-> idx]

\* ProcessButtonGeneric raises IndexError building its launch string.
LaunchFails(idx) ==
    ~(Has(Col(2), idx) /\ Has(Col(7), idx) /\ Has(Col(4), idx) /\ Has(Col(5), 0))

\* Rows for which the main program raises before show() leave no window.
ASSUME StartupCompletes

Init ==
    /\ pages = <<>>
    /\ dialogs = <<>>
    /\ sent = <<>>

\* A command about to be sent or handed to a parameter dialog: the header
\* arguments, the parameter file, and (history) where it came from.
Command(host, port, pktid, endian, code, key, page, item, quick, label) ==
    [host |-> host, port |-> port, pktid |-> pktid, endian |-> endian, code |-> code,
     file |-> key, args |-> <<>>, via |-> "direct",
     src |-> [page |-> page, item |-> item, quick |-> quick, label |-> label]]

\* Parameter.py started for cmd: its getopt loop keeps the header arguments.
OpenDialog(cmd) ==
    /\ Len(dialogs) < MaxDialogs
    /\ dialogs' = Append(dialogs, cmd)
    /\ UNCHANGED <<pages, sent>>

\* cmdUtil started with the header arguments and no parameters.
SendDirect(cmd) ==
    /\ Len(sent) < MaxSent
    /\ sent' = Append(sent, cmd)
    /\ UNCHANGED <<pages, dialogs>>

\* The common tail of ProcessSendButtonGeneric and ProcessQuickButton.
SendOrAsk(cmd) == IF CheckParams(cmd.file) THEN OpenDialog(cmd) ELSE SendDirect(cmd)

(* ProcessButtonGeneric(idx) for pushButton_0 .. pushButton_20: a valid   *)
(* page starts cmdClass[0] with the page's arguments; UdpCommands.py ends *)
(* with IOError when its command file is missing.  A press whose launch   *)
(* string raises IndexError starts nothing.                               *)
ProcessButtonGeneric(idx) ==
    /\ At(cmdPageIsValid, idx)
    /\ ~LaunchFails(idx)
    /\ Len(pages) < MaxPages
    /\ pages' = IF PageProcess(idx).file \in DOMAIN CmdFiles
                THEN Append(pages, PageProcess(idx)) ELSE pages
    /\ UNCHANGED <<dialogs, sent>>

(* ProcessQuickButton(idx) for quickButton_1 .. quickButton_22: the quick *)
(* row found for the page, with the pktid and address of the page's line  *)
(* edits and the port, endian, code and parameter file of the quick row.  *)
ProcessQuickButton(idx) ==
    /\ At(cmdPageIsValid, idx)
    /\ Has(QuickIndices, idx)
    /\ At(QuickIndices, idx) >= 0
    /\ LET q == At(QuickIndices, idx)
           r == At(QuickList, q)
       IN SendOrAsk(Command(At(Col(6), idx), r[8], Hex(At(cmdPageAppid, idx)), r[6], r[4],
                            r[9], idx, q, TRUE, r[3]))

\* UdpCommands.py's cmdItemIsValid: the commands of the page's file, then
\* False up to 26 entries.
CmdItemIsValid(f, idx) == idx < Len(f.desc)

\* The text of itemLabelTextBrowser_1 .. _25, set once at startup: the
\* command's description, or "(unused)".
PageLabels(f) ==
    [k \in 0..24 |-> IF CmdItemIsValid(f, k) THEN At(f.desc, k) ELSE "(unused)"]

(* ProcessSendButtonGeneric(idx) of command page p, for its 25 send       *)
(* buttons: a command the page's file defines (cmdItemIsValid[idx]), with *)
(* the page's address, port, pktid and endian.                            *)
ProcessSendButtonGeneric(p, idx) ==
    LET pg == pages[p]
        f == CmdFiles[pg.file]
    IN /\ CmdItemIsValid(f, idx)
       /\ SendOrAsk(Command(pg.address, pg.port, pg.pktid, pg.endian, At(f.code, idx),
                            At(f.param, idx), pg.page, idx, FALSE, PageLabels(f)[idx]))

(* ProcessSendButton of parameter dialog d: cmdUtil with the dialog's     *)
(* header arguments followed by the argument vector args its parameter    *)
(* fields gave (ParameterDialog).                                          *)
DialogSend(d, args) ==
    /\ Len(sent) < MaxSent
    /\ sent' = Append(sent, [dialogs[d] EXCEPT !.args = args, !.via = "dialog"])
    /\ UNCHANGED <<pages, dialogs>>

(* The operator closes parameter dialog d.                                *)
CloseDialog(d) ==
    /\ dialogs' = RemoveAt(dialogs, d)
    /\ UNCHANGED <<pages, sent>>

\* Every step but a dialog's Send, whose arguments ParameterDialog computes.
PagesNext ==
    \/ \E idx \in 0..20 : ProcessButtonGeneric(idx)
    \/ \E idx \in Slots : ProcessQuickButton(idx)
    \/ \E p \in DOMAIN pages : \E idx \in 0..24 : ProcessSendButtonGeneric(p, idx)
    \/ \E d \in DOMAIN dialogs : CloseDialog(d)

-----------------------------------------------------------------------------
\* The page row the operator means by slot idx: the idx-th row that is
\* neither blank nor a comment.
PageRow(idx) == SelectSeq(PageRows, LAMBDA r : ~Skipped(r))[idx + 1]

\* Spec 4.5 and 6: a command with no parameter definitions, or no parameter
\* file, has no parameters.
HasParameters(key) == key \in DOMAIN ParamFiles /\ ParamFiles[key] > 0

\* The quick row named after a page.
QuickRowOf(desc) == QuickList[CHOOSE k \in DOMAIN QuickList : QuickList[k][1] = desc]

(* Every cmdUtil run for a command of a command page goes to the host and *)
(* port, with the packet id and byte order, that the page's own row of     *)
(* command-pages.txt gives, and carries the code of the command chosen     *)
(* (CommandSystem.py loader and ProcessButtonGeneric, UdpCommands.py       *)
(* getopt and ProcessSendButtonGeneric, Parameter.py getopt).              *)
SentCommandTargetsItsPage ==
    \A k \in DOMAIN sent : ~sent[k].src.quick =>
        LET r == PageRow(sent[k].src.page)
        IN /\ Len(r) >= 7
           /\ sent[k].host = r[6] /\ sent[k].port = r[7]
           /\ sent[k].pktid = Hex(r[3]) /\ sent[k].endian = r[4]
           /\ sent[k].code = At(CmdFiles[r[2]].code, sent[k].src.item)

(* A quick button sends the quick command of the row named after its     *)
(* page, to the page's host and packet id with the quick row's port and   *)
(* byte order: quickIndices stays aligned with the page slots.            *)
QuickCommandIsItsPages ==
    \A k \in DOMAIN sent : sent[k].src.quick =>
        LET r == PageRow(sent[k].src.page)
        IN /\ \E j \in DOMAIN QuickList : QuickList[j][1] = r[1]
           /\ sent[k].code = QuickRowOf(r[1])[4] /\ sent[k].port = QuickRowOf(r[1])[8]
           /\ sent[k].endian = QuickRowOf(r[1])[6]
           /\ sent[k].host = r[6] /\ sent[k].pktid = Hex(r[3])

=============================================================================
