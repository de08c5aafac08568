---------------------------- MODULE ReqValidation ----------------------------
(***************************************************************************)
(* The requirement validation plugin of CTF (ReqValidation_Plugin.py): a  *)
(* test script calls the commands of its command_map one at a time.       *)
(* ParseTxtFile searches a text file for a string; InterpretEventLog       *)
(* reads a binary cFE event log and writes it out as text, 20 entries, at *)
(* the offsets the code hardcodes; TO_DO and InsertComment only log.  Both *)
(* file commands open BuildDir + "/cfs_gw/build/exe/lx2" + the name given: *)
(* the name must start with "/".                                           *)
(*                                                                         *)
(* A text line is the set of the strings a search may find in it (the      *)
(* find of the code on a line is membership here).  A binary log is what  *)
(* cFE writes for a list of entries: the function from the byte ranges of *)
(* its fields to their values, and its size.  A range the code reads that *)
(* is not a field reads as Garbled, one past the end as the empty bytes.  *)
(* The build directory is a variable: InterpretEventLog truncates and     *)
(* writes its output there, and later commands read what it holds then.   *)
(***************************************************************************)
EXTENDS Integers, Sequences, FiniteSets, TLC

CONSTANTS
    TextFiles,   \* path -> the lines of a text file in the build directory
    LogEntries,  \* path -> the entries of a cFE event log file in the build directory
    Names,       \* the file names a script passes
    Searches,    \* the search strings a script passes
    Flags        \* the numbers a script passes as flags

VARIABLES
    ret,      \* what the last command returned: "true", "false", "none" or "raised"
    fs,       \* path -> the file there: a "text" file, a cFE "log" or "parsed" output
    call      \* history: the last command called, for the properties

vars == <<ret, fs, call>>

\* What the loop makes of bytes that are no field: a number, or a text.
Garbled == -1
GarbledText == "?"

\* The file CFE_EVS_WRITE_LOG_DATA_FILE_CC writes: a 64-byte file header,
\* then per entry a 16-byte telemetry header (time at 10: 4 bytes of
\* seconds, 2 of subseconds) and the payload (AppName 20, EventID 2,
\* EventType 2, SpacecraftID 4, ProcessorID 4, Message 122, Spare 2).
EntryBase(k) == 64 + (k - 1) * 172

EntryFields(e, b) ==
    <<b + 10, b + 14>> :> e.seconds @@ <<b + 14, b + 16>> :> e.subsecs @@
    <<b + 16, b + 36>> :> e.appName @@ <<b + 36, b + 38>> :> e.eventId @@
    <<b + 38, b + 40>> :> e.eventType @@ <<b + 48, b + 170>> :> e.eventText

LogFile(es) ==
    LET F(k) == EntryFields(es[k], EntryBase(k))
        D == UNION {DOMAIN F(k) : k \in DOMAIN es}
    IN [fields |-> [r \in D |-> LET k == CHOOSE j \in DOMAIN es : r \in DOMAIN F(j) IN F(k)[r]],
        size |-> EntryBase(Len(es) + 1)]


-----------------------------------------------------------------------------
\* BuildDir + "/cfs_gw/build/exe/lx2" + FileName, with BuildDir left out.
Path(name) == "lx2" \o name

\* A file of the build directory; the fields a kind does not use are empty.
File(kind, lines, entries, events) ==
    [kind |-> kind, lines |-> lines, entries |-> entries, events |-> events]

Missing == File("missing", <<>>, <<>>, <<>>)

\* A written line as ParseTxtFile sees it: the strings a search can find.
LineText(l) == {l.appName, l.eventType, l.eventText}

\* The lines open(path, 'r').readlines() gives: a binary log holds its
\* names and texts among bytes that may or may not contain a newline, so
\* all of it is taken as one line.
TextView(f) ==
    CASE f.kind = "text"   -> f.lines
      [] f.kind = "parsed" -> [i \in DOMAIN f.events |-> LineText(f.events[i])]
      [] f.kind = "log"    -> << UNION {{e.appName, e.eventText} : e \in {f.entries[k] : k \in DOMAIN f.entries}} >>

\* The bytes open(path, 'rb').read() gives.  A text file holds no field of
\* a log: every range the loop reads in it is Garbled, an empty one reads
\* as empty bytes.
Bytes(f) ==
    IF f.kind = "log" THEN LogFile(f.entries)
    ELSE [fields |-> <<>>, size |-> IF TextView(f) = <<>> THEN 0 ELSE EntryBase(21)]

\* line.find(SearchString) != -1: the empty string is found in any line.
Found(line, s) == s = "" \/ s \in line

\* The return value of ParseTxtFile for the lines read: the loop sets the
\* result TRUE on a match and counts the matches; the flag 1 tests after
\* the loop turn it into "no match".
ParseResult(lines, s, flag) ==
    LET n == Cardinality({i \in DOMAIN lines : Found(lines[i], s)})
    IN CASE flag = 1 /\ n = 0 -> TRUE
         [] flag = 1 /\ n > 0 -> FALSE
         [] OTHER             -> n > 0

\* The sizes the code computes: CFE_EVS_LongEventTlm_Payload_t and _t.
CFE_EVS_LongEventTlm_Payload_t == 32 + 122 + 2
EntryLenNoSpare == 16 + 32 + 122
CFE_EVS_LongEventTlm_t == 16 + CFE_EVS_LongEventTlm_Payload_t

\* int.from_bytes / decode of eventData[lo:hi]: the empty bytes past the end.
ReadField(log, lo, hi, empty, garbled) ==
    IF <<lo, hi>> \in DOMAIN log.fields THEN log.fields[<<lo, hi>>]
    ELSE IF lo >= log.size THEN empty ELSE garbled

\* The loop body of InterpretEventLog for entry i: the fields at the code's
\* offsets, the event type's label, and the time split into the printed
\* years, days, hours, minutes and seconds.
EventLine(log, i) ==
    LET off == i * CFE_EVS_LongEventTlm_t
        sec == ReadField(log, 74 + off, 78 + off, 0, Garbled)
        typ == ReadField(log, 102 + off, 104 + off, 0, Garbled)
    IN [entry |-> i + 1,
        years |-> sec \div 31556926, days |-> sec \div 86400,
        hours |-> (sec \div 3600) % 24, minutes |-> (sec \div 60) % 60,
        seconds |-> sec % 60,
        subsecs |-> ReadField(log, 78 + off, 80 + off, 0, Garbled),
        appName |-> ReadField(log, 80 + off, 100 + off, "", GarbledText),
        eventId |-> ReadField(log, 100 + off, 102 + off, 0, Garbled),
        eventType |-> CASE typ = 1 -> "DEBUG" [] typ = 2 -> "INFORMATION"
                        [] typ = 3 -> "ERROR" [] typ = 4 -> "CRITICAL"
                        [] OTHER  -> "Invalid Event Type",
        eventText |-> ReadField(log, 112 + off, 234 + off, "", GarbledText)]

-----------------------------------------------------------------------------
Init ==
    /\ ret = "none"
    /\ fs = [p \in DOMAIN TextFiles \cup DOMAIN LogEntries |->
                IF p \in DOMAIN LogEntries THEN File("log", <<>>, LogEntries[p], <<>>)
                ELSE File("text", TextFiles[p], <<>>, <<>>)]
    /\ call = [cmd |-> "none"]

\* initialize() and InsertComment(Comment): True (the comment is logged).
Initialize ==
    /\ ret' = "true"
    /\ call' = [cmd |-> "initialize"]
    /\ UNCHANGED fs

InsertComment ==
    /\ ret' = "true"
    /\ call' = [cmd |-> "InsertComment"]
    /\ UNCHANGED fs

\* TO_DO(Comment, ReturnErrorFlag): fails exactly when the flag is 1.
TO_DO(flag) ==
    /\ ret' = IF flag = 1 THEN "false" ELSE "true"
    /\ call' = [cmd |-> "TO_DO", flag |-> flag]
    /\ UNCHANGED fs

(* ParseTxtFile(FileName, SearchString, SearchNonExistFlag): open raises  *)
(* IOError for a file that is not there, and readlines may raise           *)
(* UnicodeDecodeError on the bytes of a binary log; otherwise the lines    *)
(* are searched.                                                           *)
ParseTxtFile(name, s, flag) ==
    LET p == Path(name)
    IN /\ \/ p \notin DOMAIN fs /\ ret' = "raised"
          \/ p \in DOMAIN fs /\ fs[p].kind = "log" /\ ret' = "raised"
          \/ p \in DOMAIN fs /\ ret' = IF ParseResult(TextView(fs[p]), s, flag) THEN "true" ELSE "false"
       /\ call' = [cmd |-> "ParseTxtFile", path |-> p, search |-> s, flag |-> flag]
       /\ UNCHANGED fs

(* InterpretEventLog(InputFile, OutputFile): the input is opened 'rb'     *)
(* first (IOError when missing, before the output exists); the output is  *)
(* then opened 'w', which truncates it, and only then is the input read:  *)
(* the bytes are those of the input after that truncation.  The output    *)
(* gets one line per entry i in range(20).                                 *)
InterpretEventLog(in, out) ==
    LET pi == Path(in)
        po == Path(out)
        truncated == (po :> File("text", <<>>, <<>>, <<>>)) @@ fs
        eventData == Bytes(truncated[pi])
    IN /\ IF pi \notin DOMAIN fs
          THEN /\ ret' = "raised"
               /\ UNCHANGED fs
          ELSE /\ ret' = "true"
               /\ fs' = (po :> File("parsed", <<>>, <<>>, [i \in 1..20 |-> EventLine(eventData, i - 1)]))
                        @@ fs
       /\ call' = [cmd |-> "InterpretEventLog", in |-> pi, out |-> po,
                   src |-> IF pi \in DOMAIN fs THEN fs[pi] ELSE Missing]

\* shutdown(): logs only.
Shutdown ==
    /\ ret' = "none"
    /\ call' = [cmd |-> "shutdown"]
    /\ UNCHANGED fs

Next ==
    \/ Initialize
    \/ InsertComment
    \/ \E f \in Flags : TO_DO(f)
    \/ \E n \in Names, s \in Searches, f \in Flags : ParseTxtFile(n, s, f)
    \/ \E i, o \in Names : InterpretEventLog(i, o)
    \/ Shutdown

Spec == Init /\ [][Next]_vars

-----------------------------------------------------------------------------
\* cFE's event types (CFE_EVS_EventType): the names the text should show.
EventTypeName(t) ==
    CASE t = 1 -> "DEBUG" [] t = 2 -> "INFORMATION" [] t = 3 -> "ERROR"
      [] t = 4 -> "CRITICAL" [] OTHER -> "Invalid Event Type"

\* What an all-zero entry of the cFE log holds.
EmptyEntry ==
    [seconds |-> 0, subsecs |-> 0, appName |-> "", eventId |-> 0, eventType |-> 0, eventText |-> ""]

(* After InterpretEventLog from a cFE event log into another file, line i *)
(* of its output describes entry i of the log the input held when the     *)
(* command was called, read at the offsets the code hardcodes: the        *)
(* application name, event id, type name and text, the subseconds, and a  *)
(* day, hour, minute and second count that add up to the entry's seconds. *)
(* Past the log's last entry (the code always writes 20 lines) a line     *)
(* describes an all-zero entry.  A log given as its own output is not     *)
(* covered: the code truncates it before reading it.                       *)
InterpretedLogDescribesEntries ==
    (call.cmd = "InterpretEventLog" /\ ret = "true" /\ call.src.kind = "log" /\ call.in # call.out) =>
        \A i \in 1..20 :
            LET es == call.src.entries
                e == IF i <= Len(es) THEN es[i] ELSE EmptyEntry
                l == fs[call.out].events[i]
            IN /\ l.days * 86400 + l.hours * 3600 + l.minutes * 60 + l.seconds = e.seconds
               /\ l.hours < 24 /\ l.minutes < 60 /\ l.seconds < 60
               /\ l.subsecs = e.subsecs /\ l.appName = e.appName /\ l.eventId = e.eventId
               /\ l.eventType = EventTypeName(e.eventType) /\ l.eventText = e.eventText
=============================================================================
