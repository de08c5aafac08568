-------------------------- MODULE ParameterDialog --------------------------
(***************************************************************************)
(* The parameter dialog of the command GUI (Parameter.py).  It loads a   *)
(* command's parameter definitions (the type option and, for strings,    *)
(* the fixed length) and shows NumInputs input fields.  Send reads the   *)
(* inputs, stripped, up to the first empty one, turns each into          *)
(* "--type=value" or '--string="len:value"', joins them with spaces,      *)
(* splits the whole command line with shlex.split and starts cmdUtil with *)
(* the resulting argument vector.                                          *)
(*                                                                         *)
(* Texts are sequences of one-character strings; a type option such as   *)
(* "--half" is one token that contains no blank and no quote.            *)
(***************************************************************************)
EXTENDS Naturals, Sequences, SequencesExt

CONSTANTS
    Params,      \* dataTypesNew and stringLen from the pickle file
    NumInputs,   \* input fields of the dialog (10 in the code)
    Typeable,    \* Typeable[k]: the texts the operator may type in field k
    MaxPresses   \* bound on presses of Send in one behaviour

ASSUME /\ Params \in Seq([type : {"--byte", "--half", "--word", "--string"},
                          strLen : Seq(STRING)])
       /\ NumInputs \in Nat \ {0}
       /\ Typeable \in [1..NumInputs -> SUBSET Seq(STRING)]
       /\ MaxPresses \in Nat

VARIABLES
    input,     \* input[k]: the text of field k (toPlainText)
    status,    \* the text of status_box
    sent,      \* argument vectors cmdUtil was started with, in order
    presses    \* presses of Send so far

vars == <<input, status, sent, presses>>

Blank == " "
Quote == "\""

-----------------------------------------------------------------------------
\* str.strip() for blanks.
RECURSIVE LStrip(_)
LStrip(s) == IF s # <<>> /\ Head(s) = Blank THEN LStrip(Tail(s)) ELSE s
Strip(s) == Reverse(LStrip(Reverse(LStrip(s))))

\* The first field that is empty after strip; NumInputs + 1 when none is,
\* and then "while input_list[i] != ''" reads past the list.
FirstEmpty(in) ==
    Min({k \in 1..NumInputs : Strip(in[k]) = <<>>} \cup {NumInputs + 1})

\* Faulty form of Token: the string value not quoted.
TokenUnquoted(k, v) ==
    IF Params[k].type = "--string"
    THEN <<"--string", "=">> \o Params[k].strLen \o <<":">> \o v
    ELSE <<Params[k].type, "=">> \o v

\* One element of param_list: dataType + '=' + value, or for a string
\* dataType + '="' + stringLen + ':' + value + '"'.
Token(k, v) ==
    IF Params[k].type = "--string"
    THEN <<"--string", "=", Quote>> \o Params[k].strLen \o <<":">> \o v \o <<Quote>>
    ELSE <<Params[k].type, "=">> \o v

\* ' '.join(param_list)
JoinBlank(ws) ==
    IF ws = <<>> THEN <<>>
    ELSE FoldLeft(LAMBDA acc, w : acc \o <<Blank>> \o w, Head(ws), Tail(ws))

\* shlex.split in POSIX mode for texts without backslashes or single
\* quotes: blanks separate words outside double quotes, a double quote
\* opens or closes a quoted part and is removed, "" makes a word.  An
\* unclosed quote raises ValueError ("No closing quotation").
ShlexStep(acc, c) ==
    IF acc.q
    THEN IF c = Quote THEN [acc EXCEPT !.q = FALSE]
         ELSE [acc EXCEPT !.cur = Append(@, c)]
    ELSE IF c = Blank
         THEN IF acc.started
              THEN [words |-> Append(acc.words, acc.cur), cur |-> <<>>, started |-> FALSE, q |-> FALSE]
              ELSE acc
         ELSE IF c = Quote THEN [acc EXCEPT !.q = TRUE, !.started = TRUE]
         ELSE [acc EXCEPT !.cur = Append(@, c), !.started = TRUE]

ShlexState(s) ==
    FoldLeft(ShlexStep, [words |-> <<>>, cur |-> <<>>, started |-> FALSE, q |-> FALSE], s)

ShlexFails(s) == ShlexState(s).q

ShlexSplit(s) ==
    LET st == ShlexState(s)
    IN IF st.started THEN Append(st.words, st.cur) ELSE st.words

\* Faulty form of ScanFails: the parameter count compared off by one.
ScanFailsAtLast(in) ==
    \/ FirstEmpty(in) = NumInputs + 1
    \/ FirstEmpty(in) - 1 >= Len(Params)

\* Send raises IndexError: every field is filled (input_list[10]), or a
\* field past the last parameter is (dataTypesNew[i]).
ScanFails(in) ==
    \/ FirstEmpty(in) = NumInputs + 1
    \/ FirstEmpty(in) - 1 > Len(Params)

ParamString(in) ==
    Strip(JoinBlank([k \in 1..FirstEmpty(in) - 1 |-> Token(k, Strip(in[k]))]))

Init ==
    /\ input = [k \in 1..NumInputs |-> <<>>]
    /\ status = <<>>
    /\ sent = <<>>
    /\ presses = 0

(* The operator edits an input field.                                     *)
TypeInput(k, v) ==
    /\ input' = [input EXCEPT ![k] = v]
    /\ UNCHANGED <<status, sent, presses>>

(* ProcessSendButton: scan, encode, split, start cmdUtil, set the status. *)
(* An exception anywhere before Popen leaves the dialog as it was.        *)
ProcessSendButton ==
    /\ presses < MaxPresses
    /\ presses' = presses + 1
    /\ IF ScanFails(input) \/ ShlexFails(ParamString(input))
       THEN UNCHANGED <<status, sent>>
       ELSE /\ sent' = Append(sent, ShlexSplit(ParamString(input)))
            /\ status' = <<"Command", Blank, "sent!">>
    /\ UNCHANGED input

Next ==
    \/ \E k \in 1..NumInputs : \E v \in Typeable[k] : TypeInput(k, v)
    \/ ProcessSendButton

Spec == Init /\ [][Next]_vars

-----------------------------------------------------------------------------
\* Spec 4.5: the argument cmdUtil should get for parameter k with value v:
\* the type tag with the value, for a string "len:value".
Intended(k, v) ==
    IF Params[k].type = "--string"
    THEN <<"--string", "=">> \o Params[k].strLen \o <<":">> \o v
    ELSE <<Params[k].type, "=">> \o v

IntendedArgv(in) == [k \in 1..FirstEmpty(in) - 1 |-> Intended(k, Strip(in[k]))]

\* A press the spec says must send: the filled fields before the first
\* empty one are no more than the parameters, and no value has a quote.
SendableInputs(in) ==
    /\ FirstEmpty(in) - 1 <= Len(Params)
    /\ \A k \in 1..NumInputs : \A j \in DOMAIN in[k] : in[k][j] # Quote

(* Every command the dialog starts gets exactly one argument per filled   *)
(* field before the first empty one, the type tag with the stripped value *)
(* and "len:value" for a string, after the command line has gone through *)
(* the join and shlex.split of ProcessSendButton.                         *)
SentArgvCarriesInputs ==
    [][Len(sent') > Len(sent) => Last(sent') = IntendedArgv(input)]_vars

(* Pressing Send with values in definition order, stopped by an empty    *)
(* field or by the last parameter, starts cmdUtil (spec 4.5).            *)
SendablePressSends ==
    [][(presses' = presses + 1 /\ SendableInputs(input)) => Len(sent') = Len(sent) + 1]_vars
=============================================================================
