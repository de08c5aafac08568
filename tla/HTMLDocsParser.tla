---------------------------- MODULE HTMLDocsParser ----------------------------
(***************************************************************************)
(* HTMLDocsParser.py: for every Doxygen page of a cFE command structure   *)
(* it reads the page's text nodes, walks them from "Data Fields" to        *)
(* "Detailed Description" one field at a time (type, name, an optional    *)
(* "[size]", description texts), resolves the size of each string field   *)
(* through the #defines of the cFE headers, asks the user for a size that *)
(* resolves to 0, and pickles six parallel lists under the page's name.   *)
(*                                                                         *)
(* Texts and header lines are TLA+ strings; `x in s' of the code is       *)
(* StrIn.  A pickled list is a sequence.  An entry of stringLen is a       *)
(* record saying which Python type it has: the user's answer to input()   *)
(* is an int, every other entry a str.                                     *)
(***************************************************************************)
EXTENDS Integers, Sequences, SequencesExt, FiniteSets

CONSTANTS
    Pages,       \* the struct pages the glob finds, in its order: name, texts, fields
    Headers,     \* the header files the three globs find, each a sequence of lines
    UserValues   \* the numbers the user may type at the input() prompt

VARIABLES
    pc,       \* "file", "field", "strlen", "ask", "write", "done" or "raised"
    f,        \* the page being read
    i, j,     \* the code's i and j: indices into the page's texts, from 0
    lists,    \* the six lists of the page being read
    keyword,  \* the keyword of the size search
    pickles   \* page name -> the lists written to ParameterFiles/<name>

vars == <<pc, f, i, j, lists, keyword, pickles>>

-----------------------------------------------------------------------------
\* Python's `sub in s' on strings.
StrIn(sub, s) == \E k \in 0..Len(s) - Len(sub) : SubSeq(s, k + 1, k + Len(sub)) = sub

Char(s, k) == SubSeq(s, k, k)

Digits == {"0", "1", "2", "3", "4", "5", "6", "7", "8", "9"}

\* str.split(): the words between runs of blanks, each from a non-blank
\* after a blank (or the start) up to the next blank (or the end).
Words(s) ==
    LET blank(k) == k > Len(s) \/ Char(s, k) = " "
        starts == {k \in 1..Len(s) : ~blank(k) /\ (k = 1 \/ blank(k - 1))}
        end(k) == CHOOSE e \in k..Len(s) + 1 : blank(e) /\ \A m \in k..e - 1 : ~blank(m)
    IN [w \in 1..Cardinality(starts) |->
          LET st == CHOOSE k \in starts : Cardinality({m \in starts : m < k}) = w - 1
          IN SubSeq(s, st, end(st) - 1)]

\* parser.allData after parser.feed: the page's text nodes, stripped, with
\* the blank ones left out.
Data == Pages[f].texts

\* data[k], and whether it exists.
D(k) == Data[k + 1]
Has(k) == k < Len(Data)

\* data.index(x): the first position of x, or -1 for the ValueError.
Index(x) == SelectInSeq(Data, LAMBDA t : t = x) - 1

-----------------------------------------------------------------------------
\* findDataTypeNew.
FindDataTypeNew(dataTypeOrig, paramLen) ==
    CASE paramLen # ""                            -> "--string"
      [] dataTypeOrig \in {"uint8", "boolean"}    -> "--byte"
      [] dataTypeOrig = "uint16"                  -> "--half"
      [] dataTypeOrig = "uint32"                  -> "--word"
      [] dataTypeOrig = "uint64"                  -> "--double"
      [] OTHER                                    -> ""

\* The lines of the header files, in glob order.
HdrLines == FlattenSeq(Headers)

\* A mutant: the search takes split()[1], the macro's own name.
FindStringLenName(kw) ==
    LET k == SelectInSeq(HdrLines, LAMBDA l : StrIn("#define " \o kw, l))
        w == IF k = 0 THEN <<>> ELSE Words(HdrLines[k])
    IN CASE k = 0       -> [ok |-> TRUE, val |-> ""]
         [] Len(w) < 3 -> [ok |-> FALSE, val |-> ""]
         [] OTHER       -> [ok |-> TRUE, val |-> w[2]]

\* findStringLen: the third word of the first line holding
\* '#define '+keyword; split()[2] raises IndexError on a shorter line.
FindStringLen(kw) ==
    LET k == SelectInSeq(HdrLines, LAMBDA l : StrIn("#define " \o kw, l))
        w == IF k = 0 THEN <<>> ELSE Words(HdrLines[k])
    IN CASE k = 0       -> [ok |-> TRUE, val |-> ""]
         [] Len(w) < 3 -> [ok |-> FALSE, val |-> ""]
         [] OTHER       -> [ok |-> TRUE, val |-> w[3]]

\* re.sub('\[|\]|\(|\)', '', s): the characters of s from the k-th on that
\* are not brackets.
RECURSIVE StripFrom(_, _)
StripFrom(s, k) ==
    IF k > Len(s) THEN ""
    ELSE (IF Char(s, k) \in {"[", "]", "(", ")"} THEN "" ELSE Char(s, k)) \o StripFrom(s, k + 1)

StripBrackets(s) == StripFrom(s, 1)

\* str.isdigit().
IsDigitStr(s) == s # "" /\ \A k \in 1..Len(s) : Char(s, k) \in Digits

IsType(t) == StrIn("uint", t) \/ StrIn("char", t)

\* while 'uint' not in data[i] and 'char' not in data[i] and i < j: i += 1.
\* data[i] is read before i < j: past the texts it is -1, the IndexError.
\* A mutant: the skip stops at 'uint' only.
RECURSIVE SkipTextUint(_, _)
SkipTextUint(k, jj) ==
    IF ~Has(k) THEN -1
    ELSE IF ~StrIn("uint", D(k)) /\ k < jj THEN SkipTextUint(k + 1, jj) ELSE k

RECURSIVE SkipText(_, _)
SkipText(k, jj) ==
    IF ~Has(k) THEN -1
    ELSE IF ~IsType(D(k)) /\ k < jj THEN SkipText(k + 1, jj) ELSE k

\* desc_string built with ' ' + text, then lstrip(): the texts joined by
\* single blanks.
Joined(ts) ==
    IF ts = <<>> THEN ""
    ELSE FlattenSeq([m \in 1..2 * Len(ts) - 1 |-> IF m % 2 = 1 THEN ts[(m + 1) \div 2] ELSE " "])

NoLists == [typesOrig |-> <<>>, names |-> <<>>, lens |-> <<>>, descs |-> <<>>,
            typesNew |-> <<>>, stringLen |-> <<>>]

Str(s) == [py |-> "str", s |-> s]

AppendStringLen(e) == lists' = [lists EXCEPT !.stringLen = Append(@, e)]

-----------------------------------------------------------------------------
Init ==
    /\ pc = IF Pages = <<>> THEN "done" ELSE "file"
    /\ f = 1
    /\ i = 0 /\ j = 0
    /\ lists = NoLists
    /\ keyword = ""
    /\ pickles = <<>>

(* One page of the for loop up to the try: the page is fed, the lists are *)
(* emptied, and i and j are found; a missing section is the ValueError    *)
(* the except prints, and the empty lists are written.                    *)
StartFile ==
    /\ pc = "file"
    /\ lists' = NoLists
    /\ IF Index("Data Fields") < 0 \/ Index("Detailed Description") < 0
       THEN pc' = "write" /\ UNCHANGED <<i, j>>
       ELSE /\ i' = Index("Data Fields") + 1
            /\ j' = Index("Detailed Description")
            /\ pc' = "field"
    /\ UNCHANGED <<f, keyword, pickles>>

(* One turn of `while i < j': a header field is skipped to the next type; *)
(* another field has its type, name, "[size]" and description appended,  *)
(* and its new type; a string field goes on to the size search, any other *)
(* gets the size ''.  An IndexError ends the script.                      *)
FieldStep ==
    /\ pc = "field"
    /\ IF i >= j THEN pc' = "write" /\ UNCHANGED <<i, lists, keyword>>
       ELSE IF StrIn("Header", D(i + 1)) \/ StrIn("Hdr", D(i + 1))
       THEN LET e == SkipText(i + 1, j)
            IN IF e < 0 THEN pc' = "raised" /\ UNCHANGED <<i, lists, keyword>>
               ELSE i' = e /\ UNCHANGED <<pc, lists, keyword>>
       ELSE IF ~Has(i + 2) THEN pc' = "raised" /\ UNCHANGED <<i, lists, keyword>>
       ELSE LET hasLen == StrIn("[", D(i + 2))
                len == IF hasLen THEN D(i + 2) ELSE ""
                k == IF hasLen THEN i + 3 ELSE i + 2
                e == SkipText(k, j)
                new == FindDataTypeNew(D(i), len)
                l2 == [lists EXCEPT !.typesOrig = Append(@, D(i)),
                                    !.names = Append(@, D(i + 1)),
                                    !.lens = Append(@, len),
                                    !.descs = Append(@, Joined(SubSeq(Data, k + 1, e))),
                                    !.typesNew = Append(@, new)]
            IN IF e < 0 THEN pc' = "raised" /\ UNCHANGED <<i, lists, keyword>>
               ELSE /\ i' = e
                    /\ IF new = "--string"
                       THEN /\ lists' = l2
                            /\ keyword' = StripBrackets(len)
                            /\ pc' = "strlen"
                       ELSE /\ lists' = [l2 EXCEPT !.stringLen = Append(@, Str(""))]
                            /\ UNCHANGED <<pc, keyword>>
    /\ UNCHANGED <<f, j, pickles>>

(* One turn of `while keyword.isdigit() == False', or its end: a digit    *)
(* string other than '0' is the size; '0' goes to the user.               *)
StrLenStep ==
    /\ pc = "strlen"
    /\ IF IsDigitStr(keyword)
       THEN /\ IF keyword = "0" THEN pc' = "ask" /\ UNCHANGED lists
               ELSE AppendStringLen(Str(keyword)) /\ pc' = "field"
            /\ UNCHANGED keyword
       ELSE \E r \in {FindStringLen(keyword)} :
               /\ UNCHANGED lists
               /\ IF r.ok THEN keyword' = StripBrackets(r.val) /\ UNCHANGED pc
                  ELSE pc' = "raised" /\ UNCHANGED keyword
    /\ UNCHANGED <<f, i, j, pickles>>

(* keyword = input(...): Python 2 evaluates what the user types, so the   *)
(* size appended is an int.                                                *)
Ask(u) ==
    /\ pc = "ask"
    /\ AppendStringLen([py |-> "int", n |-> u])
    /\ pc' = "field"
    /\ UNCHANGED <<f, i, j, keyword, pickles>>

(* After the loop, or the ValueError: the six lists are pickled to        *)
(* ParameterFiles/<page name>, and the next page follows.                  *)
WriteFile ==
    /\ pc = "write"
    /\ pickles' = (Pages[f].name :> lists) @@ pickles
    /\ f' = f + 1
    /\ pc' = IF f < Len(Pages) THEN "file" ELSE "done"
    /\ UNCHANGED <<i, j, lists, keyword>>

\* The steps the script takes by itself, without the user.
ParseStep == StartFile \/ FieldStep \/ StrLenStep \/ WriteFile

Next == ParseStep \/ \E u \in UserValues : Ask(u)

Spec == Init /\ [][Next]_vars /\ WF_vars(ParseStep)

-----------------------------------------------------------------------------
\* The fields of a page that are not its command header.
ParamFields(p) == SelectSeq(p.fields, LAMBDA fl : ~fl.header)

\* The value a header gives a macro: the last word of the line defining
\* exactly that name, followed through other macros to a number.
RECURSIVE MacroValue(_, _)
MacroValue(x, depth) ==
    LET defs == {l \in ToSet(HdrLines) :
                    LET w == Words(l) IN Len(w) = 3 /\ w[1] = "#define" /\ w[2] = x}
    IN IF IsDigitStr(x) \/ depth = 0 \/ defs = {} THEN x
       ELSE MacroValue(Words(CHOOSE l \in defs : TRUE)[3], depth - 1)

\* The size Parameter.py should get for a field: '' for a scalar, the
\* number its size macro stands for, or the user's answer for a size 0.
SizeOfField(e, fl) ==
    IF fl.size = "" THEN e = Str("")
    ELSE LET v == MacroValue(fl.size, Len(HdrLines))
         IN IF v = "0" THEN e.py = "int" /\ e.n \in UserValues ELSE e = Str(v)

(* Every parameter file written for a page lists that page's structure:   *)
(* the six lists have one entry per field that is not the command header, *)
(* in the structure's order, with its type and name, and each string      *)
(* field's size resolved through the headers' #defines as the compiler    *)
(* would (HTMLDocsParser.py main: the header skip, the description loop   *)
(* that must stop at the next type, and findStringLen).                   *)
PickledFieldsAreStructFields ==
    \A k \in DOMAIN Pages : Pages[k].name \in DOMAIN pickles =>
        LET ps == pickles[Pages[k].name]
            fs == ParamFields(Pages[k])
        IN /\ \A key \in DOMAIN ps : Len(ps[key]) = Len(fs)
           /\ \A m \in DOMAIN fs : /\ ps.names[m] = fs[m].name
                                   /\ ps.typesOrig[m] = fs[m].type
                                   /\ SizeOfField(ps.stringLen[m], fs[m])

(* Once the script is inside a page's field loop it gets out of it: the   *)
(* page is written, the user is asked for a size, or the script raises;   *)
(* the size search (`while keyword.isdigit() == False') does not go on    *)
(* forever.                                                                *)
ParseEnds == pc \in {"field", "strlen"} ~> pc \in {"write", "ask", "raised"}
====
