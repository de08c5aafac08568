-------------------------- MODULE TelemetryDecode --------------------------
(***************************************************************************)
(* The field display of a generic telemetry page (GenericTelemetry.py).  *)
(* The page loads a table of field definitions (description, start byte, *)
(* size, struct format, display kind, four enum labels) into MaxItems     *)
(* slots; for each packet its GUI slot processPendingDatagrams increments *)
(* the packet count and calls displayTelemetryItem for slot 0, 1, ... in *)
(* order.  Each call unpacks the field's bytes with the page's byte order *)
(* and sets the value and label widgets.  An exception in one call        *)
(* (struct.error for a slice of the wrong length, IndexError for an enum *)
(* value past the labels) ends the slot: later fields keep what the       *)
(* previous packet put there.                                              *)
(*                                                                         *)
(* A packet is a sequence of byte values; a displayed text is a sequence  *)
(* of tokens as in Topic.                                                  *)
(***************************************************************************)
EXTENDS Naturals, Sequences, SequencesExt, Topic

CONSTANTS
    FieldDefs,    \* the rows of the definition file, in order
    MaxItems,     \* display slots of the page (40 in the code)
    Endian,       \* the --endian argument: "L" or "B"
    Packets,      \* the packets that may arrive: [val, bytes]
    MaxPktCount   \* bound on the packets processed in one behaviour

Formats == {"B", "H", "s"}
Kinds == {"Dec", "Hex", "Enm", "Str"}   \* the display kinds the code handles

ASSUME /\ FieldDefs \in Seq([desc : STRING, start : Nat, size : Nat,
                             fmt : Formats, kind : STRING, enum : Seq(STRING)])
       /\ Len(FieldDefs) <= MaxItems
       /\ Endian \in {"L", "B"}
       /\ MaxPktCount \in Nat
       /\ \A pk \in Packets : pk.bytes \in Seq(0..15)

VARIABLES
    pktCount,    \* SubsystemTelemetry.pktCount
    valueText,   \* valueText[i]: text of the value widget of slot i
    labelText,   \* labelText[i]: text of the label widget of slot i
    last,        \* the packet the slot was last called with (history)
    shownAt      \* shownAt[i]: pktCount when slot i was last displayed (history)

vars == <<pktCount, valueText, labelText, last, shownAt>>

Items == 1..MaxItems
NoText == <<>>
Unused == <<"(unused)">>

-----------------------------------------------------------------------------
\* tlmItemIsValid: the rows of the file, then invalid slots.
IsValid(i) == i <= Len(FieldDefs)

\* Faulty form of PyEndian: the two byte orders swapped.
PyEndianSwapped(e) == IF e = "L" THEN ">" ELSE "<"

\* "if endian == 'L': py_endian = '<' else: py_endian = '>'"
PyEndian(e) == IF e = "L" THEN "<" ELSE ">"

\* struct.calcsize of tlmItemFormat[i]: py_endian + 'B' or 'H', or
\* size + 's' for a string field.
CalcSize(f) == CASE f.fmt = "B" -> 1 [] f.fmt = "H" -> 2 [] f.fmt = "s" -> f.size

\* datagram[start:start+size]: Python clamps the slice to the packet.
Slice(p, f) ==
    IF f.start >= Len(p) THEN <<>>
    ELSE SubSeq(p, f.start + 1, IF f.start + f.size < Len(p) THEN f.start + f.size ELSE Len(p))

\* unpack raises struct.error unless the slice has the format's size.
UnpackFails(p, f) == Len(Slice(p, f)) # CalcSize(f)

\* The unsigned value unpack reads for 'B' and 'H' in the page's byte order.
BytesValue(bs) == FoldLeft(LAMBDA acc, b : acc * 256 + b, 0, bs)
FieldValue(p, f) ==
    IF PyEndian(Endian) = ">" THEN BytesValue(Slice(p, f))
    ELSE BytesValue(Reverse(Slice(p, f)))

\* valueField[tlmItemEnum[i][int(TlmField[0])]] raises IndexError.
EnumFails(p, f) == f.kind = "Enm" /\ FieldValue(p, f) >= Len(f.enum)

\* displayTelemetryItem raises for slot i.
Raises(p, i) ==
    IsValid(i) /\ (UnpackFails(p, FieldDefs[i]) \/ EnumFails(p, FieldDefs[i]))

\* A byte of a string field as a character of the text (bytes of the model
\* are below 16; 0 is the NUL byte).
ByteChar(b) == IF b = 0 THEN "NUL" ELSE DigitChar[b + 1]

\* The text displayTelemetryItem puts in the value widget; a display kind
\* it does not know leaves the widget as it was (given as old).
Display(p, f, old) ==
    CASE f.kind = "Dec" -> Render(FieldValue(p, f), 10)
      [] f.kind = "Hex" -> Hex(FieldValue(p, f))
      [] f.kind = "Enm" -> <<f.enum[FieldValue(p, f) + 1]>>
      [] f.kind = "Str" -> [k \in DOMAIN Slice(p, f) |-> ByteChar(Slice(p, f)[k])]
      [] OTHER -> old

\* The slots processPendingDatagrams calls displayTelemetryItem for.
ShownSlots == Items

\* The slot whose displayTelemetryItem raises first, MaxItems + 1 if none.
FirstRaise(p) == Min({i \in ShownSlots : Raises(p, i)} \cup {MaxItems + 1})

\* Faulty form of Reached: each call guarded by its own try/except.
ReachedSkipping(p, i) == i \in ShownSlots /\ ~Raises(p, i)

\* displayTelemetryItem(datagram, i - 1, ...) runs to its end: the calls
\* are plain statements in sequence, so the first exception ends the slot.
Reached(p, i) == i \in ShownSlots /\ i < FirstRaise(p)

Init ==
    /\ pktCount = 0
    /\ valueText = [i \in Items |-> NoText]
    /\ labelText = [i \in Items |-> NoText]
    /\ last = <<>>
    /\ shownAt = [i \in Items |-> 0]

(* processPendingDatagrams(p): pktCount += 1, then displayTelemetryItem   *)
(* for every slot in order, up to the first one that raises.              *)
ProcessPendingDatagrams(pk) ==
    LET p == pk.bytes
        done(i) == Reached(p, i)
    IN /\ pktCount < MaxPktCount
       /\ pktCount' = pktCount + 1
       /\ valueText' = [i \in Items |->
                          IF done(i) /\ IsValid(i) THEN Display(p, FieldDefs[i], valueText[i])
                          ELSE valueText[i]]
       /\ labelText' = [i \in Items |->
                          IF ~done(i) THEN labelText[i]
                          ELSE IF IsValid(i) THEN <<FieldDefs[i].desc>> ELSE Unused]
       /\ last' = pk
       /\ shownAt' = [i \in Items |-> IF done(i) THEN pktCount + 1 ELSE shownAt[i]]

Next == \E pk \in Packets : ProcessPendingDatagrams(pk)

Spec == Init /\ [][Next]_vars

-----------------------------------------------------------------------------
\* The text a field should show for the value v the flight software sent.
SentText(f, v) ==
    CASE f.kind = "Dec" -> Render(v, 10)
      [] f.kind = "Hex" -> Hex(v)
      [] f.kind = "Enm" -> <<f.enum[v + 1]>>
      [] f.kind = "Str" -> [k \in DOMAIN v |-> ByteChar(v[k])]

(* Each displayed value of the last packet is the value the flight        *)
(* software put in it, rendered as its display kind asks: the page's     *)
(* byte order and the slicing by start and size decode what was encoded. *)
DisplayedValueIsSentValue ==
    pktCount > 0 =>
        \A i \in DOMAIN FieldDefs :
            (i < FirstRaise(last.bytes) /\ FieldDefs[i].kind \in Kinds) =>
                valueText[i] = SentText(FieldDefs[i], last.val[i])

(* A packet that makes one field raise (an enum value past the four      *)
(* labels, GenericTelemetry.py:37, or a slice of the wrong length) leaves *)
(* the page cut in two: the slots before that field show the last packet, *)
(* that field and every later slot an earlier one, and along the page the *)
(* packet shown never gets newer.  So the operator sees one stale tail,   *)
(* never a stale field between fresh ones, and the next whole packet     *)
(* refreshes every slot.                                                   *)
StaleSlotsAreATail ==
    /\ pktCount > 0 =>
          \A i \in Items : (shownAt[i] = pktCount) <=> i < FirstRaise(last.bytes)
    /\ \A i, j \in Items : i < j => shownAt[i] >= shownAt[j]
=============================================================================
