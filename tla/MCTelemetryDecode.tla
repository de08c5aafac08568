------------------------- MODULE MCTelemetryDecode -------------------------
(***************************************************************************)
(* A four-field page (a byte counter, an enum mode, a 16-bit word shown  *)
(* in hex, a two-byte string) and one unused slot, fed with packets the  *)
(* flight software encodes in its byte order, and two faulty packets.     *)
(***************************************************************************)
EXTENDS TelemetryDecode

CONSTANT FlightEndian  \* byte order the flight software packs fields in

MCFieldDefs ==
    << [desc |-> "Count", start |-> 0, size |-> 1, fmt |-> "B", kind |-> "Dec", enum |-> <<>>],
       [desc |-> "Mode", start |-> 1, size |-> 1, fmt |-> "B", kind |-> "Enm",
        enum |-> <<"OFF", "ON", "SAFE", "ERR">>],
       [desc |-> "Cmds", start |-> 2, size |-> 2, fmt |-> "H", kind |-> "Hex", enum |-> <<>>],
       [desc |-> "Name", start |-> 4, size |-> 2, fmt |-> "s", kind |-> "Str", enum |-> <<>>] >>

\* struct.pack of an unsigned n-byte value in the flight byte order.
Pack(v, n) ==
    LET le == [k \in 1..n |-> (v \div (256 ^ (k - 1))) % 256]
    IN IF FlightEndian = "L" THEN le ELSE Reverse(le)

PacketOf(count, mode, cmds, name) ==
    [val |-> <<count, mode, cmds, name>>,
     bytes |-> Pack(count, 1) \o Pack(mode, 1) \o Pack(cmds, 2) \o name]

\* Whole packets: counters across a digit boundary, every mode, two words.
WholePackets ==
    {PacketOf(c, m, w, <<10, 0>>) : c \in {0, 9, 10}, m \in 0..3, w \in {258, 768}}

\* Packets that make one field raise: a mode of 4 past the four labels,
\* and a packet cut one byte short inside the string field.
FaultyPackets ==
    {PacketOf(9, 4, 258, <<10, 0>>),
     [val |-> <<9, 1, 258, <<10>>>>, bytes |-> Pack(9, 1) \o Pack(1, 1) \o Pack(258, 2) \o <<10>>]}

MCPackets == WholePackets \cup FaultyPackets

=============================================================================
