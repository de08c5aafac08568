------------------------------- MODULE Topic -------------------------------
(***************************************************************************)
(* The topic strings of the ground system's ZeroMQ bus, the subscription  *)
(* strings its telemetry pages install, and the prefix test a SUB socket  *)
(* applies to them.                                                        *)
(*                                                                         *)
(* A string is a sequence of tokens.  Words the code only ever uses whole *)
(* ("GroundSystem", ".", "Spacecraft", "TelemetryPackets", "0x", "All")    *)
(* are one token each; a rendered number is one token per digit.  Every   *)
(* subscription the code builds ends on a token boundary, so a byte       *)
(* prefix of a topic is exactly a sequence prefix here, and a Python      *)
(* substring test "x in s" is membership in SubSeqs(s).                   *)
(***************************************************************************)
EXTENDS Naturals, Sequences, SequencesExt

DigitChar == <<"0", "1", "2", "3", "4", "5", "6", "7",
               "8", "9", "a", "b", "c", "d", "e", "f">>

\* Faulty form of TlmSystemSubscription: the ".TelemetryPackets" suffix left out.
TlmSystemSubscriptionNoSuffix(selected) ==
    IF selected = <<"All">> THEN <<"GroundSystem">>
    ELSE <<"GroundSystem", ".">> \o selected

\* The digits of n in the given base, most significant first, no leading
\* zero (the digit loop behind Python's str() and hex()).
RECURSIVE DigitValues(_, _)
DigitValues(n, base) ==
    IF n < base THEN <<n>>
    ELSE Append(DigitValues(n \div base, base), n % base)

Render(n, base) ==
    LET d == DigitValues(n, base) IN [i \in DOMAIN d |-> DigitChar[d[i] + 1]]

\* hex(streamId): "0x" followed by lowercase digits, e.g. hex(0x886) = "0x886".
Hex(n) == <<"0x">> \o Render(n, 16)

\* "Spacecraft" + str(len(self.spacecraftNames)) in RoutingService.run.
SpacecraftName(k) == <<"Spacecraft">> \o Render(k, 10)

\* The synthetic first entry of both discovery lists.
AllName == <<"All">>

\* RoutingService.getPktId: the first big-endian 16-bit word of the header,
\* rendered with hex() and not masked.
PktId(streamId) == Hex(streamId)

\* RoutingService.forwardMessage:
\* "GroundSystem." + hostName + ".TelemetryPackets." + pktId
TopicOf(hostName, streamId) ==
    <<"GroundSystem", ".">> \o hostName \o <<".", "TelemetryPackets", ".">>
        \o PktId(streamId)

\* A SUB socket with setsockopt(zmq.SUBSCRIBE, sub) accepts exactly the
\* messages whose first frame starts with sub.
Matches(sub, topic) == IsPrefix(sub, topic)

\* GroundSystem.startTlmSystem: the subscription handed to TelemetrySystem
\* for the spacecraft selected in the main window.
TlmSystemSubscription(selected) ==
    IF selected = AllName THEN <<"GroundSystem">>
    ELSE <<"GroundSystem", ".">> \o selected \o <<".", "TelemetryPackets">>

\* Faulty form of PageSubscription: the separating dot left out.
PageSubscriptionNoDot(parentSub, appid) == parentSub \o Hex(appid)

\* TelemetrySystem.ProcessButtonGeneric: the --sub of a launched page,
\* self.subscription + '.' + hex(tlmPageAppid[idx]).
PageSubscription(parentSub, appid) == parentSub \o <<".">> \o Hex(appid)

\* EventMessage main: an empty --sub, or one with fewer than three
\* '.'-separated parts, is replaced by "GroundSystem".
EventSubscription(sub) ==
    IF \/ sub = <<>>
       \/ Len(SelectSeq(sub, LAMBDA t : t = ".")) + 1 < 3
    THEN <<"GroundSystem">>
    ELSE sub

\* EventMessage TlmReceiver.run: "if self.appId not in address: continue".
EventFilterPasses(appIdStr, topic) == appIdStr \in SubSeqs(topic)
=============================================================================
