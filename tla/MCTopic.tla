------------------------------ MODULE MCTopic ------------------------------
(***************************************************************************)
(* Checks the topic algebra of Topic over every combination of a selected *)
(* spacecraft, a publishing spacecraft, a page's stream id and a packet's *)
(* stream id.  The state is the current combination; each step changes   *)
(* one of them, so an invariant is checked for all of them.            *)
(***************************************************************************)
EXTENDS Topic, FiniteSets

CONSTANTS
    MaxSpacecraft,  \* ordinals 1..MaxSpacecraft are discovered sources
    StreamIds       \* stream ids pages are configured for and packets carry

ASSUME MaxSpacecraft \in Nat \ {0} /\ StreamIds \subseteq 0..65535

VARIABLES
    sel,    \* main-window selection: 0 is "All", k is "Spacecraft<k>"
    src,    \* ordinal of the spacecraft that published the packet
    appid,  \* the stream id a telemetry page was launched for
    sid     \* the stream id in the packet's header

vars == <<sel, src, appid, sid>>

Selected == IF sel = 0 THEN AllName ELSE SpacecraftName(sel)
PacketTopic == TopicOf(SpacecraftName(src), sid)

Init ==
    /\ sel = 0
    /\ src = 1
    /\ appid = CHOOSE x \in StreamIds : TRUE
    /\ sid = appid

SelectSpacecraft == \E s \in 0..MaxSpacecraft : sel' = s /\ UNCHANGED <<src, appid, sid>>
PublishFrom == \E p \in 1..MaxSpacecraft : src' = p /\ UNCHANGED <<sel, appid, sid>>
LaunchPage == \E x \in StreamIds : appid' = x /\ UNCHANGED <<sel, src, sid>>
ReceivePacket == \E y \in StreamIds : sid' = y /\ UNCHANGED <<sel, src, appid>>

Next == SelectSpacecraft \/ PublishFrom \/ LaunchPage \/ ReceivePacket

Spec == Init /\ [][Next]_vars

-----------------------------------------------------------------------------
\* Reference reading of a rendered number: the value of its digits.
DigitOf(c) == CHOOSE v \in 0..15 : DigitChar[v + 1] = c
ValueOf(digits, base) == FoldLeft(LAMBDA acc, c : acc * base + DigitOf(c), 0, digits)

(* The subscription GroundSystem.startTlmSystem gives TelemetrySystem      *)
(* receives every packet when "All" is selected, and otherwise exactly    *)
(* the packets of the selected spacecraft: a byte-prefix filter must not  *)
(* let "Spacecraft1" also take the traffic of "Spacecraft10".             *)
MainSubscriptionSelectsOneSource ==
    Matches(TlmSystemSubscription(Selected), PacketTopic)
        <=> (sel = 0 \/ sel = src)

(* A page TelemetrySystem launches for appid receives the packets of that *)
(* stream id from the spacecraft TelemetrySystem was opened for (all of   *)
(* them when it was opened for "All").                                    *)
PageSubscriptionReachesItsPackets ==
    (sid = appid /\ (sel = 0 \/ sel = src))
        => Matches(PageSubscription(TlmSystemSubscription(Selected), appid), PacketTopic)

=============================================================================
