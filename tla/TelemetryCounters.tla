------------------------- MODULE TelemetryCounters -------------------------
(***************************************************************************)
(* The packet counters of the telemetry system window (TelemetrySystem.py). *)
(* The main block reads the page table (one row per telemetry page, with  *)
(* its stream id), pads tlmPageAppid with 0 up to NumSlots slots, and sets *)
(* the count widget of every valid slot to 0.  For each packet the GUI     *)
(* slot processPendingDatagrams increments pktCount and, for every slot    *)
(* whose appid is the packet's stream id, increments tlmPageCount of the   *)
(* slot and writes it to a count widget.                                   *)
(*                                                                         *)
(* tlmPageCount has an entry for the rows of the table only; the count     *)
(* widgets are those the dialog (a generated module outside this           *)
(* repository) defines, given as Widgets.  A count is a number; its str()  *)
(* text is left out.                                                       *)
(***************************************************************************)
EXTENDS Naturals, Sequences, FiniteSets, FiniteSetsExt

CONSTANTS
    PageAppids,  \* tlmPageAppid of the rows of telemetry-pages.txt, in order
    NumSlots,    \* the slots of the window: "for i in range(0, 21)"
    Widgets,     \* the n of the countBrowser_n widgets the dialog has
    StreamIds,   \* the stream ids of the packets the window may receive
    MaxPkts      \* bound on the packets processed in one behaviour

ASSUME /\ PageAppids \in Seq(Nat) /\ Len(PageAppids) <= NumSlots
       /\ Widgets \subseteq Nat /\ StreamIds \subseteq Nat /\ MaxPkts \in Nat

VARIABLES
    pktCount,      \* TelemetrySystem.pktCount
    tlmPageCount,  \* tlmPageCount[i] for the rows i of the table
    countText,     \* countText[w]: the count shown by countBrowser_w
    rcvd           \* rcvd[s]: packets of stream id s processed (history)

vars == <<pktCount, tlmPageCount, countText, rcvd>>

Slots == 0..(NumSlots - 1)
Rows == 0..(Len(PageAppids) - 1)
NoText == "none"

-----------------------------------------------------------------------------
\* tlmPageAppid after "for j in range(i, 21): tlmPageAppid.append(0)".
AppidAt(i) == IF i \in Rows THEN PageAppids[i + 1] ELSE 0

\* The countBrowser the "if i == 0 ... elif i == 20" chain writes for slot
\* i: slots 15 to 20 write countBrowser_16 to countBrowser_21.
CountWidget(i) == IF i <= 14 THEN i ELSE i + 1

\* Faulty form of Matching: the loop left at the first matching slot.
MatchingFirst(s) ==
    LET m == {i \in Slots : AppidAt(i) = s} IN IF m = {} THEN {} ELSE {Min(m)}

\* The slots of "for i in range(0, 21): if streamId == tlmPageAppid[i]".
Matching(s) == {i \in Slots : AppidAt(i) = s}

Init ==
    /\ pktCount = 0
    /\ tlmPageCount = [i \in Rows |-> 0]
    /\ countText = [w \in Widgets |-> IF w \in Rows THEN 0 ELSE NoText]
    /\ rcvd = [s \in StreamIds |-> 0]

(* processPendingDatagrams(datagram) with stream id s: pktCount += 1, then *)
(* the slot loop.  A matching slot past the rows raises IndexError at      *)
(* tlmPageCount[i] before the increment; a slot whose widget the dialog    *)
(* lacks raises AttributeError after it.  Either ends the slot.            *)
ProcessPendingDatagrams(s) ==
    LET match == Matching(s)
        raiseAt == {i \in match : i \notin Rows \/ CountWidget(i) \notin Widgets}
        k == Min(raiseAt \cup {NumSlots})
        counted == {i \in match : i < k \/ (i = k /\ i \in Rows)}
        written == {i \in match : i < k}
    IN /\ pktCount < MaxPkts
       /\ pktCount' = pktCount + 1
       /\ tlmPageCount' = [i \in Rows |->
                             IF i \in counted THEN tlmPageCount[i] + 1 ELSE tlmPageCount[i]]
       /\ countText' = [w \in Widgets |->
                          IF \E i \in written : CountWidget(i) = w
                          THEN tlmPageCount'[CHOOSE i \in written : CountWidget(i) = w]
                          ELSE countText[w]]
       /\ rcvd' = [rcvd EXCEPT ![s] = @ + 1]

Next == \E s \in StreamIds : ProcessPendingDatagrams(s)

Spec == Init /\ [][Next]_vars

-----------------------------------------------------------------------------
\* The packets of stream id s processed; none of an id never sent.
Received(s) == IF s \in StreamIds THEN rcvd[s] ELSE 0

(* Every page's counter is the number of packets of its stream id the     *)
(* window has processed: the slot loop visits every slot, also a second   *)
(* page on the same stream id, and a packet of another id (stream id 0    *)
(* included, which matches the padding slots) leaves it alone.            *)
PageCountIsReceivedCount ==
    \A i \in Rows : tlmPageCount[i] = Received(PageAppids[i + 1])

=============================================================================
