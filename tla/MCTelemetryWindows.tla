------------------------- MODULE MCTelemetryWindows -------------------------
(***************************************************************************)
(* The two GUI slots a telemetry packet reaches: processPendingDatagrams   *)
(* of a generic telemetry page (TelemetryDecode, with the page of          *)
(* MCTelemetryDecode) and processPendingDatagrams of the telemetry system  *)
(* window (TelemetryCounters).  They run in different processes and share  *)
(* no state; each step is a step of one of them.                           *)
(*                                                                         *)
(* Beside them, MCTopic's combinations of a selected spacecraft, a        *)
(* publishing spacecraft, a page's stream id and a packet's stream id     *)
(* check the topic names both windows are reached by.  The three share    *)
(* no state, and each invariant reads one of them, so the combinations    *)
(* are stepped through while the windows have processed nothing and the  *)
(* windows run once the combination is back at its start.                 *)
(*                                                                         *)
(* The window's page table has sixteen rows, so that slot 15 is a page and *)
(* slots 16 to 20 are padding; rows 0 and 15 show the same stream id.  The *)
(* dialog has the count widgets the main block uses, countBrowser_0 to 20. *)
(***************************************************************************)
EXTENDS MCTelemetryDecode

VARIABLES sysPktCount, tlmPageCount, countText, rcvd
VARIABLES sel, src, appid, sid

sysVars == <<sysPktCount, tlmPageCount, countText, rcvd>>

WinPageAppids == [k \in 1..16 |-> IF k = 16 THEN 2049 ELSE 2048 + k]

\* Row 0's and row 15's stream id, row 1's, and stream id 0.
WinStreamIds == {2049, 2050, 0}

Sys == INSTANCE TelemetryCounters
           WITH pktCount <- sysPktCount, PageAppids <- WinPageAppids,
                NumSlots <- 21, Widgets <- 0..20, StreamIds <- WinStreamIds,
                MaxPkts <- 3

algVars == <<sel, src, appid, sid>>

Alg == INSTANCE MCTopic
           WITH MaxSpacecraft <- 11, StreamIds <- {0, 8, 128, 2048, 2182, 2183, 6147}

\* Neither window has processed a packet.
WindowsAtStart == pktCount = 0 /\ sysPktCount = 0

WinInit == Init /\ Sys!Init /\ Alg!Init

WinNext ==
    \/ Alg!Init /\ Next /\ UNCHANGED <<sysVars, algVars>>
    \/ Alg!Init /\ Sys!Next /\ UNCHANGED <<vars, algVars>>
    \/ WindowsAtStart /\ Alg!Next /\ UNCHANGED <<vars, sysVars>>

WinSpec == WinInit /\ [][WinNext]_<<vars, sysVars, algVars>>

(* Every page counter of the telemetry system window is the number of     *)
(* packets of its stream id processed (TelemetrySystem.py, the slot loop   *)
(* of processPendingDatagrams).                                            *)
PageCountIsReceivedCount == Sys!PageCountIsReceivedCount


(* See MCTopic!MainSubscriptionSelectsOneSource: the telemetry system     *)
(* window's subscription takes exactly the selected spacecraft's packets. *)
MainSubscriptionSelectsOneSource == Alg!MainSubscriptionSelectsOneSource

=============================================================================
