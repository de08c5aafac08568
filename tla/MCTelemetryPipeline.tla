------------------------- MODULE MCTelemetryPipeline -------------------------
(***************************************************************************)
(* Model values for TelemetryPipeline: two sources, two stream ids, and   *)
(* two windows: a generic page for 0x800 launched from a telemetry system *)
(* opened on Spacecraft1, and an event message page for 0x808 launched    *)
(* from a telemetry system opened on "All".  The telemetry system window  *)
(* itself is left out: its subscription is checked in MCTopic, and its    *)
(* receiver is the one of a generic page.                                  *)
(***************************************************************************)
EXTENDS TelemetryPipeline

CONSTANTS page, ev

LaunchOf(c) ==
    CASE c = page -> [kind |-> "page", parent |-> SpacecraftName(1), appid |-> 2048]
      [] c = ev   -> [kind |-> "event", parent |-> AllName, appid |-> 2056]

MCConsumers == {page, ev}
MCLaunch == [c \in MCConsumers |-> LaunchOf(c)]

MCAddrs == {<<"1">>, <<"2">>}
MCStreamIds == {2048, 2056}
MCLengths == {6, 168}
=============================================================================
