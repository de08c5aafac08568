--------------------------- MODULE MCReqValidation ---------------------------
(***************************************************************************)
(* Model values for ReqValidation, composed in MCCommandPages: an event   *)
(* log of two entries (one at one day, one hour, one minute and one       *)
(* second, one a year later with an event type cFE does not define), a    *)
(* text file of two lines, and names                                       *)
(* with and without the leading "/", so that an output may replace the    *)
(* log or the text file and be read again.  ParseTxtFile searches for one *)
(* event text, with the flag 0 and 1: no property reads its verdict.      *)
(***************************************************************************)
EXTENDS TLC

Started == [seconds |-> 90061, subsecs |-> 32768, appName |-> "SAMPLE_APP",
            eventId |-> 1, eventType |-> 2, eventText |-> "started"]
Failed == [seconds |-> 31626061, subsecs |-> 0, appName |-> "CFE_ES",
           eventId |-> 10, eventType |-> 7, eventText |-> "error"]

RvLogEntries == "lx2/cfe_evs.log" :> <<Started, Failed>>
RvTextFiles == "lx2/run.txt" :> << {"started", "PASS"}, {"FAIL"} >>
RvNames == {"/cfe_evs.log", "cfe_evs.log", "/run.txt", "/out.txt"}
RvSearches == {"started"}
RvFlags == {0, 1}
=============================================================================
