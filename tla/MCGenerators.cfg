\* gen_sch_tbl.py on MCSchTable's sch.in files beside up to three runs of
\* gen_app_code.py.  Both scripts exit when done: a state with no step is
\* the end of the programs.
CONSTANTS
    NumMinorFrames = 4
    NumMsgsPerMinorFrame = 2
    AppLists <- MCAppLists
SPECIFICATION GenSpec
CHECK_DEADLOCK FALSE
INVARIANT AppScheduledAtItsRate
INVARIANT ActivitiesInPriorityOrder
INVARIANT RunsComplete
INVARIANT IncludesResolve
INVARIANT FlightBuildLinks
PROPERTY Terminates
