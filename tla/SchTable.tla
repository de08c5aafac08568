------------------------------ MODULE SchTable ------------------------------
(***************************************************************************)
(* gen_sch_tbl.py: the scheduler-table generator.  It loads sch.in (the   *)
(* number of minor frames, the messages per minor frame, then one row per *)
(* application: id, priority, rate, initial minor frame, message type),   *)
(* fills a table of NumMinorFrames * NumMsgsPerMinorFrame slots and writes *)
(* it frame by frame to the .c file.                                       *)
(*                                                                         *)
(* The script runs its functions in sequence; each loop iteration of       *)
(* GenerateSchTable is one step, so that a loop that never ends is a       *)
(* behaviour that never reaches the end.  An application row is a record; *)
(* a table entry is the application and message it sends, or Unused.       *)
(***************************************************************************)
EXTENDS Naturals, Sequences, FiniteSets, FiniteSetsExt

CONSTANTS
    NumMinorFrames,        \* SCH_MAX_MINOR_FRAMES of sch.in
    NumMsgsPerMinorFrame,  \* MSGS_PER_MINOR_FRAMES of sch.in
    AppLists               \* the application rows sch.in may hold

Row == [id : STRING, prio : 1..255, rate : Nat, initMf : Nat, type : STRING]

ASSUME /\ NumMinorFrames \in Nat \ {0}
       /\ NumMsgsPerMinorFrame \in Nat \ {0}
       /\ AppLists \subseteq Seq(Row)

VARIABLES
    apps,    \* gSchConfig[3:]: the application rows, in file order
    tbl,     \* gSchTbl: slot index -> entry
    appIdx,  \* the application row GenerateSchTable is at
    mfIdx,   \* its current minor frame
    mfIncr,  \* its minor-frame increment
    pc,      \* the point the script has reached
    out      \* the table as SaveSchTbl wrote it: frame -> slot -> entry

vars == <<apps, tbl, appIdx, mfIdx, mfIncr, pc, out>>

F == NumMinorFrames
M == NumMsgsPerMinorFrame
Slots == 0..(F * M - 1)
Frames == 0..(F - 1)
MsgTypes == {"WU", "HK"}

\* "{ SCH_UNUSED, 0, 0, 0, 0, SCH_GROUP_NONE }"
Unused == [app |-> "", msg |-> "UNUSED"]

\* The activity message entry: <id>_WAKEUP_MIDX or <id>_SEND_HK_MIDX.
Entry(a) == [app |-> a.id, msg |-> IF a.type = "WU" THEN "WAKEUP" ELSE "SEND_HK"]

-----------------------------------------------------------------------------
\* "numMinorFrames / rate": Python 2 integer division.
MfIncr(rate) == F \div rate

\* The SCH_UNUSED slots of minor frame mf.
FreeSlots(t, mf) == {j \in 0..(M - 1) : t[mf * M + j] = Unused}

\* Faulty form of Fill: no break, every free slot of the frame taken.
FillNoBreak(t, mf, a) ==
    IF a.type \notin MsgTypes THEN t
    ELSE [i \in Slots |-> IF i \div M = mf /\ t[i] = Unused THEN Entry(a) ELSE t[i]]

\* Faulty form of Fill: the last SCH_UNUSED slot of the frame taken.
FillLast(t, mf, a) ==
    IF FreeSlots(t, mf) = {} \/ a.type \notin MsgTypes THEN t
    ELSE [t EXCEPT ![mf * M + Max(FreeSlots(t, mf))] = Entry(a)]

\* The "for msgIdx" loop: the first SCH_UNUSED slot of the frame gets the
\* app's message when its type is WU or HK; any other type leaves the slot
\* unused; either way the loop breaks.  A full frame is left as it is.
Fill(t, mf, a) ==
    IF FreeSlots(t, mf) = {} \/ a.type \notin MsgTypes THEN t
    ELSE [t EXCEPT ![mf * M + Min(FreeSlots(t, mf))] = Entry(a)]

Init ==
    /\ apps = <<>>
    /\ tbl = [i \in Slots |-> Unused]
    /\ appIdx = 0
    /\ mfIdx = 0
    /\ mfIncr = 0
    /\ pc = "load"
    /\ out = <<>>

(* LoadSchConfigFile: the rows of sch.in.                                 *)
LoadSchConfigFile ==
    /\ pc = "load"
    /\ \E l \in AppLists : apps' = l
    /\ pc' = "generate"
    /\ UNCHANGED <<tbl, appIdx, mfIdx, mfIncr, out>>

(* GenerateSchTable up to its application loop: every slot SCH_UNUSED.    *)
GenerateStart ==
    /\ pc = "generate"
    /\ tbl' = [i \in Slots |-> Unused]
    /\ appIdx' = 1
    /\ pc' = "app"
    /\ UNCHANGED <<apps, mfIdx, mfIncr, out>>

(* The head of "for appIdx": mfIncr and mfIdx of the next application; a  *)
(* rate of 0 raises ZeroDivisionError and the script ends with no output.  *)
(* After the last application the script goes on to SaveSchTbl.           *)
NextApp ==
    /\ pc = "app"
    /\ \/ /\ appIdx > Len(apps)
          /\ pc' = "save"
          /\ UNCHANGED <<mfIdx, mfIncr>>
       \/ /\ appIdx <= Len(apps)
          /\ apps[appIdx].rate = 0
          /\ pc' = "error"
          /\ UNCHANGED <<mfIdx, mfIncr>>
       \/ /\ appIdx <= Len(apps)
          /\ apps[appIdx].rate > 0
          /\ mfIncr' = MfIncr(apps[appIdx].rate)
          /\ mfIdx' = apps[appIdx].initMf
          /\ pc' = "frame"
    /\ UNCHANGED <<apps, tbl, appIdx, out>>

\* Faulty form of FrameStep: the exit goes back to the same row.
FrameStepNoAdvance ==
    /\ pc = "frame"
    /\ \/ /\ mfIdx < F
          /\ tbl' = Fill(tbl, mfIdx, apps[appIdx])
          /\ mfIdx' = mfIdx + mfIncr
          /\ UNCHANGED <<appIdx, pc>>
       \/ /\ mfIdx >= F
          /\ pc' = "app"
          /\ UNCHANGED <<tbl, mfIdx, appIdx>>
    /\ UNCHANGED <<apps, mfIncr, out>>

(* One iteration of "while mfIdx < numMinorFrames", or its exit to the    *)
(* next application.                                                        *)
FrameStep ==
    /\ pc = "frame"
    /\ \/ /\ mfIdx < F
          /\ tbl' = Fill(tbl, mfIdx, apps[appIdx])
          /\ mfIdx' = mfIdx + mfIncr
          /\ UNCHANGED <<appIdx, pc>>
       \/ /\ mfIdx >= F
          /\ appIdx' = appIdx + 1
          /\ pc' = "app"
          /\ UNCHANGED <<tbl, mfIdx>>
    /\ UNCHANGED <<apps, mfIncr, out>>

(* SaveSchTbl: the slots written frame by frame, "Slot #i" then its       *)
(* numMsgsPerMinorFrame entries.                                           *)
SaveSchTbl ==
    /\ pc = "save"
    /\ out' = [i \in Frames |-> [j \in 0..(M - 1) |-> tbl[i * M + j]]]
    /\ pc' = "done"
    /\ UNCHANGED <<apps, tbl, appIdx, mfIdx, mfIncr>>

Next ==
    \/ LoadSchConfigFile
    \/ GenerateStart
    \/ NextApp
    \/ FrameStep
    \/ SaveSchTbl

\* The script runs to its end unless it blocks or loops.
Spec == Init /\ [][Next]_vars /\ WF_vars(Next)

-----------------------------------------------------------------------------
Valid(a) == a.type \in MsgTypes

\* A row the header of gen_sch_tbl.py describes plainly: RATE_Hz messages
\* per major frame, evenly spaced, starting at INITIAL_MF.
Regular(a) ==
    /\ a.rate > 0 /\ a.rate <= F /\ F % a.rate = 0
    /\ a.initMf < F \div a.rate

\* The minor frames such a row asks for.
Intended(a) == {a.initMf + n * (F \div a.rate) : n \in 0..(a.rate - 1)}

\* How many of rows 1..k ask for a message in frame f.
Demand(k, f) == Cardinality({j \in 1..k : Valid(apps[j]) /\ f \in Intended(apps[j])})

\* Rows 1..k are regular and fit in every frame.
Fits(k) ==
    /\ \A j \in 1..k : Valid(apps[j]) => Regular(apps[j])
    /\ \A f \in Frames : Demand(k, f) <= M

\* The frames of the written table that hold row k's message, and how
\* often frame f holds it.
FramesOf(k) == {f \in Frames : \E j \in 0..(M - 1) : out[f][j] = Entry(apps[k])}
TimesIn(k, f) == Cardinality({j \in 0..(M - 1) : out[f][j] = Entry(apps[k])})

(* The table SaveSchTbl writes sends each WU or HK application, whose     *)
(* rows up to it are regular and fit in the frames, in exactly the minor  *)
(* frames its rate and initial frame ask for, once in each: the integer   *)
(* increment, the first-unused-slot search with its break, and the frame  *)
(* by frame layout of the file agree with what sch.in says.               *)
AppScheduledAtItsRate ==
    pc = "done" =>
        \A k \in 1..Len(apps) :
            (Valid(apps[k]) /\ Fits(k)) =>
                /\ FramesOf(k) = Intended(apps[k])
                /\ \A f \in Frames : TimesIn(k, f) <= 1

\* sch.in lists its application rows in priority order, as the comment
\* above the application loop takes for granted.
InPriorityOrder == \A k \in 1..(Len(apps) - 1) : apps[k].prio <= apps[k + 1].prio

\* The priority of the row a table entry comes from.
PrioOf(e) == apps[CHOOSE k \in 1..Len(apps) : Entry(apps[k]) = e].prio

\* The minor frames the while loop visits for row k.
Visited(k) ==
    IF apps[k].rate = 0 \/ MfIncr(apps[k].rate) = 0 THEN {}
    ELSE {f \in Frames : f >= apps[k].initMf /\ (f - apps[k].initMf) % MfIncr(apps[k].rate) = 0}

(* "For each app entry in priority order (so that activity messages are   *)
(* filled in priority order)": for an sch.in in priority order, every     *)
(* minor frame of the written table holds its messages packed at the     *)
(* front in priority order, and a WU or HK row is left out of a frame it  *)
(* visits only when the frame is full of rows of at least its priority.   *)
(* The script never reads PRIO; this rests on the row order, the first-  *)
(* unused-slot search and its break together.                              *)
ActivitiesInPriorityOrder ==
    (pc = "done" /\ InPriorityOrder) =>
        /\ \A f \in Frames, j \in 0..(M - 2) :
              out[f][j + 1] # Unused =>
                  out[f][j] # Unused /\ PrioOf(out[f][j]) <= PrioOf(out[f][j + 1])
        /\ \A k \in 1..Len(apps), f \in Frames :
              (Valid(apps[k]) /\ f \in Visited(k) /\ TimesIn(k, f) = 0) =>
                  \A j \in 0..(M - 1) : out[f][j] # Unused /\ PrioOf(out[f][j]) <= apps[k].prio

(* gen_sch_tbl.py ends: it writes the table, or stops at an error.  The   *)
(* while loop over minor frames must advance for every rate sch.in gives.  *)
Terminates == <>(pc \in {"done", "error"})
=============================================================================
