----------------------------- MODULE MCSchTable -----------------------------
(***************************************************************************)
(* sch.in files for SchTable: four minor frames of two message slots, and *)
(* up to three application rows out of a handful that cover every rate    *)
(* that divides the frame count, one that does not, an offset start, a    *)
(* message type the script ignores and a rate of 0.                       *)
(***************************************************************************)
EXTENDS SchTable

R(id, prio, rate, mf, type) == [id |-> id, prio |-> prio, rate |-> rate, initMf |-> mf, type |-> type]

MCRows ==
    { R("SCH", 1, 4, 0, "WU"),   \* every frame
      R("DS",  2, 2, 1, "HK"),   \* frames 1 and 3
      R("GNC", 3, 2, 0, "WU"),   \* frames 0 and 2
      R("TO",  4, 1, 3, "HK"),   \* frame 3
      R("LC",  5, 3, 0, "WU"),   \* 3 Hz in 4 frames
      R("XX",  6, 1, 0, "NO"),   \* neither WU nor HK
      R("ZR",  7, 0, 0, "WU") }  \* rate 0

\* A row whose rate exceeds the minor frames.
MCFastRow == R("HS", 8, 5, 0, "HK")

\* Every sch.in with up to three distinct rows, in every order.
ListsOf(rows) ==
    UNION {{s \in [1..n -> rows] : \A i, j \in 1..n : i # j => s[i] # s[j]} : n \in 0..3}

MCAppLists == ListsOf(MCRows)
MCAppListsFast == ListsOf({R("SCH", 1, 4, 0, "WU"), R("DS", 2, 2, 1, "HK"), MCFastRow})
=============================================================================
