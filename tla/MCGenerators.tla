---------------------------- MODULE MCGenerators ----------------------------
(***************************************************************************)
(* The two code generators of the repository checked side by side: the   *)
(* scheduler-table script of MCSchTable and gen_app_code.py (GenAppCode). *)
(* They share no state; a behaviour interleaves a run of gen_sch_tbl.py    *)
(* with up to three runs of gen_app_code.py on one output directory.      *)
(*                                                                         *)
(* The command lines cover each documented TBLS key alone and together,   *)
(* "none" alone and with a key, a key the usage text does not list, no    *)
(* TBLS at all, an input file, a file that does not exist and no          *)
(* arguments.                                                              *)
(***************************************************************************)
EXTENDS MCSchTable, TLC

VARIABLES tree, status, runs

\* sample.in: a comment, the application and both table kinds.
MCInputFiles ==
    "sample.in" :> << <<"#", "gen_app_code", "input">>,
                      <<"APPS", "sc">>,
                      <<"TBLS", "iload", "cds">> >>

MCArgvs ==
    { <<"APPS", "sc", "TBLS", "iload">>,
      <<"APPS", "sc", "TBLS", "cds">>,
      <<"APPS", "sc", "TBLS", "none">>,
      <<"APPS", "sc", "TBLS", "none", "iload">>,
      <<"APPS", "sc", "TBLS", "iload-table">>,
      <<"APPS", "sc">>,
      <<"sample.in">>,
      <<"missing.in">>,
      <<>> }

Gen == INSTANCE GenAppCode WITH
           Apps <- {"sc"}, Argvs <- MCArgvs, InputFiles <- MCInputFiles, MaxRuns <- 3

genVars == <<tree, status, runs>>

GenInit == Init /\ Gen!Init

\* gen_sch_tbl.py has exited: it wrote its table or stopped at an error.
SchEnded == pc \in {"done", "error"}

\* One step of either script; the other's state is left alone.  The two
\* share no state, so every state of each is reached whatever the order:
\* the runs of gen_app_code.py are taken once gen_sch_tbl.py has ended.
GenNext ==
    \/ Next /\ UNCHANGED genVars
    \/ SchEnded /\ Gen!Next /\ UNCHANGED vars

\* gen_sch_tbl.py runs to its end; gen_app_code.py is run by hand, if at all.
GenSpec == GenInit /\ [][GenNext]_<<vars, genVars>> /\ WF_vars(Next /\ UNCHANGED genVars)


(* See GenAppCode!IncludesResolve: after a run with documented keys every *)
(* include of the generated tree resolves and defines the table types.    *)
IncludesResolve == Gen!IncludesResolve

(* See GenAppCode!FlightBuildLinks: the flight makefile's objects exist   *)
(* and define every application function they call.                       *)
FlightBuildLinks == Gen!FlightBuildLinks

(* See GenAppCode!RunsComplete: no run stops on an IOError.                *)
RunsComplete == Gen!RunsComplete

(* See GenAppCode!TableBuildResolves: tables.mak names only table sources *)
(* that are in the tree.                                                   *)
TableBuildResolves == Gen!TableBuildResolves
=============================================================================
