----------------------------- MODULE MCCfsPlugin -----------------------------
(***************************************************************************)
(* A CTF configuration with two cFS sections (a local and an ssh target), *)
(* a cFS section with no cfs_protocol and a section of another plugin; a  *)
(* test script that calls the plugin with "", or with either target name. *)
(***************************************************************************)
EXTENDS CfsPlugin

MCSections ==
    << [name |-> "cfs_a", cfs |-> TRUE, protocol |-> "local"],
       [name |-> "gui", cfs |-> FALSE, protocol |-> ""],
       [name |-> "cfs_b", cfs |-> TRUE, protocol |-> "ssh"],
       [name |-> "cfs_c", cfs |-> TRUE, protocol |-> ""] >>

MCCallNames == {"", "cfs_a", "cfs_b"}
=============================================================================
