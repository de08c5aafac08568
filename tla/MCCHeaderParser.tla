---------------------------- MODULE MCCHeaderParser ----------------------------
(***************************************************************************)
(* CHeaderParser.py run on the headers of MCCHeaderFiles.                 *)
(***************************************************************************)
EXTENDS CHeaderParser, MCCHeaderFiles
=============================================================================
