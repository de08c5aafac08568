-------------------------- MODULE MCRoutingService --------------------------
(***************************************************************************)
(* Model values for RoutingService.  Addresses are short strings of digit *)
(* tokens: what matters to the code is whether one is a substring of      *)
(* another, which the two address sets below decide.                      *)
(***************************************************************************)
EXTENDS RoutingService

\* Two sources, neither address a substring of the other
\* (like 10.0.0.1 and 10.0.0.2).
MCAddrsDistinct == {<<"1">>, <<"2">>}

\* Two sources whose addresses nest (like 10.0.0.12 and 10.0.0.1).
MCAddrsNested == {<<"1", "2">>, <<"1">>}

\* A stream id and header lengths just below and at the header size.
MCStreamIds == {2048}
MCLengths == {5, 6}

=============================================================================
