---------------------------- MODULE MCSessionLink ----------------------------
(***************************************************************************)
(* Instances of SessionLink for TLC.                                       *)
(***************************************************************************)
EXTENDS SessionLink

\* A bound of the instance with two streams: the server sends data on the first
\* only, where they may come late and meet the second.
SecondGetsNoData == << "server", 2 >> \notin writing
=============================================================================
