------------------------- MODULE MCServerLifecycle -------------------------
(***************************************************************************)
(* ServerLifecycle for TLC.                                                *)
(***************************************************************************)
EXTENDS ServerLifecycle

CONSTANTS s1, s2, k1, k2, c1, c2

TwoCalls   == {s1, s2}
TwoClosers == {k1, k2}
OneCloser  == {k1}
OneConn    == {c1}
OneCall    == {s1}
=============================================================================
