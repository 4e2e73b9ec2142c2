---------------------------- MODULE MCTabDiscard ----------------------------
(* The periodic sweep and one that memory pressure started, a tool, and    *)
(* two views.                                                              *)
EXTENDS TabDiscard
CONSTANTS s1, s2, t1

MCSweepers == {s1, s2}
MCTools == {t1}
=============================================================================
