------------------------------- MODULE MCQuit -------------------------------
(* One tab, recorded twice: what a quit did to the first recording must    *)
(* not be taken for an answer about the second.                            *)
EXTENDS Quit
CONSTANT t1

MCTabs == {t1}
=============================================================================
