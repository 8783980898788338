------------------------------- MODULE MCPages -------------------------------
(* Instances of Pages for TLC: two selections, every page of apps/web, one   *)
(* of them in each behaviour.                                                *)
EXTENDS Pages, WebPages

CONSTANTS k1, k2

MCKey == {k1, k2}

\* Selections are interchangeable: the page opens with the first.  (A symmetry
\* set would not do for the temporal property.)
FromFirst == sel = k1 /\ PageInit
PageSpecFromFirst == FromFirst /\ [][PageNext]_pageVars /\ PageFairness

NewCourtScreen == Screen({CourtsView}, {NewCourt})
=============================================================================
