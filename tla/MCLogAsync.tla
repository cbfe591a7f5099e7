---------------------------- MODULE MCLogAsync ----------------------------
(***************************************************************************)
(* Instances of LogAsync for TLC.                                          *)
(***************************************************************************)
EXTENDS LogAsync, TLC

CONSTANTS a1, w1, w2

OneApp == {a1}
TwoWorkers == {w1, w2}
OneOrBoth == {{w1}, TwoWorkers}
TheFlusher == {Flusher}

=============================================================================
