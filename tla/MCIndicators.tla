---------------------------- MODULE MCIndicators ----------------------------
(* Instances of Indicators for TLC.                                        *)
EXTENDS Indicators
=============================================================================
