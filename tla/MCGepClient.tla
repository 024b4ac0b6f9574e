----------------------------- MODULE MCGepClient -----------------------------
(* The instance of GepClient for TLC.                                        *)
EXTENDS GepClient

CONSTANT s1      \* a sending thread
=============================================================================
