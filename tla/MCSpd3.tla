------------------------------- MODULE MCSpd3 -------------------------------
(***************************************************************************)
(* Instance of Spd3History for TLC.                                        *)
(***************************************************************************)
EXTENDS Spd3History, MCPrograms

NoLockPrograms == ProgramsOf(4, TRUE, {{}}, 4)
=============================================================================
