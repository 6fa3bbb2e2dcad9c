------------------------------ MODULE MCTask ------------------------------
(***************************************************************************)
(* TDebugTask for TLC, with either library: tdebug-lib as the constants    *)
(* say, or spd3-lib, whose CaptureReturn pops an open FINISH, for tasks    *)
(* that return before their children.                                      *)
(***************************************************************************)
EXTENDS TDebugTask

VARIABLE spd3       \* the library is spd3-lib

Spd3 == INSTANCE TDebugTask WITH PopsOpenFinish <- TRUE, Styles <- {"continuation"}

eitherVars == <<vars, spd3>>

EitherInit == Init /\ spd3 \in BOOLEAN

EitherNext ==
    /\ UNCHANGED spd3
    /\ IF spd3 THEN Spd3!Next ELSE Next

\* TBB schedules every ready task and resumes every wait that is over, and tasks do not
\* run forever.
EitherSpec == EitherInit /\ [][EitherNext]_eitherVars /\ WF_eitherVars(EitherNext)
=============================================================================
