---------------------------- MODULE MCAutopilot ----------------------------
(* Autopilot on headings either side of north and south, on commands       *)
(* outside one turn, and on servo commands beyond full deflection.         *)
EXTENDS Autopilot

MCHeadings == {0, 170, 359}
MCHeadingCommands == {-190, 10, 350}
MCServoCommands == {-7, 45}

(* For the runs that need few states.                                      *)
MCFewCommands == {-190}
=============================================================================
