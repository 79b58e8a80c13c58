------------------------ MODULE MCAttendanceVerdict ------------------------
(***************************************************************************)
(* Instances of AttendanceVerdict for TLC.                                 *)
(***************************************************************************)
EXTENDS AttendanceVerdict

Minutes == 0 .. SessionLength
=============================================================================
