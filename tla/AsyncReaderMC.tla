---------------------------- MODULE AsyncReaderMC ----------------------------
(* AsyncReader for TLC: a header and payload sequence, one whose tasks can    *)
(* all be served from one transfer, and a single task.                        *)
EXTENDS AsyncReader

MCSizes == << <<1, 3>>, <<1, 1, 1>>, <<2>> >>
=============================================================================
