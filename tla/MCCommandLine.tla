---------------------------- MODULE MCCommandLine ----------------------------
(* Two sessions and the serial device.  "\n" starts what is left of a CR LF. *)
EXTENDS CommandLine

CONSTANTS s1, s2, serial

TwoSessions == {s1, s2}
Words7 == {"help", "setloglvl", "pingReq", "remCmd", "5", "6", "\n"}
Feeds == {"\n"}
Named(w) == IF w \in {"help", "setloglvl", "pingReq", "remCmd"} THEN w ELSE NULL
Number(w) == IF w = "5" THEN 5 ELSE IF w = "6" THEN 6 ELSE 0

\* A piece; lines that are right; lines with no word, no command, too few or too many
\* arguments; a rest that starts with the line feed; two lines at once.
Chunks == {<<>>, << <<"help">> >>, << <<"setloglvl", "5">> >>, << <<"setloglvl", "6">> >>,
           << <<"pingReq">> >>, << <<"remCmd", "6", "help">> >>,
           << <<>> >>, << <<"6">> >>, << <<"setloglvl">> >>, << <<"help", "5">> >>,
           << <<"\n", "pingReq">>, <<"\n">> >>}
=============================================================================
