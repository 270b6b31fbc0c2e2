---------------------------- MODULE MCCmdSession ----------------------------
(* Small instances of CmdSession: two-byte command words, lines that end as *)
(* helloProtocolTimer ends its pings ("\n\r"), or with a CR alone.          *)
EXTENDS CmdSession

MCByte == {"p", "q", "r", "x", "LF", "CR"}
Ping == <<"p", "q">>
Rem  == <<"r">>
MCCmdWords == {Ping, Rem}

PingMsg   == Ping \o <<"LF", "CR">>    \* helloProtocol.c:245
RemMsg    == Rem \o <<"CR">>
JunkMsg   == <<"x", "x", "x">>                   \* the start of a line never finished

MixedMessages  == {PingMsg, RemMsg, JunkMsg}
SyncMessages   == {PingMsg, <<"x", "CR">>}       \* a command, and a line that is none
PingMessages   == {PingMsg}
UnfinishedMessages == {JunkMsg}
=============================================================================
