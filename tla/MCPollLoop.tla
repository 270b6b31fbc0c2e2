----------------------------- MODULE MCPollLoop -----------------------------
(* One session and one client; one slot is left when one of them is there.   *)
EXTENDS PollLoop

CONSTANTS s1, c1, listener, hello, serial

OneSession  == {s1}
OneClient   == {c1}
InputOf(k) == [kind |-> k, bit |-> "POLLIN"]
ErrorOf(k) == [kind |-> k, bit |-> "POLLERR"]

\* The one-shot timers are left out: theirs are turns like the ones of the table timer.
\* Errors come from a device that does not look for them and from one that does.
SomeArrivals(d) ==
  CASE d = Hello     -> {InputOf("dev"), InputOf("tableTimer")}
    [] d = Serial    -> {InputOf("dev"), ErrorOf("dev")}
    [] d \in Sessions -> {InputOf("dev"), [kind |-> "dev", bit |-> "POLLPRI"]}
    [] d \in Clients -> {ErrorOf("dev")}
    [] OTHER         -> {InputOf("dev")}
=============================================================================
