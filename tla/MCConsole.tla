----------------------------- MODULE MCConsole -----------------------------
EXTENDS Console
\* A line, a longer one it is a beginning of, one too long for the buffer.
p   == <<"p">>
pq  == <<"p", "q", "cr">>
pqq == <<"p", "q", "q">>
o   == <<"o">>
SomeScripts == {<<p, pq, pqq, o>>, <<pq, p, p, p>>, <<pqq, pq, p, o>>, <<o>>}
\* An image that looks like the end of a line and a command.
SomeImage == <<"nl", "o", "nl", "p", "q">>
=============================================================================
