--------------------------- MODULE MCSerialConsole ---------------------------
(***************************************************************************)
(* SerialConsole with a three-byte FIFO and six bytes typed: bytes arrive   *)
(* before serial_init, between two looks at the UART, and into a full FIFO.*)
(***************************************************************************)
EXTENDS SerialConsole

MCReadLen == {0, 1, 2, 4}

in == [fd |-> 0, events |-> {"POLLIN"}]
out == [fd |-> 1, events |-> {"POLLOUT"}]
other == [fd |-> 3, events |-> {"POLLIN", "POLLOUT"}]

\* Input asked for first, last and twice.
MCPollArg == {<<in>>, <<in, out, in>>, <<other, in>>}

WithNfds(nfds) ==
  [nfds : {nfds}, readfds : {{}, {0}}, writefds : {{}, {1}, {1, 2}}]

\* As a caller that names the highest descriptor plus one, or more.
SelectsOfThree == WithNfds(3)
\* select(2, NULL, {1}): stdout alone.
SelectsOfTwo == WithNfds(2)
=============================================================================
