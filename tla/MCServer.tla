------------------------------ MODULE MCServer ------------------------------
(***************************************************************************)
(* Server and the protocol it speaks, RESP, for TLC.                       *)
(***************************************************************************)
EXTENDS Server, RESP

SomeSettings == {<<FALSE, 0>>, <<TRUE, 1>>}

\* The empty string, letters, bytes of the protocol's own framing, white space,
\* and one whose length has two digits.
SomePayloads ==
  {<<>>, <<"p">>, <<"x", "1">>, <<CR, LF>>, <<"$", "1", CR, LF>>, <<"*">>, <<"7", " ">>,
   <<"l", "p", "u", "x", "a", "b", "l", "p", "u", "x", "a", "b">>}

(***************************************************************************)
(* What Server takes for granted when it counts commands: the bytes on     *)
(* their way to a handler, sent as RESP arrays with any payloads, nils and *)
(* empty arguments and ended anywhere by a disconnect or by Stop, are read *)
(* by ReadCommand as the commands sent, up to the end, and as no others.   *)
(***************************************************************************)
CommandsAreUnits ==
  \A c \in Conns : sock[c] + rbuf[c] \in DOMAIN Misread => Misread[sock[c] + rbuf[c]] = {}
=============================================================================
