-------------------------- MODULE MCMessageHandler --------------------------
(* MessageHandler with the requests of a few clients of up to three        *)
(* sessions.                                                               *)
EXTENDS MessageHandler

CONSTANTS s1, s2, s3

Request(type, session, bytes) ==
  [type |-> type, session |-> session, bytes |-> bytes]

OneSession == {Request(t, s1, 68) : t \in {"GET", "SET"}}

(* SETs for three sessions, GETs for one of them, a SET without payload    *)
(* and a message that is neither GET nor SET.                              *)
AllKinds ==
  OneSession \cup {Request("SET", s, 68) : s \in {s2, s3}}
    \cup {Request("SET", s1, 67), Request("other", s1, 68)}
=============================================================================
