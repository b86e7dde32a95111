------------------------------ MODULE Protocol ------------------------------
(***************************************************************************)
(* The sizes both ends of a connection have to agree on: a packet is a     *)
(* message type, a session id and (for a SET) a payload.                   *)
(***************************************************************************)
EXTENDS Integers

SESSION_ID_BYTES == 64
MSG_INDICATOR_BYTES == 3
MSGBUFFER_SIZE == 1024 * 8

(* What read() makes of a packet: the rest of a longer one is cut off. *)
ReceivedBytes(bytes) == IF bytes > MSGBUFFER_SIZE THEN MSGBUFFER_SIZE ELSE bytes

(* Message.MsgBytes - (SESSION_ID_BYTES + 3), kept in a uint16_t. *)
PayloadBytes(bytes) ==
  (bytes - (SESSION_ID_BYTES + MSG_INDICATOR_BYTES)) % 2^16
=============================================================================
