---------------------------- MODULE MCPerfClient ----------------------------
EXTENDS PerfClient

TwoThreads == 1 .. 2
TheRequests == TwoThreads \X (1 .. 4)
NoPair == <<0, 0>>

(* The counter starts where the second session needs a carry. *)
Counter == <<1, 0, 0>>

(* A file with these values and threads that connect, *)
Config(threads, sessions, messages, min, max) ==
  << [key |-> "ThreadCount", value |-> threads],
     [key |-> "ConnectionType", value |-> Persistent],
     [key |-> "SessionAmount", value |-> sessions],
     [key |-> "MessageAmount", value |-> messages],
     [key |-> "MessageLengthMin", value |-> min],
     [key |-> "MessageLengthMax", value |-> max] >>

(* one with threads that do not,                                           *)
Unconnected(threads, sessions, messages, min, max) ==
  <<[key |-> "ConnectionType", value |-> NotANumber]>>
    \o Config(threads, sessions, messages, min, max)

(* and one like testconfig.cfg, which does not name the amounts as the     *)
(* program does.                                                           *)
SampleConfig ==
  << [key |-> "ThreadCount", value |-> 1],
     [key |-> "ConnectionType", value |-> Persistent],
     [key |-> "SessionPerThreadCount", value |-> 4],
     [key |-> "MessagesPerSessionCount", value |-> 1],
     [key |-> "MessageLengthMin", value |-> 1],
     [key |-> "MessageLengthMax", value |-> 1] >>

(* Two threads with messages that fill a segment; one thread with messages *)
(* of up to three segments, in one session or two; messages whose length   *)
(* is cut to 16 bits, to nothing in one file; two threads with a message   *)
(* that leaves its pool; a length out of an empty range; no thread and no  *)
(* session; a thread that never connects; two files in one, of which the   *)
(* first counts; and files that end the program.                           *)
SomeFiles ==
  { Config(2, 2, 2, 1, 1), Config(1, 1, 2, 1, 4), Config(1, 2, 2, 3, 2),
    Config(1, 1, 2, 7, 7), Config(1, 1, 2, 6, 6), Config(2, 1, 1, 5, 5),
    Config(1, 1, 1, 1, 0), Config(0, 1, 1, 1, 1), Config(1, 0, 2, 1, 1),
    Unconnected(1, 1, 2, 1, 6),
    Config(2, 1, 1, 1, 1) \o Config(1, 2, 2, 1, 3),
    SampleConfig, <<>> }
=============================================================================
