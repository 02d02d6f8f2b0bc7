----------------------------- MODULE MCShutdown -----------------------------
(* Instances of Shutdown for TLC. *)
EXTENDS Shutdown

MCDefaults ==
    [bind_address |-> "0.0.0.0", port |-> 7, worker_count |-> 3, shard_count |-> 1,
     queue_capacity |-> 3, log_level |-> "info", show_help |-> FALSE, show_version |-> FALSE]

NumberStrings == {"0", "1", "2", "3", "9"}
MCNumber == [s \in NumberStrings |->
               CASE s = "0" -> 0 [] s = "1" -> 1 [] s = "2" -> 2 [] s = "3" -> 3 [] s = "9" -> 9]

\* Servers that start, that refuse their options, and that never start one.
MCCommandLines ==
    { <<>>, <<"--workers", "1", "--port", "3">>, <<"--log-level", "WARN", "--bind", "::">>,
      <<"--workers", "0">>, <<"--shards", "0">>, <<"--queue-capacity", "0">>,
      <<"-h">>, <<"--version", "--workers", "0">>, <<"--help", "--loud">>,
      <<"--port", "9">>, <<"--workers", "many">>, <<"--log-level", "loud">>, <<"--shards">>,
      <<"--workers", "--help">> }

SmallQueue == { <<"--queue-capacity", "1", "--workers", "1">> }
=============================================================================
