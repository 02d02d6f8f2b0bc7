------------------------------ MODULE Options ------------------------------
(***************************************************************************)
(* The command line: cli::parse_args.  An argument is a string.            *)
(***************************************************************************)
EXTENDS Naturals, Sequences

CONSTANTS
    Defaults,   \* a ServerOptions as its default member initialisers leave it
    Number,     \* what std::from_chars makes of the strings that are numbers
    MaxPort     \* the largest std::uint16_t

\* Logger::parse_level accepts these names, in any mixture of cases.
Lowered == [DEBUG |-> "debug", Info |-> "info", WARN |-> "warn", Error |-> "error"]
parse_level(name) ==
    (IF name \in DOMAIN Lowered THEN Lowered[name] ELSE name)
        \in {"debug", "info", "warn", "warning", "error"}

\* parse_unsigned, for a type whose largest value is max.
parse_unsigned(value, max) == value \in DOMAIN Number /\ Number[value] <= max

\* Where parse_args stands: the options so far, the flag whose value comes
\* next, and whether std::invalid_argument was thrown.
NewParse == [options |-> Defaults, flag |-> "", invalid |-> FALSE]

Counts == {"--workers", "--shards", "--queue-capacity"}
Field(flag) == CASE flag = "--workers" -> "worker_count"
                 [] flag = "--shards" -> "shard_count"
                 [] flag = "--queue-capacity" -> "queue_capacity"

\* value follows flag.
SetOption(options, flag, value) ==
    CASE flag = "--bind" -> [options EXCEPT !.bind_address = value]
      [] flag = "--port" -> [options EXCEPT !.port = Number[value]]
      [] flag = "--log-level" -> [options EXCEPT !.log_level = value]
      [] flag \in Counts -> [options EXCEPT ![Field(flag)] = Number[value]]

ValidValue(flag, value) ==
    /\ flag = "--port" => parse_unsigned(value, MaxPort)
    /\ flag \in Counts => value \in DOMAIN Number
    /\ flag = "--log-level" => parse_level(value)

\* What the loop of parse_args does with one argument.
ParseArg(parse, arg) ==
    IF parse.invalid THEN parse
    ELSE IF parse.flag # "" THEN
        IF ValidValue(parse.flag, arg)
        THEN [parse EXCEPT !.flag = "",
                           !.options = SetOption(parse.options, parse.flag, arg)]
        ELSE [parse EXCEPT !.invalid = TRUE]
    ELSE IF arg \in {"--help", "-h"} THEN [parse EXCEPT !.options.show_help = TRUE]
    ELSE IF arg \in {"--version", "-v"} THEN [parse EXCEPT !.options.show_version = TRUE]
    ELSE IF arg \in Counts \cup {"--bind", "--port", "--log-level"}
         THEN [parse EXCEPT !.flag = arg]
    ELSE [parse EXCEPT !.invalid = TRUE]

\* A flag that is still waiting for its value at the end is an error too.
parse_args(args) ==
    LET after[n \in 0 .. Len(args)] ==    \* n arguments
            IF n = 0 THEN NewParse ELSE ParseArg(after[n - 1], args[n])
        parse == after[Len(args)]
    IN  [options |-> parse.options, invalid |-> parse.invalid \/ parse.flag # ""]
=============================================================================
