--------------------------- MODULE RespSerializer ---------------------------
(***************************************************************************)
(* protocol/serializer: replies as bytes, in the alphabet of RespParser,   *)
(* and the client, who writes requests and reads replies.                  *)
(***************************************************************************)
EXTENDS RespParser

Digit == <<"0", "1", "2", "3", "4", "5", "6", "7", "8", "9">>
Numeral[n \in Nat] ==
  IF n < 10 THEN <<Digit[n + 1]>> ELSE Append(Numeral[n \div 10], Digit[(n % 10) + 1])

\* std::to_string
to_string(n) == IF n < 0 THEN <<"-">> \o Numeral[-n] ELSE Numeral[n]

encode_simple_string(value) == <<"+">> \o value \o CRLF
encode_error(message)       == <<"-">> \o message \o CRLF
encode_integer(value)       == <<":">> \o to_string(value) \o CRLF

\* Mutant: the length counts the terminator.
encode_bulk_with_terminator(value) == <<"$">> \o to_string(Len(value) + 2) \o CRLF \o value \o CRLF

encode_bulk_string(value)   == <<"$">> \o to_string(Len(value)) \o CRLF \o value \o CRLF
encode_null_bulk_string     == <<"$", "-", "1">> \o CRLF

-----------------------------------------------------------------------------
(* The client. *)

\* What a numeral denotes, in unbounded arithmetic.
Value(text) ==
  IF text = <<>> \/ \E i \in DOMAIN text : text[i] \notin DOMAIN DigitValue THEN Nil
  ELSE LET n[i \in 0 .. Len(text)] == IF i = 0 THEN 0 ELSE 10 * n[i - 1] + DigitValue[text[i]]
       IN  IF n[Len(text)] > MaxInt THEN Nil ELSE n[Len(text)]

\* A length, with zeros in front of it.
Length(n, zeros) == [i \in 1 .. zeros |-> "0"] \o to_string(n) \o CRLF

\* The frame of a request, element by element.
Frame(args, zeros) ==
  LET bytes[i \in 0 .. Len(args)] ==
        IF i = 0 THEN <<"*">> \o Length(Len(args), zeros)
        ELSE bytes[i - 1] \o <<"$">> \o Length(Len(args[i]), zeros) \o args[i] \o CRLF
  IN  bytes[Len(args)]

\* A request is within the parser's limits, with k zeros in front of each
\* length.
WithinLimits(args, k) ==
  /\ Len(args) <= MaxArrayElements
  /\ Len(Length(Len(args), k)) <= MaxHeaderLineLength + 2
  /\ \A i \in DOMAIN args : /\ Len(args[i]) <= MaxValueLength
                            /\ Len(Length(Len(args[i]), k)) <= MaxHeaderLineLength + 2

\* Some of the parts of a stream, one behind the other: those after the first
\* from, up to number to.
Stretch(parts, from, to) ==
  LET bytes[i \in from .. to] == IF i = from THEN <<>> ELSE bytes[i - 1] \o parts[i]
  IN  bytes[to]

\* The first reply in the bytes: its type, what it carries, and its length.
\* A length of zero says that the reply is not complete.
FirstReply(bytes) ==
  LET end   == CHOOSE i \in LineEnds(bytes) : \A j \in LineEnds(bytes) : i <= j
      line  == SubSeq(bytes, 2, end - 1)
      bulk  == bytes[1] = "$" /\ line # <<"-", "1">>
      total == end + 1 + Value(line) + 2
  IN  IF LineEnds(bytes) = {} \/ (bulk /\ Len(bytes) < total)
      THEN [type |-> "", text |-> <<>>, length |-> 0]
      ELSE IF bulk
      THEN [type |-> "$", text |-> SubSeq(bytes, end + 2, end + 1 + Value(line)), length |-> total]
      ELSE [type |-> IF bytes[1] = "$" THEN "nil" ELSE bytes[1], text |-> line,
            length |-> end + 1]

\* One more reply is read, if there is a complete one: read are those the client
\* has, each as its type and what it carries, and rest is what remains.
ReadReply(state) ==
  LET reply == FirstReply(state.rest)
  IN  IF reply.length = 0 THEN state
      ELSE [rest |-> SubSeq(state.rest, reply.length + 1, Len(state.rest)),
            read |-> Append(state.read, [type |-> reply.type, text |-> reply.text])]

\* The client reads replies while there is a complete one.
ReadReplies(read, bytes) ==
  LET state[i \in 0 .. Len(bytes)] ==
        IF i = 0 THEN [rest |-> bytes, read |-> read] ELSE ReadReply(state[i - 1])
  IN  state[Len(bytes)]
=============================================================================
