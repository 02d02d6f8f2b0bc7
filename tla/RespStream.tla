----------------------------- MODULE RespStream -----------------------------
(***************************************************************************)
(* The parser on a stream of bytes.  A client writes the frame of a        *)
(* request, possibly with a slip, and starts another; the bytes reach the  *)
(* parser's buffer one after the other, and parse_command may be called on *)
(* any prefix, according to how the stream is cut into packets.            *)
(*                                                                         *)
(* Beside the buffer runs an acceptor, the grammar of the protocol: it     *)
(* sees each byte once and never takes a decision back.                    *)
(***************************************************************************)
EXTENDS RespSerializer

CONSTANTS
  Requests,   \* the argument lists that clients send
  Zeros,      \* how many zeros a client may put in front of a length
  Byte,       \* the bytes of a slip
  MaxSlips    \* bound: the slips in one frame

ASSUME StreamAssumption ==
  /\ MaxArrayElements <= MaxInt /\ MaxValueLength <= MaxInt
  /\ MaxSlips \in Nat /\ Zeros \subseteq Nat /\ Requests \subseteq Seq(Seq(STRING))
  /\ \A args \in Requests, k \in Zeros : WithinLimits(args, k)

VARIABLES
  request, zeros,  \* what the client sends
  unwritten,       \* the bytes it has still to write
  slips,           \* the slips it has still to make
  arrived,         \* the bytes that have, in the parser's buffer
  acceptor

stream == <<request, zeros, unwritten, slips, arrived, acceptor>>

-----------------------------------------------------------------------------
(* The grammar. *)

NewAcceptor ==
  [at |-> "start", seen |-> <<>>, args |-> <<>>, left |-> 0, need |-> 0, read |-> 0,
   verdict |-> NeedMoreData]

Decide(a, verdict) == [a EXCEPT !.at = "done", !.verdict = verdict]

Expect(a, at) == [a EXCEPT !.at = at, !.seen = <<>>]

NextElement(a) ==
  IF a.left = 0 THEN Decide(a, Interpret([args |-> a.args, consumed |-> a.read]))
  ELSE Expect([a EXCEPT !.left = @ - 1], "dollar")

\* A whole header line.
Header(a, n) ==
  IF n = Nil \/ (a.at = "array" /\ n > MaxArrayElements) THEN Decide(a, Malformed)
  ELSE IF a.at = "array" THEN NextElement([a EXCEPT !.left = n])
  ELSE IF n > MaxValueLength THEN Decide(a, ProtocolError("field_too_large", FALSE, 0, <<>>))
  ELSE Expect([a EXCEPT !.need = n], "body")

\* A terminator is at the end of the bytes seen.
Ended(seen) == Len(seen) >= 2 /\ SubSeq(seen, Len(seen) - 1, Len(seen)) = CRLF

\* The acceptor after byte c.
Accept(before, c) ==
  LET a == [before EXCEPT !.seen = Append(@, c), !.read = @ + 1]
      line == SubSeq(a.seen, 1, Len(a.seen) - 2)
      ended == Ended(a.seen)
  IN  CASE a.at = "done" -> before
        [] a.at = "start" -> IF c = "*" THEN Expect(a, "array") ELSE Decide(a, Malformed)
        [] a.at = "dollar" -> IF c = "$" THEN Expect(a, "length") ELSE Decide(a, Malformed)
        [] a.at \in {"array", "length"} ->
             IF ended THEN Header(a, Value(line))
             ELSE IF Len(a.seen) > MaxHeaderLineLength + (IF c = CR THEN 1 ELSE 0)
             THEN Decide(a, Malformed)
             ELSE a
        [] a.at = "body" ->
             IF Len(a.seen) < a.need + 2 THEN a
             ELSE IF ended THEN NextElement([a EXCEPT !.args = Append(@, line)])
             ELSE Decide(a, Malformed)

-----------------------------------------------------------------------------
(* The stream. *)

\* Bytes of the request that follows.
Following == <<"*", "1">>

StreamInit ==
  /\ request \in Requests /\ zeros \in Zeros
  /\ unwritten = Frame(request, zeros) \o Following
  /\ slips = MaxSlips
  /\ arrived = <<>>
  /\ acceptor = NewAcceptor

Arrive(c) ==
  /\ arrived' = Append(arrived, c)
  /\ acceptor' = Accept(acceptor, c)

WriteByte ==
  /\ unwritten # <<>>
  /\ Arrive(Head(unwritten))
  /\ unwritten' = Tail(unwritten)
  /\ UNCHANGED <<request, zeros, slips>>

\* A byte that does not belong there, in place of the next one or before it.
WriteWrongByte ==
  /\ unwritten # <<>> /\ slips > 0
  /\ \E c \in Byte : Arrive(c)
  /\ unwritten' \in {unwritten, Tail(unwritten)}
  /\ slips' = slips - 1
  /\ UNCHANGED <<request, zeros>>

SkipByte ==
  /\ unwritten # <<>> /\ slips > 0
  /\ unwritten' = Tail(unwritten)
  /\ slips' = slips - 1
  /\ UNCHANGED <<request, zeros, arrived, acceptor>>

StreamNext == WriteByte \/ WriteWrongByte \/ SkipByte

StreamSpec == StreamInit /\ [][StreamNext]_stream

-----------------------------------------------------------------------------
(* Properties. *)

\* A length header of the greatest length whose CR is the last byte so far.
\* read_line counts that CR as content.
AtHeaderLimit ==
  /\ acceptor.at \in {"array", "length"}
  /\ Len(acceptor.seen) = MaxHeaderLineLength + 1

\* Except at AtHeaderLimit, parse_command, which scans the buffer from its front
\* at every call, decides on every prefix what the grammar decides byte by byte:
\* the same command or error, the same number of bytes consumed, and no sooner
\* or later.
ParserFollowsGrammar ==
  ~AtHeaderLimit => parse_command(arrived) = acceptor.verdict

\* "Is incremental: incomplete input returns NeedMoreData, not an error": as long
\* as a frame without a slip is not all there, parse_command asks for the rest.
\* At AtHeaderLimit it does not: read_line takes the CR for one byte of content
\* too many, and rejects what the next byte would make a legal header.
IncompleteInputNeedsMoreData ==
  slips = MaxSlips /\ Len(arrived) < Len(Frame(request, zeros)) =>
    parse_command(arrived) = NeedMoreData

\* However the stream is cut into packets, except at AtHeaderLimit, a frame
\* without a slip gives the command, or the complaint, that its arguments make,
\* once its last byte is there and not before, and consumes exactly its own bytes
\* (process_input consumes them and parses the rest as the next frame).
WholeFramesAreUnderstood ==
  slips = MaxSlips /\ ~AtHeaderLimit =>
    LET length == Len(Frame(request, zeros))
    IN  parse_command(arrived) =
          IF Len(arrived) < length THEN NeedMoreData
          ELSE Interpret([args |-> request, consumed |-> length])

\* Once parse_command has decided about the bytes at the front of the buffer,
\* more bytes behind them never change the decision: whether process_input is
\* called early or, on a throttled connection, late makes no difference.  The
\* one decision that is not final is the error at AtHeaderLimit, which a line
\* feed would turn into a legal header.
DecisionIsFinal ==
  [][ parse_command(arrived) # NeedMoreData /\ ~AtHeaderLimit
        => parse_command(arrived') = parse_command(arrived) ]_stream
=============================================================================
