----------------------------- MODULE RespParser -----------------------------
(***************************************************************************)
(* protocol::parse_command: the RESP2 parser, as a function of the bytes   *)
(* that are buffered.  It keeps no state: every call scans the buffer from *)
(* its front.                                                              *)
(*                                                                         *)
(* A byte is a string of one character, CR and LF being written out.  The  *)
(* name of a command is its one-letter code.                               *)
(***************************************************************************)
EXTENDS Integers, Sequences

CONSTANTS
  MaxKeyLength,         \* kMaxKeyLength
  MaxValueLength,       \* kMaxValueLength, also kMaxBulkStringLength
  MaxArrayElements,     \* kMaxArrayElements
  MaxHeaderLineLength,  \* kMaxHeaderLineLength
  MaxInt,               \* the largest std::int64_t
  Nil                   \* std::nullopt

ASSUME ParserAssumption ==
  /\ {MaxKeyLength, MaxValueLength, MaxArrayElements, MaxHeaderLineLength, MaxInt} \subseteq Nat
  /\ Nil \notin Int

CR == "CR"
LF == "LF"
CRLF == <<CR, LF>>

NeedMoreData == [kind |-> "need_more"]

ProtocolError(category, recoverable, consumed, message) ==
  [kind |-> "error", category |-> category, recoverable |-> recoverable,
   consumed |-> consumed, message |-> message]

-----------------------------------------------------------------------------
(* Lines and numbers. *)

\* Mutant: the length of a terminated line is not checked.
AnyLength(pos) == FALSE

FoundTooLong(pos) == pos > MaxHeaderLineLength

\* Without a CRLF in the buffer, a lone CR at its end counts as content.
UnterminatedTooLong(input) == Len(input) > MaxHeaderLineLength

\* Positions of a CRLF; find returns the first.
LineEnds(input) == {i \in 1 .. Len(input) - 1 : SubSeq(input, i, i + 1) = CRLF}

read_line(input) ==
  IF LineEnds(input) # {}
  THEN LET pos == (CHOOSE i \in LineEnds(input) : \A j \in LineEnds(input) : i <= j) - 1
       IN  IF FoundTooLong(pos)
           THEN [status |-> "too_long"]
           ELSE [status |-> "found", content |-> SubSeq(input, 1, pos), consumed |-> pos + 2]
  ELSE [status |-> IF UnterminatedTooLong(input) THEN "too_long" ELSE "need_more"]

DigitValue ==
  [c \in {"0", "1", "2", "3", "4", "5", "6", "7", "8", "9"} |->
     CHOOSE d \in 0 .. 9 : <<"0", "1", "2", "3", "4", "5", "6", "7", "8", "9">>[d + 1] = c]

\* Mutant: the overflow test compares before the digit is added.
OverflowsLate(value, digit) == value > MaxInt \div 10

Overflows(value, digit) == value > (MaxInt - digit) \div 10

AddDigit(value, c) ==
  IF value = Nil \/ c \notin DOMAIN DigitValue THEN Nil
  ELSE IF Overflows(value, DigitValue[c]) THEN Nil
  ELSE value * 10 + DigitValue[c]

\* The loop over the digits: the value after each.
ReadDigits(text) ==
  LET value[i \in 0 .. Len(text)] == IF i = 0 THEN 0 ELSE AddDigit(value[i - 1], text[i])
  IN  value

parse_nonnegative_integer(text) == IF text = <<>> THEN Nil ELSE ReadDigits(text)[Len(text)]

-----------------------------------------------------------------------------
(* Framing: an array of bulk strings. *)

Malformed == ProtocolError("malformed_frame", FALSE, 0, <<>>)

\* Mutant: one byte more than the body and its terminator is waited for.
BodyArrivedLate(input, end) == Len(input) > end + 2

\* The body that ends at end is buffered, with its terminator.
BodyArrived(input, end) == Len(input) >= end + 2

\* One turn of the loop over the elements; consumed bytes are behind it.
ReadElement(input, args, consumed) ==
  LET header == read_line(SubSeq(input, consumed + 2, Len(input)))
      length == parse_nonnegative_integer(header.content)
      start  == consumed + 1 + header.consumed
      end    == start + length
  IN  IF consumed >= Len(input) THEN NeedMoreData
      ELSE IF input[consumed + 1] # "$" THEN Malformed
      ELSE IF header.status = "need_more" THEN NeedMoreData
      ELSE IF header.status = "too_long" \/ length = Nil THEN Malformed
      ELSE IF length > MaxValueLength
           THEN ProtocolError("field_too_large", FALSE, 0, <<>>)
      ELSE IF ~BodyArrived(input, end) THEN NeedMoreData
      ELSE IF SubSeq(input, end + 1, end + 2) # CRLF THEN Malformed
      ELSE [kind |-> "frame", args |-> Append(args, SubSeq(input, start + 1, end)),
            consumed |-> end + 2]

\* The loop over the elements: the frame, or what ended the loop, after each.
ReadElements(input, start, length) ==
  LET frame[i \in 0 .. length] ==
        IF i = 0 THEN [kind |-> "frame", args |-> <<>>, consumed |-> start]
        ELSE IF frame[i - 1].kind = "frame"
        THEN ReadElement(input, frame[i - 1].args, frame[i - 1].consumed)
        ELSE frame[i - 1]
  IN  frame

read_multibulk_frame(input) ==
  LET header == read_line(Tail(input))
      length == parse_nonnegative_integer(header.content)
  IN  IF input = <<>> THEN NeedMoreData
      ELSE IF Head(input) # "*" THEN Malformed
      ELSE IF header.status = "need_more" THEN NeedMoreData
      ELSE IF header.status = "too_long" \/ length = Nil THEN Malformed
      ELSE IF length > MaxArrayElements THEN Malformed
      ELSE ReadElements(input, 1 + header.consumed, length)[length]

-----------------------------------------------------------------------------
(* Commands. *)

\* to_upper_ascii, on the letters the names are made of.
UpperCase == [p |-> "P", s |-> "S", g |-> "G", d |-> "D", e |-> "E", x |-> "X", t |-> "T"]
to_upper_ascii(text) ==
  [i \in DOMAIN text |-> IF text[i] \in DOMAIN UpperCase THEN UpperCase[text[i]] ELSE text[i]]

Names == [P |-> "PING", S |-> "SET", G |-> "GET", D |-> "DEL", E |-> "EXISTS", X |-> "EXPIRE",
          T |-> "TTL"]
Arity == [PING |-> 1, SET |-> 3, GET |-> 2, DEL |-> 2, EXISTS |-> 2, EXPIRE |-> 3, TTL |-> 2]

KeyTooLong(key) == Len(key) > MaxKeyLength

SemanticError(category, message) == [error |-> category, message |-> message]

\* The type of the command, or the first complaint about the arguments.
build_command(args) ==
  LET name == to_upper_ascii(args[1])
      type == Names[name[1]]
  IN  IF args = <<>> THEN SemanticError("unknown_command", <<>>)
      ELSE IF Len(name) # 1 \/ name[1] \notin DOMAIN Names
           THEN SemanticError("unknown_command", args[1])
      ELSE IF Len(args) # Arity[type] THEN SemanticError("wrong_arity", <<>>)
      ELSE IF type # "PING" /\ KeyTooLong(args[2]) THEN SemanticError("field_too_large", <<>>)
      ELSE IF type = "SET" /\ Len(args[3]) > MaxValueLength
           THEN SemanticError("field_too_large", <<>>)
      ELSE IF type = "EXPIRE" /\ parse_nonnegative_integer(args[3]) = Nil
           THEN SemanticError("invalid_integer", <<>>)
      ELSE [type |-> type, args |-> Tail(args)]

\* Phase 2 on a frame of known length.
Interpret(frame) ==
  LET command == build_command(frame.args)
  IN  IF "error" \in DOMAIN command
      THEN ProtocolError(command.error, TRUE, frame.consumed, command.message)
      ELSE [kind |-> "command", command |-> command, consumed |-> frame.consumed]

parse_command(input) ==
  LET frame == read_multibulk_frame(input)
  IN  IF frame.kind = "frame" THEN Interpret(frame) ELSE frame

=============================================================================
