------------------------------- MODULE Parser --------------------------------
(***************************************************************************)
(* The configuration parser and the values it makes (source/config.c).     *)
(*                                                                         *)
(* A text is a sequence of symbols.  The characters the parser looks at    *)
(* are symbols of their own; a run of others, such as a name, may be one.  *)
(* The parser is a record that is handed on, as its static variables are:  *)
(*   text, more    the line or file being read, and the lines to come      *)
(*   shell, open   the input is the shell's, and it has a line             *)
(*   back          returned_char, "" if there is none                      *)
(*   nest, ignore  nesting_count and ignore_comments                       *)
(*   temp          what temp_buf holds, up to temp_buf_idx                 *)
(*   returns       config_error() returns: there is an error handler       *)
(*   st            "ok"; "error"; "wait" for the user; "hang"              *)
(***************************************************************************)
EXTENDS Integers, Sequences, SequencesExt, TLC

CONSTANTS
  TEMP_BUF_LEN,   \* size of temp_buf
  INT_MOD         \* integers are this wide: 2^64

EOF == "EOF"
Spaces == {" ", "\t", "\n"}
Special == Spaces \cup {"\"", "\\", "#", "{", "}", "[", "]", "$", "/", "-", EOF}
IsName(ch) == ch \notin Special
Digits == <<"0", "1", "2", "3", "4", "5", "6", "7", "8", "9", "a", "b", "c", "d", "e", "f">>
IsDigit(ch) == \E i \in 1 .. 10 : Digits[i] = ch
DigitValue(ch) == IF Contains(Digits, ch) THEN CHOOSE i \in 0 .. 15 : Digits[i + 1] = ch ELSE 16

Value(type, v) == [type |-> type, v |-> v]
Done(p, v) == [p |-> p, v |-> v]
NoValue == Value("none", 0)

(* file_read_helper() and shell_input_helper().  At the end of a line the  *)
(* shell asks for another if the parser is inside something.               *)
Helper(p) ==
  IF p.text # <<>> THEN Done([p EXCEPT !.text = Tail(@), !.open = TRUE], Head(p.text))
  ELSE IF ~p.shell \/ (p.open /\ p.nest = 0) THEN Done([p EXCEPT !.open = FALSE], EOF)
  ELSE IF p.more = <<>> THEN Done([p EXCEPT !.st = "wait"], EOF)
  ELSE Done([p EXCEPT !.text = Tail(Head(p.more)), !.more = Tail(@), !.open = TRUE], Head(Head(p.more)))

(* read_char() inside a comment, which only a new line ends.               *)
RECURSIVE Comment(_)
Comment(p) ==
  LET r == Helper(p)
  IN IF r.v = "\n" \/ r.p.st # "ok" THEN r
     ELSE IF r.v = EOF THEN Done([r.p EXCEPT !.st = "hang"], EOF)
     ELSE Comment(r.p)

read_char(p) ==
  LET r == IF p.back # "" THEN Done([p EXCEPT !.back = ""], p.back) ELSE Helper(p)
  IN IF r.v = "#" /\ ~p.ignore THEN Comment(r.p) ELSE r

return_char(p, ch) == [p EXCEPT !.back = ch]
unexpected_char(p) == [p EXCEPT !.st = IF @ = "ok" THEN "error" ELSE @]

RECURSIVE Expect(_, _)
Expect(p, word) ==
  LET r == read_char(p)
  IN IF word = <<>> THEN p
     ELSE IF r.v # Head(word) THEN unexpected_char(r.p) ELSE Expect(r.p, Tail(word))

RECURSIVE IntegerDigits(_, _, _, _)
IntegerDigits(p, ch, base, value) ==
  LET r == read_char(p)
  IN IF DigitValue(ch) >= base THEN Done(return_char(p, ch), Value("integer", value))
     ELSE IntegerDigits(r.p, r.v, base, (value * base + DigitValue(ch)) % INT_MOD)

parse_integer(p, ch) ==
  LET x == read_char(p)
      d == read_char(x.p)
  IN IF ch # "0" THEN IntegerDigits(p, ch, 10, 0)
     ELSE IF x.v = "x" THEN IntegerDigits(d.p, d.v, 16, 0) ELSE IntegerDigits(x.p, x.v, 8, 0)

(* The end of the file in a string: the error comes before temp_buf_idx is *)
(* reset.                                                                  *)
RECURSIVE StringChars(_, _)
StringChars(p, escaped) ==
  LET r == read_char(p)
      q == r.p
  IN IF r.v = EOF THEN Done([unexpected_char(q) EXCEPT !.temp = IF p.returns THEN <<>> ELSE @], NoValue)
     ELSE IF ~escaped /\ r.v = "\"" THEN Done([q EXCEPT !.ignore = FALSE, !.temp = <<>>], Value("string", q.temp))
     ELSE IF ~escaped /\ r.v = "\\" THEN StringChars(q, TRUE)
     ELSE StringChars([q EXCEPT !.temp = Append(@, r.v)], FALSE)
parse_string(p) == StringChars([p EXCEPT !.ignore = TRUE], FALSE)

RECURSIVE parse_variable_name(_)
parse_variable_name(p) ==
  LET r == read_char(p)
  IN IF IsName(r.v) THEN parse_variable_name([r.p EXCEPT !.temp = Append(@, r.v)])
     ELSE IF p.temp = <<>> THEN Done(unexpected_char(r.p), NoValue)
     ELSE Done([return_char(r.p, r.v) EXCEPT !.temp = <<>>], Value("reference", p.temp))

Nested(p) == [p EXCEPT !.nest = @ + 1]
Unnested(r, type) == Done([r.p EXCEPT !.nest = @ - 1], Value(type, r.v))

RECURSIVE ValueList(_, _, _, _, _), CommandList(_, _)

(* The value that begins with ch.                                          *)
ParseValue(p, ch) ==
  CASE IsDigit(ch) -> parse_integer(p, ch)
    [] ch = "t" -> Done(Expect(p, <<"r", "u", "e">>), Value("boolean", TRUE))
    [] ch = "f" -> Done(Expect(p, <<"a", "l", "s", "e">>), Value("boolean", FALSE))
    [] ch = "\"" -> LET r == parse_string(Nested(p)) IN Done([r.p EXCEPT !.nest = @ - 1], r.v)
    [] ch = "[" -> Unnested(ValueList(Nested(p), FALSE, <<>>, FALSE, FALSE), "list")
    [] ch = "{" -> Unnested(CommandList(Nested(p), <<>>), "commands")
    [] ch = "$" -> parse_variable_name(p)
    [] OTHER -> Done(unexpected_char(p), NoValue)

(* parse_value_list(): the arguments of a command, or a list.              *)
AddValue(value, command, values) ==
  IF value.p.st # "ok" THEN Done(value.p, values)
  ELSE ValueList(value.p, command, Append(values, value.v), FALSE, TRUE)
ValueList(p, command, values, escaped, need_space) ==
  LET r == read_char(p)
  IN IF r.p.st # "ok" THEN r
     ELSE IF ~escaped /\ r.v = "\\" THEN ValueList(r.p, command, values, TRUE, need_space)
     ELSE IF ~escaped /\ command /\ r.v \in {"\n", EOF} THEN Done(r.p, values)
     ELSE IF command /\ r.v = "}" THEN Done(return_char(r.p, r.v), values)
     ELSE IF ~command /\ r.v = "]" THEN Done(r.p, values)
     ELSE IF r.v \in Spaces THEN ValueList(r.p, command, values, FALSE, FALSE)
     ELSE IF need_space THEN Done(unexpected_char(r.p), values)
     ELSE AddValue(ParseValue(r.p, r.v), command, values)

(* parse_command_list().                                                   *)
AddCommand(args, name, commands) ==
  IF args.p.st # "ok" THEN Done(args.p, commands)
  ELSE CommandList(args.p, Append(commands, [name |-> name, args |-> args.v]))
CommandList(p, commands) ==
  LET endch == IF p.nest > 0 THEN "}" ELSE EOF
      r == read_char(p)
  IN IF r.p.st # "ok" THEN r
     ELSE IF p.temp = <<>> /\ r.v = endch THEN Done(r.p, commands)
     ELSE IF p.temp = <<>> /\ r.v \in Spaces THEN CommandList(r.p, commands)
     ELSE IF r.v = endch \/ r.v \in Spaces
          THEN AddCommand(ValueList([return_char(r.p, r.v) EXCEPT !.temp = <<>>], TRUE, <<>>, FALSE, FALSE),
                          p.temp, commands)
     ELSE IF r.v = EOF THEN Done(unexpected_char(r.p), commands)
     ELSE CommandList([r.p EXCEPT !.temp = Append(@, r.v)], commands)

(* config_parse() of a file, and of what is typed into the shell: what is  *)
(* left in temp_buf from an earlier parse is still there.                  *)
Parsed(r, returns) ==
  [status |-> r.p.st, commands |-> IF r.p.st = "ok" THEN r.v ELSE <<>>, more |-> r.p.more,
   temp |-> IF returns THEN r.p.temp ELSE [i \in DOMAIN r.p.temp |-> "?"]]
config_parse(text, lines, shell, temp, returns) ==
  Parsed(CommandList([text |-> text, more |-> lines, shell |-> shell, open |-> FALSE, back |-> "", nest |-> 0,
                      ignore |-> FALSE, temp |-> temp, returns |-> returns, st |-> "ok"], <<>>), returns)

(* parse_config_file(): up to a null byte, without carriage returns.       *)
FileText(text) ==
  LET end == {i \in DOMAIN text : text[i] = "\\0"}
      size == IF end = {} THEN Len(text) ELSE (CHOOSE i \in end : \A j \in end : i <= j) - 1
  IN SelectSeq(SubSeq(text, 1, size), LAMBDA ch : ch # "\r")

-----------------------------------------------------------------------------
(* value_substitute(): vars gives the value of each variable there is.     *)
Stringify(value) ==
  LET text == CASE value.type = "integer" -> <<ToString(value.v)>>
                [] value.type = "boolean" -> <<IF value.v THEN "true" ELSE "false">>
                [] OTHER -> value.v
  IN SubSeq(text, 1, IF Len(text) < TEMP_BUF_LEN THEN Len(text) ELSE TEMP_BUF_LEN - 1)

RECURSIVE SubstituteString(_, _, _, _)
SubstituteString(str, i, start, vars) ==
  LET name == SubSeq(str, start, i - 1)
      prefix == SubSeq(str, 1, start - 3)
      text == Stringify(vars[name])
  IN IF i > Len(str) THEN Done("ok", Value("string", str))
     ELSE IF start = 0
          THEN IF str[i] = "$" /\ i < Len(str) /\ str[i + 1] = "{"
               THEN SubstituteString(str, i + 2, i + 2, vars) ELSE SubstituteString(str, i + 1, 0, vars)
     ELSE IF IsName(str[i]) THEN SubstituteString(str, i + 1, start, vars)
     ELSE IF str[i] # "}" THEN SubstituteString(str, i + 1, 0, vars)
     ELSE IF name \notin DOMAIN vars \/ vars[name].type \notin {"integer", "boolean", "string"}
          THEN Done("error", Value("string", str))
     ELSE SubstituteString(prefix \o text \o SubSeq(str, i + 1, Len(str)), Len(prefix) + Len(text) + 1, 0, vars)

RECURSIVE value_substitute(_, _)
value_substitute(value, vars) ==
  CASE value.type = "reference" -> IF value.v \in DOMAIN vars THEN Done("ok", vars[value.v]) ELSE Done("error", value)
    [] value.type = "string" -> SubstituteString(value.v, 1, 0, vars)
    [] value.type = "list" ->
         LET each == [i \in DOMAIN value.v |-> value_substitute(value.v[i], vars)]
         IN Done(IF \A i \in DOMAIN each : each[i].p = "ok" THEN "ok" ELSE "error",
                 Value("list", [i \in DOMAIN each |-> each[i].v]))
    [] OTHER -> Done("ok", value)
=============================================================================
