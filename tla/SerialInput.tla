----------------------------- MODULE SerialInput -----------------------------
(***************************************************************************)
(* The input side of the serial console (drivers/console/serial.c): the    *)
(* bytes a terminal sends for a key become that key again.  An escape      *)
(* begins a sequence, or is the key itself when nothing follows it for a   *)
(* tenth of a second.                                                      *)
(*                                                                         *)
(* Time passes in ticks.  The bytes of a key arrive one after the other in *)
(* less than the timeout, and whoever pressed Escape waits until it has    *)
(* had its effect.  But the loader may be late to read what has arrived:   *)
(* it draws between two polls, over the same slow line.                    *)
(***************************************************************************)
EXTENDS Integers, Sequences, SequencesExt, TLC

CONSTANTS
  Timeout,    \* ticks that make an escape a key of its own
  TypedKeys,  \* the keys that are pressed
  MaxTyped    \* bound: how many

ASSUME LineAssumption == Timeout \in Nat \ {0, 1} /\ MaxTyped \in Nat \ {0}

VARIABLES
  air,    \* bytes sent and not received yet
  wire,   \* bytes received and not read yet
  port,   \* what serial_port_t keeps: next_ch, esc_len and esc_buffer, age: since esc_time
  sent,   \* the keys pressed
  got,    \* the keys serial_console_getc() returned
  late    \* which of the keys pressed the loader was late to read the rest of
lineVars == <<air, wire, port, sent, got, late>>

ESC_BUFFER_LEN == 4

(* What the terminal sends.                                                *)
KeyBytes ==
  [up |-> <<"\\e", "[", "A">>, down |-> <<"\\e", "[", "B">>, left |-> <<"\\e", "[", "D">>,
   right |-> <<"\\e", "[", "C">>, home |-> <<"\\e", "[", "H">>, end |-> <<"\\e", "[", "F">>,
   F1 |-> <<"\\e", "O", "P">>, F2 |-> <<"\\e", "O", "Q">>, F3 |-> <<"\\e", "O", "R">>,
   F4 |-> <<"\\e", "O", "S">>, delete |-> <<"\\e", "[", "3", "~">>, F5 |-> <<"\\e", "[", "1", "5", "~">>,
   F6 |-> <<"\\e", "[", "1", "7", "~">>, F7 |-> <<"\\e", "[", "1", "8", "~">>,
   F8 |-> <<"\\e", "[", "1", "9", "~">>, F9 |-> <<"\\e", "[", "2", "0", "~">>,
   F10 |-> <<"\\e", "[", "2", "1", "~">>, enter |-> <<"\r">>, BS |-> <<"del">>, escape |-> <<"\\e">>]
BytesOf(key) == IF key \in DOMAIN KeyBytes THEN KeyBytes[key] ELSE <<key>>
AllBytes(keys) == FlattenSeq([i \in 1 .. Len(keys) |-> BytesOf(keys[i])])

(* The known sequences, each compared when esc_len is its length.          *)
KnownSequence(esc) ==
  LET bytes == KeyBytes IN {k \in DOMAIN bytes : Len(bytes[k]) > 1 /\ Tail(bytes[k]) = esc}
(* CR becomes NL, which is Enter, and DEL a backspace.                     *)
Translated(ch) == CASE ch = "\r" -> "enter" [] ch = "del" -> "BS" [] OTHER -> ch

Idle == [next |-> "none", inEscape |-> FALSE, esc |-> <<>>, age |-> 0]

EscapeByteMutant(p, esc) ==
  IF KnownSequence(esc) # {} THEN [p EXCEPT !.next = CHOOSE k \in KnownSequence(esc) : TRUE, !.esc = <<>>]
  ELSE IF Len(esc) = ESC_BUFFER_LEN THEN Idle
  ELSE [p EXCEPT !.esc = esc]
EscapeByte(p, esc) ==
  IF KnownSequence(esc) # {} THEN [Idle EXCEPT !.next = CHOOSE k \in KnownSequence(esc) : TRUE]
  ELSE IF Len(esc) = ESC_BUFFER_LEN THEN Idle
  ELSE [p EXCEPT !.esc = esc]
ReadByte(p, ch) ==
  IF p.inEscape THEN EscapeByte(p, Append(p.esc, ch))
  ELSE IF ch = "\\e" THEN [p EXCEPT !.inEscape = TRUE]
  ELSE [p EXCEPT !.next = ch]

(* The loop: bytes are read until there is a key or no more of them.       *)
RECURSIVE ReadBytes(_, _)
ReadBytes(p, bytes) ==
  IF bytes = <<>> \/ p.next # "none" THEN [port |-> p, left |-> bytes]
  ELSE ReadBytes(ReadByte(p, Translated(Head(bytes))), Tail(bytes))

EscapeExpired(p) == p.inEscape /\ p.esc = <<>> /\ p.age >= Timeout
PollResult(p, bytes) ==
  IF EscapeExpired(p) THEN [port |-> [Idle EXCEPT !.next = "escape"], left |-> bytes] ELSE ReadBytes(p, bytes)
-----------------------------------------------------------------------------
LineInit == air = <<>> /\ wire = <<>> /\ port = Idle /\ sent = <<>> /\ got = <<>> /\ late = {}

Press(key) ==
  /\ Len(sent) < MaxTyped /\ air = <<>>
  /\ sent # <<>> /\ Last(sent) = "escape" => AllBytes(got) = AllBytes(sent)
  /\ sent' = Append(sent, key) /\ air' = BytesOf(key)
  /\ UNCHANGED <<wire, port, got, late>>

Arrive ==
  /\ air # <<>>
  /\ wire' = Append(wire, Head(air)) /\ air' = Tail(air)
  /\ UNCHANGED <<port, sent, got, late>>

(* The key whose escape has been read is the one after those read whole.   *)
UnderWay == {i \in 1 .. Len(sent) : AllBytes(SubSeq(sent, 1, i - 1)) = AllBytes(got)}

Tick ==
  /\ port.inEscape /\ port.esc = <<>> /\ port.age < Timeout
  /\ port.age + 1 < Timeout \/ air = <<>>
  /\ port' = [port EXCEPT !.age = @ + 1]
  /\ late' = IF port'.age = Timeout /\ wire # <<>> THEN late \cup UnderWay ELSE late
  /\ UNCHANGED <<air, wire, sent, got>>

serial_console_poll ==
  /\ port.next = "none"
  /\ port' = PollResult(port, wire).port /\ wire' = PollResult(port, wire).left
  /\ UNCHANGED <<air, sent, got, late>>

serial_console_getc ==
  /\ port.next # "none"
  /\ got' = Append(got, port.next) /\ port' = [port EXCEPT !.next = "none"]
  /\ UNCHANGED <<air, wire, sent, late>>

LineNext == (\E key \in TypedKeys : Press(key)) \/ Arrive \/ Tick \/ serial_console_poll \/ serial_console_getc

(* The line delivers, time passes and the loader polls for a key; CanPoll  *)
(* is when serial_console_poll would change something.                     *)
CanPoll == port.next = "none" /\ (wire # <<>> \/ EscapeExpired(port))
LineFairness ==
  /\ WF_lineVars(Arrive) /\ WF_lineVars(Tick) /\ WF_lineVars(serial_console_getc)
  /\ <>[]CanPoll => []<><<serial_console_poll>>_lineVars

(* What the loader is to read of the first n keys: each key as it was      *)
(* pressed, but one that it was late for as Escape and the characters that *)
(* follow it in the sequence.                                              *)
Expected(n) ==
  FlattenSeq([i \in 1 .. n |-> IF i \in late THEN <<"escape">> \o Tail(BytesOf(sent[i])) ELSE <<sent[i]>>])

(* Every key that is pressed is read, as that key and in its turn, however *)
(* its bytes, the passing of time and the polls interleave.  A sequence is *)
(* broken up only when the timeout passes between two polls with its rest  *)
(* waiting, as serial_console_poll() looks at the time first; then too no  *)
(* byte is lost, and the keys that follow are whole again.                 *)
KeysArrive ==
  \A n \in 1 .. MaxTyped : (Len(sent) >= n) ~> (Len(sent) >= n /\ IsPrefix(Expected(n), got))
=============================================================================
