----------------------------- MODULE Rendering ------------------------------
(* How a message becomes a console command: executeBroadcastTemplate with   *)
(* quoteConsoleMessage and quoteLuaString (internal/service/broadcast.go).  *)
(* A text is a sequence of characters.  The readers below are what the      *)
(* consoles do with a quoted argument.                                      *)
EXTENDS Naturals, SequencesExt

CONSTANTS
  Letters,     \* characters without meaning for either quoting
  MaxLength    \* bound on the length of a message

Quote == "\""
Backslash == "\\"
White == {" ", "\n", "\t", "\r"}
Chars == Letters \cup White \cup {Quote, Backslash}

VARIABLES
  message,     \* the message of the last broadcast
  template,    \* the function its template applies to the message
  argument     \* what that function made of it

vars == <<message, template, argument>>

Black(m) == {i \in DOMAIN m : m[i] \notin White}

TrimSpace(m) == IF Black(m) = {} THEN <<>> ELSE SubSeq(m, Min(Black(m)), Max(Black(m)))

(* strings.Fields, counted. *)
Fields(m) == Cardinality({i \in Black(m) : i - 1 \notin Black(m)})

Letter(c) == CASE c = "\n" -> "n" [] c = "\r" -> "r" [] c = "\t" -> "t" [] OTHER -> c

(* Quotes and controls are escaped, the backslash is left as it is.         *)
EscapeNoBackslash(c) ==
  IF c \in {Quote, "\n", "\r", "\t"} THEN <<Backslash, Letter(c)>> ELSE <<c>>

(* The escapes strconv.Quote and quoteLuaString have in common, which are   *)
(* all there are for these characters.                                      *)
Escape(c) ==
  IF c \in {Quote, Backslash, "\n", "\r", "\t"} THEN <<Backslash, Letter(c)>> ELSE <<c>>

Quoted(m) == <<Quote>> \o FlattenSeq([i \in DOMAIN m |-> Escape(m[i])]) \o <<Quote>>

(* Only a message with blanks in it is quoted.                              *)
quoteWhenSpaced(value) ==
  LET m == TrimSpace(value) IN IF " " \in ToSet(m) THEN Quoted(m) ELSE m

(* A message of one word goes out as it is.                                 *)
quoteConsoleMessage(value) ==
  LET m == TrimSpace(value) IN IF Fields(m) <= 1 THEN m ELSE Quoted(m)

quoteLuaString(value) == Quoted(value)

executeBroadcastTemplate(f, m) ==
  IF f = "consoleMessage" THEN quoteConsoleMessage(m) ELSE quoteLuaString(m)

Init == message = <<>> /\ template = "consoleMessage" /\ argument = <<>>

(* Broadcast trims the message and refuses an empty one.                    *)
Broadcast(raw, f) ==
  /\ TrimSpace(raw) # <<>>
  /\ message' = TrimSpace(raw)
  /\ template' = f
  /\ argument' = executeBroadcastTemplate(f, message')

Messages == UNION {[1..n -> Chars] : n \in 0..MaxLength}

Next == \E raw \in Messages, f \in {"consoleMessage", "quoteLua"} : Broadcast(raw, f)

Spec == Init /\ [][Next]_vars

-----------------------------------------------------------------------------
(* Properties                                                               *)

Named(c) == CASE c = "n" -> "\n" [] c = "r" -> "\r" [] c = "t" -> "\t" [] OTHER -> c

(* A reader takes a quoted text character by character: it waits for the    *)
(* quote that opens it, is within the text, or just after a backslash, and   *)
(* has finished at the next quote that no backslash makes literal, after     *)
(* which nothing may follow.                                                *)
Opening == [place |-> "before", said |-> <<>>]

Hear(reader, c) ==
  CASE reader.place = "before" /\ c = Quote -> [reader EXCEPT !.place = "within"]
    [] reader.place = "within" /\ c = Quote -> [reader EXCEPT !.place = "after"]
    [] reader.place = "within" /\ c = Backslash -> [reader EXCEPT !.place = "escape"]
    [] reader.place = "within" /\ c \notin {Quote, Backslash} -> [reader EXCEPT !.said = Append(@, c)]
    [] reader.place = "escape" -> [place |-> "within", said |-> Append(reader.said, Named(c))]
    [] OTHER -> [reader EXCEPT !.place = "astray"]

(* The reader when the text has ended. *)
Heard(text) ==
  LET reader[i \in 0..Len(text)] ==
        IF i = 0 THEN Opening ELSE Hear(reader[i - 1], text[i])
  IN  reader[Len(text)]

Reads(text, m) == Heard(text) = [place |-> "after", said |-> m]

(* What the players see is what was sent: a quoted message reads back as it  *)
(* was, with quotes, backslashes and line breaks in it; a message that is    *)
(* not quoted is one word and unchanged.  Consoles read lines, so a message  *)
(* of several lines is still one line of the command.                        *)
MessageArrives ==
  argument # <<>> =>
    /\ {"\n", "\r"} \cap ToSet(argument) = {}
    /\ \/ Reads(argument, message)
       \/ template = "consoleMessage" /\ argument = message /\ White \cap ToSet(message) = {}

=============================================================================
