------------------------------- MODULE EnvFile -------------------------------
(* LoadEnvFile (internal/config/config.go), line by line.                   *)
(*                                                                          *)
(* A line, trimmed and without its "export ", is skipped (a comment, blank, *)
(* or without "="), too long for the scanner, or a pair of a key, which may *)
(* be Blank, and a value.  A value is a text between two marks, each a kind *)
(* of quote or Blank.                                                       *)
EXTENDS Common

CONSTANTS
  Keys,       \* names of variables
  Files,      \* contents of .env, a missing file being an empty one
  Processes   \* process environments: functions from some keys to values

VARIABLES
  process,   \* the environment the process was started in
  file,      \* the lines of .env
  next,      \* the line to be read
  env,       \* the environment as it is now
  status     \* "reading", then "loaded" or "failed"

vars == <<process, file, next, env, status>>

Init ==
  /\ process \in Processes
  /\ file \in Files
  /\ next = 1
  /\ env = process
  /\ status = "reading"

(* Quotes that match are taken off.                                         *)
trimQuotes(v) ==
  IF v.open # Blank /\ v.open = v.close THEN [v EXCEPT !.open = Blank, !.close = Blank] ELSE v

(* os.Getenv in place of os.LookupEnv: a variable set to nothing is not set. *)
SetsIfEmpty(line) ==
  /\ line.kind = "pair" /\ line.key # Blank
  /\ line.key \in DOMAIN env => env[line.key].text = Blank

Sets(line) ==
  line.kind = "pair" /\ line.key # Blank /\ line.key \notin DOMAIN env

ReadLine ==
  /\ status = "reading" /\ next <= Len(file)
  /\ LET line == file[next]
     IN  /\ env' = IF Sets(line)
                   THEN [k \in DOMAIN env \cup {line.key} |->
                           IF k = line.key THEN trimQuotes(line.value) ELSE env[k]]
                   ELSE env
         /\ status' = IF line.kind = "long" THEN "failed" ELSE status
  /\ next' = next + 1
  /\ UNCHANGED <<process, file>>

EndOfFile ==
  /\ status = "reading" /\ next > Len(file)
  /\ status' = "loaded"
  /\ UNCHANGED <<process, file, next, env>>

(* The agent is started again, nothing of the last start being left. *)
Restart ==
  /\ status # "reading"
  /\ next' = 1
  /\ env' = process
  /\ status' = "reading"
  /\ UNCHANGED <<process, file>>

Next == ReadLine \/ EndOfFile \/ Restart

Spec == Init /\ [][Next]_vars

-----------------------------------------------------------------------------
(* Properties                                                               *)

(* "Existing process environment variables take precedence" (README.md:32):  *)
(* a variable of the process keeps its value, a blank one included, whatever *)
(* the file says and however often.  Once the file is loaded, every other    *)
(* variable is what the first line for it says, without its quotes, and      *)
(* nothing else is set; a file that cannot be read to its end is never taken *)
(* for a complete one.                                                       *)
FileFillsTheGaps ==
  /\ \A k \in DOMAIN process : k \in DOMAIN env /\ env[k] = process[k]
  /\ status = "loaded" =>
       LET Lines(k) == {i \in DOMAIN file : file[i].kind = "pair" /\ file[i].key = k}
       IN  /\ \A i \in DOMAIN file : file[i].kind # "long"
           /\ \A k \in Keys \ DOMAIN process :
                IF Lines(k) = {} THEN k \notin DOMAIN env
                ELSE /\ k \in DOMAIN env
                     /\ \E i \in Lines(k) : /\ \A j \in Lines(k) : i <= j
                                            /\ env[k] = trimQuotes(file[i].value)

=============================================================================
