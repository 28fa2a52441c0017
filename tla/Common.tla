------------------------------- MODULE Common -------------------------------
(* The vocabulary shared by the modules: the record types of                *)
(* internal/service/docker.go.                                              *)
EXTENDS Naturals, Sequences

Blank == ""        \* a string that is empty after strings.TrimSpace

BroadcastTransport == {"docker", "rcon", "telnet"}

BroadcastTarget(games) ==
  [ref : STRING, transport : BroadcastTransport, game : games,
   addr : STRING, pass : STRING]

BroadcastDelivery(games) ==
  [ref : STRING, transport : BroadcastTransport, game : games, sent : BOOLEAN]

(* The elements of s at the places in I, in their order: what the loops over *)
(* lists leave of them.  SelectSeq with a set for the test, so that one      *)
(* lemma tells what it does.                                                 *)
Select(s, I) ==
  LET chosen[i \in 0..Len(s)] ==
        IF i = 0 THEN <<>>
        ELSE IF i \in I THEN Append(chosen[i - 1], s[i]) ELSE chosen[i - 1]
  IN  chosen[Len(s)]

=============================================================================
