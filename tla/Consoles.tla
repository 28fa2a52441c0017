------------------------------ MODULE Consoles -------------------------------
(* The parameters of the three console clients, Rcon, Telnet and Attach.    *)
EXTENDS Integers, Sequences

CONSTANTS
  AuthID, ExecID,   \* packet ids of log-ins and commands (rcon library)
  MaxChunks,        \* bound on the chunks of a reply
  MaxWire,          \* bound on what is on its way to the telnet client at once
  Callers,          \* goroutines sending a command to one container
  Noise,            \* a line of the container's own
  MaxOutput         \* bound on the lines one attachment collects

Foreign == 77       \* a packet id that is neither AuthID nor ExecID nor a refusal

ASSUME PacketAssumption == {AuthID, ExecID} \subseteq Nat \ {Foreign}

ASSUME NoiseAssumption == Noise \notin Callers

ASSUME BoundAssumption == MaxChunks \in Nat /\ MaxWire \in Nat \ {0} /\ MaxOutput \in Nat

=============================================================================
