------------------------------- MODULE FanOut -------------------------------
(* What a caller of the agent may rely on, whatever the messages and        *)
(* transports: one request is a list of items served one after the other.   *)
(* An item is reached (something was sent to it) only after every item      *)
(* before it is done, a live request is accepted only when every item was   *)
(* reached, a dry run reaches nothing, and nothing is reached once the      *)
(* request has been answered.  Dispatch (console targets) and Notifier      *)
(* (Discord channels) implement this.                                       *)
EXTENDS Naturals

VARIABLES
  live,      \* not a dry run
  size,      \* number of items
  done,      \* items finished
  reached,   \* items that were sent something
  verdict    \* "idle", "open" while being served, then the answer

fanOut == <<live, size, done, reached, verdict>>

Init ==
  /\ live = FALSE
  /\ size = 0
  /\ done = 0
  /\ reached = {}
  /\ verdict = "idle"

(* A request arrives; it may be refused outright. *)
Start ==
  /\ verdict # "open"
  /\ live' \in BOOLEAN
  /\ size' \in Nat
  /\ done' = 0
  /\ reached' = {}
  /\ verdict' \in {"open", "rejected"}

Reach ==
  /\ verdict = "open"
  /\ live
  /\ done < size
  /\ reached' = reached \cup {done + 1}
  /\ UNCHANGED <<live, size, done, verdict>>

(* Items are done in order; a dry run may report several at once.           *)
Complete ==
  /\ verdict = "open"
  /\ \E d \in (done + 1)..size :
       /\ live => (done + 1)..d \subseteq reached
       /\ done' = d
  /\ UNCHANGED <<live, size, reached, verdict>>

Accept ==
  /\ verdict = "open"
  /\ done = size
  /\ verdict' = "accepted"
  /\ UNCHANGED <<live, size, done, reached>>

Reject ==
  /\ verdict = "open"
  /\ verdict' = "rejected"
  /\ UNCHANGED <<live, size, done, reached>>

Next == Start \/ Reach \/ Complete \/ Accept \/ Reject

Spec == Init /\ [][Next]_fanOut

=============================================================================
