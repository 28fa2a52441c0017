------------------------------- MODULE MCHttp -------------------------------
(* Two requests and one relay for checking Http with TLC.                   *)
EXTENDS Http

Sent(route, allowed, json, tail) ==
  [route |-> route, allowed |-> allowed, json |-> json, tail |-> tail]

(* The first is a console request that is served; the second is anything.   *)
MCInputs(r) ==
  {Sent("console", TRUE, TRUE, TRUE)} \cup
  IF r = "r1" THEN {}
  ELSE {Sent("notify", TRUE, TRUE, FALSE), Sent("notify", TRUE, FALSE, FALSE),
        Sent("console", FALSE, TRUE, FALSE), Sent("healthz", TRUE, FALSE, FALSE),
        Sent("swagger", TRUE, FALSE, FALSE), Sent("other", FALSE, FALSE, FALSE)}

=============================================================================
