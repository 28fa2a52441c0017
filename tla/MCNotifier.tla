----------------------------- MODULE MCNotifier -----------------------------
(* Requests and default channels for checking Notifier with TLC.            *)
EXTENDS Notifier

Defaults == <<<<"ops", "news">>, <<"ops">>>>

Said(channels, body, query) ==
  [message |-> "hi", channels |-> channels, dryBody |-> body, dryQuery |-> query]

(* Default channels, one channel, and three values with repeated and blank  *)
(* parts; dry runs in the body, in the query and against each other.        *)
AllRequests ==
  { Said(<<>>, FALSE, ""), Said(<<<<"">>>>, TRUE, "false"),
    Said(<<<<"ops">>>>, FALSE, "true"), Said(<<<<"ops">>>>, TRUE, ""),
    Said(<<<<"ops">>, <<"dev", "ops">>, <<"", "dev">>>>, FALSE, ""),
    [Said(<<>>, FALSE, "") EXCEPT !.message = Blank] }

=============================================================================
