------------------------------- MODULE Targets -------------------------------
(* Where a command or a broadcast goes: the target lists NewDockerCommander *)
(* builds from the configuration and their resolution for one request       *)
(* (internal/service/broadcast.go).                                         *)
(*                                                                          *)
(* A request names its containers in q.refs, the values of container_id,    *)
(* container_ids, container_name and container_names in that order, each    *)
(* split into parts as in Config.  q.addr and q.pass are the rcon override, *)
(* Blank where the request has none.                                        *)
EXTENDS Config

normalizeContainerRefs(values) == DistinctParts(values)

(* Anything but the two other names, the empty string included, is docker.  *)
normalizeTargetTransport(value) ==
  IF value \in {"rcon", "telnet"} THEN value ELSE "docker"

normalizeConfiguredConnectionTransport(value) == normalizeTargetTransport(value)

Entry(list, i) == IF i \in DOMAIN list THEN list[i] ELSE Blank

buildDefaultBroadcastTargets(ids, names) ==
  LET refs == normalizeContainerRefs(<<ids, names>>)
  IN  [i \in DOMAIN refs |->
         [ref |-> refs[i], transport |-> "docker", game |-> Blank,
          addr |-> Blank, pass |-> Blank]]

(* A list shorter than the names: its last entry serves the rest.           *)
EntryOrLast(list, i) == IF list = <<>> THEN Blank ELSE list[Min({i, Len(list)})]

repeatLastRCONTargets(names, transports, addresses, passwords) ==
  LET refs == normalizeContainerRefs(<<names>>)
  IN  [i \in DOMAIN refs |->
         [ref |-> refs[i], game |-> Blank,
          transport |-> normalizeConfiguredConnectionTransport(EntryOrLast(transports, i)),
          addr |-> EntryOrLast(addresses, i), pass |-> EntryOrLast(passwords, i)]]

buildDefaultRCONTargets(names, transports, addresses, passwords) ==
  LET refs == normalizeContainerRefs(<<names>>)
  IN  [i \in DOMAIN refs |->
         [ref |-> refs[i], game |-> Blank,
          transport |-> normalizeConfiguredConnectionTransport(Entry(transports, i)),
          addr |-> Entry(addresses, i), pass |-> Entry(passwords, i)]]

Refs(ts) == {ts[i].ref : i \in DOMAIN ts}

(* A map from ref to target: of two targets with one ref the last wins.     *)
buildBroadcastTargetLookup(ts) ==
  [r \in Refs(ts) |-> ts[Max({i \in DOMAIN ts : ts[i].ref = r})]]

NewDockerCommander(cfg) ==
  LET console == buildDefaultBroadcastTargets(<<>>, cfg["DOCKER_DEFAULT_CONTAINER_NAMES"])
      rcon == buildDefaultRCONTargets(cfg["RCON_DEFAULT_CONTAINER_NAMES"],
                                      cfg["RCON_DEFAULT_CONTAINER_TRANSPORTS"],
                                      cfg["RCON_DEFAULT_CONTAINER_ADDRESSES"],
                                      cfg["RCON_DEFAULT_CONTAINER_PASSWORDS"])
  IN  [defaultConsoleTargets |-> console,
       defaultRCONTargets |-> rcon,
       defaultConsoleByRef |-> buildBroadcastTargetLookup(console),
       defaultRCONByRef |-> buildBroadcastTargetLookup(rcon)]

(* The RCON targets only fill up the console targets.                       *)
mergeKeepingConsole(console, rcon) ==
  console \o Select(rcon, {i \in DOMAIN rcon : rcon[i].ref \notin Refs(console)})

(* The console targets in their order, each replaced by the RCON target of  *)
(* the same ref if there is one, then the RCON targets that replaced none.  *)
mergeDefaultTargetsPreferRCON(console, rcon) ==
  LET rconByRef == buildBroadcastTargetLookup(rcon)
      Preferred(t) == IF t.ref \in DOMAIN rconByRef THEN rconByRef[t.ref] ELSE t
      seen == Refs(console)
  IN  [i \in DOMAIN console |-> Preferred(console[i])]
        \o Select(rcon, {i \in DOMAIN rcon : rcon[i].ref \notin seen})

WithGame(t, g) == IF g = Blank THEN t ELSE [t EXCEPT !.game = g]

WithCredentials(t, q) ==
  IF t.transport = "docker" THEN t
  ELSE [t EXCEPT !.addr = IF q.addr = Blank THEN @ ELSE q.addr,
                 !.pass = IF q.pass = Blank THEN @ ELSE q.pass]

buildTargetsForRefs(refs, g, q, consoleByRef, rconByRef) ==
  LET Known(r) == IF r \in DOMAIN rconByRef THEN rconByRef[r]
                  ELSE IF r \in DOMAIN consoleByRef THEN consoleByRef[r]
                  ELSE [ref |-> r, transport |-> "docker", game |-> Blank,
                        addr |-> Blank, pass |-> Blank]
  IN  [i \in DOMAIN refs |-> WithCredentials(WithGame(Known(refs[i]), g), q)]

(* resolveBroadcastTargets; resolveCommandTargets is the same with no game. *)
resolveTargets(d, q, g) ==
  LET refs == normalizeContainerRefs(q.refs)
      all == mergeDefaultTargetsPreferRCON(d.defaultConsoleTargets, d.defaultRCONTargets)
  IN  IF refs # <<>>
      THEN buildTargetsForRefs(refs, g, q, d.defaultConsoleByRef, d.defaultRCONByRef)
      ELSE [i \in DOMAIN all |-> WithGame(all[i], g)]

filterTargetsByTransport(ts, transport) ==
  Select(ts, {i \in DOMAIN ts : normalizeTargetTransport(ts[i].transport) = transport})

(* Broadcast: parseRequestedTransport, then the filter. *)
resolveBroadcastTargets(d, q) ==
  LET ts == resolveTargets(d, q, q.game)
  IN  IF q.transport = Blank THEN ts
      ELSE filterTargetsByTransport(ts, normalizeTargetTransport(q.transport))

resolveCommandTargets(d, q) == resolveTargets(d, q, Blank)

=============================================================================
