-------------------------- MODULE TargetResolution --------------------------
(* The agent is started in some environment, builds its DockerCommander and *)
(* then resolves the targets of requests (internal/service/broadcast.go).   *)
EXTENDS Targets

CONSTANTS
  Envs,        \* environments the agent may be started in
  Queries      \* requests

VARIABLES
  env,         \* the environment main() read
  commander,   \* the DockerCommander built from it
  query,       \* the last request
  resolved     \* its targets

vars == <<env, commander, query, resolved>>

Init ==
  /\ env \in Envs
  /\ commander = NewDockerCommander(FromEnv(env))
  /\ query \in Queries
  /\ resolved = <<>>

Broadcast(q) ==
  /\ query' = q
  /\ resolved' = resolveBroadcastTargets(commander, q)
  /\ UNCHANGED <<env, commander>>

Send(q) ==
  /\ query' = q
  /\ resolved' = resolveCommandTargets(commander, q)
  /\ UNCHANGED <<env, commander>>

Next == \E q \in Queries : Broadcast(q) \/ Send(q)

Spec == Init /\ [][Next]_vars

-----------------------------------------------------------------------------
(* Properties                                                               *)

TypeOK ==
  /\ commander.defaultConsoleTargets \in Seq(BroadcastTarget(STRING))
  /\ commander.defaultRCONTargets \in Seq(BroadcastTarget(STRING))
  /\ resolved \in Seq(BroadcastTarget(STRING))

(* No container is targeted twice by one request, whichever of the           *)
(* container fields and default lists name it: a repeated ref would run the  *)
(* command twice.                                                            *)
EachContainerOnce == IsInjective([i \in DOMAIN resolved |-> resolved[i].ref])

(* A target with the request's address and password, where it gives them;    *)
(* Docker needs neither.                                                     *)
Overridden(t) ==
  [t EXCEPT !.addr = IF query.addr = Blank \/ t.transport = "docker" THEN @ ELSE query.addr,
            !.pass = IF query.pass = Blank \/ t.transport = "docker" THEN @ ELSE query.pass]

(* Naming the default containers one by one gives the targets that naming    *)
(* none gives, in their order: the two resolution paths (lookup maps, merged *)
(* default lists) agree on which of the two default lists a container        *)
(* belongs to.  They differ in one thing only: the address and password of   *)
(* the request count for the containers it names, and are ignored where it   *)
(* names none.                                                               *)
NamingDefaultsOnlyOverrides ==
  LET unnamed == [query EXCEPT !.refs = <<>>]
      all == resolveTargets(commander, unnamed, query.game)
      named == <<[i \in DOMAIN all |-> all[i].ref]>>
      explicit == resolveTargets(commander, [query EXCEPT !.refs = named], query.game)
      plain == [unnamed EXCEPT !.addr = Blank, !.pass = Blank]
  IN  /\ explicit = [i \in DOMAIN all |-> Overridden(all[i])]
      /\ all = resolveTargets(commander, plain, query.game)

(* What the operator wrote for a setting, and in the row of a given name.    *)
Listed(setting) == env[setting][1] \o env[setting][2]

Row(r) == CHOOSE i \in DOMAIN Listed("RCON_DEFAULT_CONTAINER_NAMES") :
            Listed("RCON_DEFAULT_CONTAINER_NAMES")[i] = r

Written(setting, r) == Entry(Listed(setting), Row(r))

(* The containers that the last request names.                               *)
NamedByQuery == ToSet(FlattenSeq(query.refs))

(* The address or password a target must have: the one of the request, if    *)
(* the request gives one and names the container, else that of its row.      *)
Due(t, override, setting) ==
  IF override # Blank /\ t.ref \in NamedByQuery THEN override ELSE Written(setting, t.ref)

(* Every target is reached the way the operator wrote in its own row of the  *)
(* RCON_DEFAULT_CONTAINER_* lists, which are "aligned by position" with the  *)
(* names: transport, address and password of one server are never dropped    *)
(* and never used for another, and the request replaces address or password  *)
(* only with something, and only of containers it names.                     *)
AlignedByPosition ==
  \A i \in DOMAIN resolved :
    LET t == resolved[i]
    IN  IF t.ref \in ToSet(Listed("RCON_DEFAULT_CONTAINER_NAMES"))
        THEN /\ t.transport = normalizeTargetTransport(Written("RCON_DEFAULT_CONTAINER_TRANSPORTS", t.ref))
             /\ t.transport # "docker" =>
                  /\ t.addr = Due(t, query.addr, "RCON_DEFAULT_CONTAINER_ADDRESSES")
                  /\ t.pass = Due(t, query.pass, "RCON_DEFAULT_CONTAINER_PASSWORDS")
        ELSE t.transport = "docker" /\ t.addr = Blank /\ t.pass = Blank

=============================================================================
