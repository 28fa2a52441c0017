----------------------------- MODULE MCDispatch -----------------------------
(* Dispatch with the targets of Targets and the game rules of GameMatch, in *)
(* two deployments, for TLC.                                                *)
EXTENDS Dispatch, Targets, GameMatch, TLC

-----------------------------------------------------------------------------
(* Games: what requests and Pelican say, and how GameMatch spells it.       *)

Spelling ==
  [g \in {Blank, "default", "Paper", "minecraft", "Valheim"} |->
     CASE g = Blank -> <<>>
       [] g = "Paper" -> << <<"paper">> >>
       [] g = "Valheim" -> << <<"valheim">> >>
       [] OTHER -> << <<g>> >>]

MCGames == DOMAIN Spelling

EggNames == {"Paper", "Valheim"}

TemplateGames ==
  [g \in MCGames |->
     CHOOSE h \in MCGames : Spelling[h] = BroadcastGame(Spelling[g], FALSE)]

(* DOCKER_FALLBACK_GAME_TYPES=minecraft *)
FallbackGames ==
  {g \in MCGames :
     shouldFallbackToDocker(buildGameAllowlist({Spelling["minecraft"]}), Spelling[g])}

MCTemplateGame(g) == TemplateGames[g]
MCFallbackGame(g) == g \in FallbackGames

(* DOCKER_FALLBACK_GAME_TYPES unset *)
EveryGame(g) == shouldFallbackToDocker(buildGameAllowlist({}), Spelling[g])

-----------------------------------------------------------------------------
(* Deployments.  In the first, "mc" is a telnet server that also has a      *)
(* default console and "pal" an RCON server.  In the second, "pal" has all  *)
(* it takes and a default console besides, "mc" lacks its password, "lobby" *)
(* is a Docker container and the Docker client could not be built.          *)

List(parts) == <<parts, <<>>>>

Commander(console, names, transports, addresses, passwords) ==
  NewDockerCommander(FromEnv(
    [DOCKER_DEFAULT_CONTAINER_NAMES |-> List(console),
     RCON_DEFAULT_CONTAINER_NAMES |-> List(names),
     RCON_DEFAULT_CONTAINER_TRANSPORTS |-> List(transports),
     RCON_DEFAULT_CONTAINER_ADDRESSES |-> List(addresses),
     RCON_DEFAULT_CONTAINER_PASSWORDS |-> List(passwords)]))

Fallbacks ==
  Commander(<<"mc">>, <<"mc", "pal">>, <<"telnet", "rcon">>,
            <<"mc:23", "pal:25575">>, <<"p", "q">>)

Misconfigured ==
  Commander(<<"lobby", "pal", "mc">>, <<"pal", "mc">>, <<"rcon", "telnet">>,
            <<"pal:25575", "mc:23">>, <<"p">>)

AllReady == [t \in BroadcastTransport |-> "ready"]
DockerBroken == [AllReady EXCEPT !["docker"] = "broken"]

Targeted(d, q) ==
  IF q.kind = "command" THEN resolveCommandTargets(d, q)
  ELSE resolveBroadcastTargets(d, q)

ConsolesOf(d) == DOMAIN d.defaultConsoleByRef
ConsolesFallbacks == ConsolesOf(Fallbacks)
ConsolesMisconfigured == ConsolesOf(Misconfigured)

-----------------------------------------------------------------------------
(* Requests.                                                                *)

Plain(kind) ==
  [kind |-> kind, dry |-> FALSE, command |-> Blank, message |-> "hi", refs |-> <<>>,
   game |-> Blank, transport |-> Blank, addr |-> Blank, pass |-> Blank]

Command == [Plain("command") EXCEPT !.command = "list"]
Relay == [Plain("relay") EXCEPT !.transport = "rcon"]

To(q, ref) == [q EXCEPT !.refs = <<<<ref>>>>]

AllRequests ==
  { Command, [Command EXCEPT !.dry = TRUE],
    Plain("broadcast"),
    [Plain("broadcast") EXCEPT !.dry = TRUE],
    [Plain("broadcast") EXCEPT !.command = "save-all", !.game = "minecraft"],
    To([Plain("broadcast") EXCEPT !.command = "save-all", !.game = "minecraft",
                                  !.pass = "r"], "mc"),
    [Plain("broadcast") EXCEPT !.transport = "docker"],
    [Plain("broadcast") EXCEPT !.transport = "telnet"],
    [Plain("broadcast") EXCEPT !.message = Blank],
    To(Plain("broadcast"), "lobby"), To(Command, "lobby"),
    Relay, To(Relay, "pal"), To(Relay, "mc") }

FallbacksTargets == [q \in AllRequests |-> Targeted(Fallbacks, q)]
MisconfiguredTargets == [q \in AllRequests |-> Targeted(Misconfigured, q)]

ResolveFallbacks(q) == FallbacksTargets[q]
ResolveMisconfigured(q) == MisconfiguredTargets[q]

CallerSymmetry == Permutations(Callers)

=============================================================================
