----------------------------- MODULE MCStartup ------------------------------
(* What the agent makes of its environment, for TLC: the .env file, the     *)
(* targets of requests and the relaying of chat, one of them in a run.      *)
EXTENDS Common, TLC

CONSTANTS
  Parts,                                                    \* those to check
  Keys, Files, Processes,                                   \* of EnvFile
  Envs, Queries,                                            \* of TargetResolution
  ChatEnvs, Channels, Contents, ToLower(_), Tags, PluginChannel, MaxMessages   \* of Bridge

VARIABLES
  part,
  process, file, next, status,        \* of EnvFile
  env,                                \* of all three
  commander,                          \* of TargetResolution and Bridge
  query, resolved,                    \* of TargetResolution
  bridge, inbox, number, relays       \* of Bridge

loading == <<process, file, next, status>>
resolving == <<query, resolved>>
chatting == <<bridge, inbox, number, relays>>
vars == <<part, loading, env, commander, resolving, chatting>>

E == INSTANCE EnvFile
Q == INSTANCE TargetResolution
B == INSTANCE Bridge WITH Envs <- ChatEnvs

(* A file is a list of lines; a variable has a name.                        *)
ASSUME FileAssumption ==
  /\ Blank \notin Keys
  /\ \A f \in Files :
       f \in Seq([kind : STRING, key : STRING,
                 value : [open : STRING, text : STRING, close : STRING]])

(* The lists of an environment; the filtered phrases are one variable.      *)
ASSUME EnvAssumption ==
  /\ \A e \in Envs \cup ChatEnvs : Q!Pairs(e, Q!Settings)
  /\ \A e \in ChatEnvs :
       /\ Q!Pairs(e, {"DISCORD_INGEST_CHANNEL_IDS", "RCON_INGEST_CONTAINER_NAMES"})
       /\ "DISCORD_BRIDGE_FILTERED_PHRASES" \in DOMAIN e
       /\ e["DISCORD_BRIDGE_FILTERED_PHRASES"] \in Seq(Seq(STRING))

ASSUME QueryAssumption ==
  Queries \subseteq [refs : Seq(Seq(STRING)), game : STRING, transport : STRING,
                    addr : STRING, pass : STRING]

(* The tags of the plugins are phrases the bridge filters, by default or     *)
(* because the operator has listed them; with any other tag, chat echoes.    *)
OperatorPhrases(e) == B!ToSet(B!FlattenSeq(e["DISCORD_BRIDGE_FILTERED_PHRASES"])) \ {Blank}

ASSUME TagAssumption ==
  \A e \in ChatEnvs, t \in Tags :
    ToLower(t) \in B!Lower(B!defaultFilteredPhrases \cup OperatorPhrases(e))

Init ==
  /\ part \in Parts
  /\ IF part = "file" THEN E!Init
     ELSE process = <<>> /\ file = <<>> /\ next = 0 /\ status = "loaded"
  /\ IF part = "requests" THEN Q!Init ELSE query = <<>> /\ resolved = <<>>
  /\ IF part = "chat" THEN B!Init
     ELSE bridge = <<>> /\ inbox = {} /\ number = 0 /\ relays = {}
  /\ part = "file" => commander = <<>>

Next ==
  /\ UNCHANGED part
  /\ \/ part = "file" /\ E!Next /\ UNCHANGED <<commander, resolving, chatting>>
     \/ part = "requests" /\ Q!Next /\ UNCHANGED <<loading, chatting>>
     \/ part = "chat" /\ B!Next /\ UNCHANGED <<loading, resolving>>

Spec == Init /\ [][Next]_vars

-----------------------------------------------------------------------------
(* The properties of the three models, under their names there.             *)

(* The process comes before the file, the file's first line before others.  *)
FileFillsTheGaps == part = "file" => E!FileFillsTheGaps

(* No container is targeted twice by one request.                           *)
EachContainerOnce == part = "requests" => Q!EachContainerOnce

(* Naming the default containers gives the targets that naming none gives,  *)
(* but for the address and password the request may give them.              *)
NamingDefaultsOnlyOverrides == part = "requests" => Q!NamingDefaultsOnlyOverrides

(* A target is reached the way the operator wrote in its own row.           *)
AlignedByPosition == part = "requests" => Q!AlignedByPosition

(* What is said in a channel reaches the server paired with it only.        *)
RelayStaysAtItsServer == part = "chat" => B!RelayStaysAtItsServer

(* Discord and a game never play a message back and forth, as long as the    *)
(* game's plugin marks its posts with a tag the filter knows.                *)
NoEchoLoop == part = "chat" => B!NoEchoLoop

(* The type invariants of the two models that have one.                     *)
TypeOK == CASE part = "requests" -> Q!TypeOK [] part = "chat" -> B!TypeOK [] OTHER -> TRUE

-----------------------------------------------------------------------------
(* .env files of up to three lines.                                         *)

Value(open, text, close) == [open |-> open, text |-> text, close |-> close]
Unquoted(text) == Value(Blank, text, Blank)
Line(kind, key, value) == [kind |-> kind, key |-> key, value |-> value]

Lines ==
  {Line("skipped", Blank, Unquoted(Blank)), Line("long", Blank, Unquoted(Blank)),
   Line("pair", Blank, Unquoted("8080")),
   Line("pair", "HTTP_ADDR", Unquoted("8080")), Line("pair", "HTTP_ADDR", Value("'", "9090", "'")),
   Line("pair", "DOCKER_HOST", Value("dq", "tcp", "'")), Line("pair", "DOCKER_HOST", Unquoted(Blank))}

SomeFiles == UNION {[1..n -> Lines] : n \in 0..3}

Variables == {"HTTP_ADDR", "DOCKER_HOST"}

SomeProcesses ==
  UNION {[ks -> {Unquoted(Blank), Unquoted("own")}] : ks \in SUBSET Variables}

-----------------------------------------------------------------------------
(* Environments and requests.                                               *)

Setting(console, names, transports, addresses, passwords) ==
  [DOCKER_DEFAULT_CONTAINER_NAMES |-> console,
   RCON_DEFAULT_CONTAINER_NAMES |-> names,
   RCON_DEFAULT_CONTAINER_TRANSPORTS |-> transports,
   RCON_DEFAULT_CONTAINER_ADDRESSES |-> addresses,
   RCON_DEFAULT_CONTAINER_PASSWORDS |-> passwords]

(* A list variable set, its alias unset; and the reverse.                   *)
List(parts) == <<parts, <<>>>>
Alias(entry) == <<<<>>, <<entry>>>>

(* Lists without blank or repeated entries, rows possibly incomplete.       *)
DistinctEnvs ==
  {Setting(c, n, t, a, p) :
     c \in {List(<<>>), List(<<"a">>), List(<<"b", "a">>), List(<<"a", "b", "a">>)},
     n \in {List(<<>>), Alias("b"), List(<<"b", "c">>), List(<<"c", "b">>)},
     t \in {List(<<>>), Alias("rcon"), List(<<"telnet", "rcon">>), List(<<"rcon", "docker">>)},
     a \in {List(<<"x">>), List(<<"x", "y">>)},
     p \in {List(<<>>), List(<<"p", "q">>)}}

(* Two RCON servers sharing a password, the second also given a transport   *)
(* of its own: a list with a repeated entry.                                *)
RepeatingEnvs ==
  {Setting(List(<<>>), List(<<"b", "c">>), t, List(<<"x", "y">>), p) :
     t \in {List(<<"rcon", "rcon">>), List(<<"rcon", "telnet">>)},
     p \in {List(<<"p", "p">>), List(<<"p", "q">>)}}

Query(refs, game, transport, addr, pass) ==
  [refs |-> refs, game |-> game, transport |-> transport,
   addr |-> addr, pass |-> pass]

SomeQueries ==
  {Query(r, g, t, o[1], o[2]) :
     r \in {<<>>, <<<<"">>>>, <<<<"b">>, <<"c", "", "b">>>>, <<<<"d">>, <<"a", "d">>>>},
     g \in {"", "g"},
     t \in {"", "rcon", "docker"},
     o \in {<<"", "">>, <<"z", "">>, <<"", "s">>}}

-----------------------------------------------------------------------------
(* Chat.                                                                    *)

ChatSetting(channels, containers, transports) ==
  [DISCORD_INGEST_CHANNEL_IDS |-> List(channels),
   RCON_INGEST_CONTAINER_NAMES |-> List(containers),
   DISCORD_BRIDGE_FILTERED_PHRASES |-> <<<<"Custom Ban", "[Team]">>>>]
  @@ Setting(List(<<"mc">>), List(<<"mc", "vr">>), List(transports),
             List(<<"mc:1", "vr:2">>), List(<<"p", "q">>))

(* Both channels paired, one, none; one server on telnet; transports that   *)
(* repeat lose an entry and leave the second server on Docker.              *)
DistinctChatEnvs ==
  {ChatSetting(ch, co, tr) :
     ch \in {<<"chan1", "chan2">>, <<"chan2">>},
     co \in {<<>>, <<"vr">>, <<"vr", "mc">>},
     tr \in {<<"rcon", "telnet">>, <<"telnet", "rcon">>, <<"rcon", "rcon">>}}

AllChannels == {"chan1", "chan2", "lobby"}

Chat == {{}, {"hello"}, {"hello", "CUSTOM BAN"}, {"Has Died"}}

LowerCase(p) ==
  CASE p \in {"Custom Ban", "CUSTOM BAN"} -> "custom ban"
    [] p = "Has Died" -> "has died"
    [] p = "[Local]" -> "[local]"
    [] p \in {"[Team]", "[TEAM]"} -> "[team]"
    [] OTHER -> p

Plugins == [a \in {"mc:1", "vr:2"} |-> IF a = "mc:1" THEN "chan2" ELSE "chan1"]

=============================================================================
