------------------------------- MODULE Bridge --------------------------------
(* DiscordRCONBridge (internal/service/discord_bridge.go), from the          *)
(* environment the agent starts in to the targets a chat message is sent to. *)
(*                                                                          *)
(* The Discord library handles each message in a goroutine of its own, in   *)
(* any order.  The games have chat plugins that post what is said there to  *)
(* a Discord channel, tagged.  The content of a message is the set of       *)
(* phrases in it, as they were written.                                     *)
EXTENDS Targets

CONSTANTS
  Envs,          \* environments the agent may be started in, the settings of the
                 \* bridge among them
  Channels,      \* Discord channels
  Contents,      \* what users post
  ToLower(_),    \* phrase -> the phrase in lower case
  Tags,          \* phrases the plugins put in front of game chat
  PluginChannel, \* address of a game server -> channel of its plugin
  MaxMessages    \* bound on the messages seen between two starts

VARIABLES
  env,         \* the environment main() read
  commander,   \* the DockerCommander built from it
  bridge,      \* the bridge built from it
  inbox,       \* messages whose handler has not run
  number,      \* how many messages there have been
  relays       \* what was broadcast: messages and the targets they reached

vars == <<env, commander, bridge, inbox, number, relays>>

defaultFilteredPhrases ==
  {"has killed", "killed by", "has died", "was killed", "slain by",
   "left the game", "joined the game", "[local]", "[global]"}

Lower(phrases) == {ToLower(p) : p \in phrases}

(* Channels and containers are paired by position.                          *)
NewDiscordRCONBridge(channelIDs, containerNames, extra) ==
  LET paired == {i \in DOMAIN channelIDs : Entry(containerNames, i) # Blank}
  IN  [channelIDs |-> channelIDs,
       channelToContainer |-> [ch \in {channelIDs[i] : i \in paired} |->
                                 containerNames[Max({i \in paired : channelIDs[i] = ch})]],
       filteredPhrases |-> Lower(defaultFilteredPhrases \cup ToSet(extra))]

BridgeOf(cfg) ==
  NewDiscordRCONBridge(cfg["DISCORD_INGEST_CHANNEL_IDS"], cfg["RCON_INGEST_CONTAINER_NAMES"],
                       cfg["DISCORD_BRIDGE_FILTERED_PHRASES"])

Init ==
  /\ env \in Envs
  /\ commander = NewDockerCommander(FromEnv(env))
  /\ bridge = BridgeOf(FromEnv(env))
  /\ inbox = {}
  /\ number = 0
  /\ relays = {}

(* Started anew in the same environment; messages nobody handled are lost.  *)
Restart ==
  /\ inbox' = {}
  /\ number' = 0
  /\ relays' = {}
  /\ UNCHANGED <<env, commander, bridge>>

(* A message appears in a channel; once relayed is what was on a console.   *)
Arrives(author, channel, content, relayed) ==
  /\ number < MaxMessages
  /\ number' = number + 1
  /\ inbox' = inbox \cup {[id |-> number', author |-> author, channel |-> channel,
                           content |-> content, relayed |-> relayed]}
  /\ UNCHANGED <<env, commander, bridge, relays>>

(* A user's message, or one the agent posts for its HTTP clients.           *)
Post(author, channel, content) == Arrives(author, channel, content, FALSE)

(* The plugin of a server posts the chat line a relay caused there.         *)
Echo(r, tag) ==
  /\ r \in relays /\ r.target.addr \in DOMAIN PluginChannel
  /\ Arrives("plugin", PluginChannel[r.target.addr], r.msg.content \cup {tag}, TRUE)

(* The phrases are compared as they are written.                            *)
FilteredAsWritten(content) == content \cap bridge.filteredPhrases # {}

Filtered(content) == Lower(content) \cap bridge.filteredPhrases # {}

Ignored(m) ==
  \/ m.author = "agent"
  \/ m.channel \notin ToSet(bridge.channelIDs)
  \/ m.content = {}
  \/ Filtered(m.content)

(* The request names the container and leaves the transport open.           *)
AnyTransportRequest(m) ==
  [transport |-> Blank, game |-> Blank, addr |-> Blank, pass |-> Blank,
   refs |-> IF m.channel \in DOMAIN bridge.channelToContainer
            THEN <<<<bridge.channelToContainer[m.channel]>>>> ELSE <<>>]

RelayRequest(m) ==
  [transport |-> "rcon", game |-> Blank, addr |-> Blank, pass |-> Blank,
   refs |-> IF m.channel \in DOMAIN bridge.channelToContainer
            THEN <<<<bridge.channelToContainer[m.channel]>>>> ELSE <<>>]

(* Broadcast serves the targets in order and may fail at any of them.       *)
handleMessage(m) ==
  /\ m \in inbox
  /\ inbox' = inbox \ {m}
  /\ LET ts == resolveBroadcastTargets(commander, RelayRequest(m))
     IN  \E k \in IF Ignored(m) THEN {0} ELSE 0..Len(ts) :
           relays' = relays \cup {[msg |-> m, target |-> ts[i]] : i \in 1..k}
  /\ UNCHANGED <<env, commander, bridge, number>>

Next ==
  \/ \E author \in {"user", "agent"}, ch \in Channels, content \in Contents :
       Post(author, ch, content)
  \/ \E r \in relays, tag \in Tags : Echo(r, tag)
  \/ \E m \in inbox : handleMessage(m)
  \/ Restart

Spec == Init /\ [][Next]_vars

-----------------------------------------------------------------------------
(* Properties                                                               *)

TypeOK ==
  /\ commander.defaultRCONTargets \in Seq(BroadcastTarget(STRING))
  /\ bridge.channelIDs \in Seq(Channels)
  /\ DOMAIN bridge.channelToContainer \subseteq ToSet(bridge.channelIDs)
  /\ number \in 0..MaxMessages
  /\ \A m \in inbox \cup {r.msg : r \in relays} :
       m.id \in 1..number /\ m.channel \in Channels /\ m.author \in {"user", "agent", "plugin"}
  /\ \A r \in relays :
       r.target \in BroadcastTarget(STRING) /\ r.msg.channel \in ToSet(bridge.channelIDs)

(* The rows as the operator wrote them.                                     *)
Written(setting) == env[setting][1] \o env[setting][2]

(* What is said in a channel goes to the server the operator paired with it  *)
(* and to no other, over RCON and at the address in that server's own row;   *)
(* a channel without a container reaches RCON servers only, and what is said *)
(* in a channel the operator did not list goes nowhere.                      *)
RelayStaysAtItsServer ==
  \A r \in relays :
    /\ r.target.transport = "rcon"
    /\ r.msg.channel \in ToSet(Written("DISCORD_INGEST_CHANNEL_IDS"))
    /\ \A i \in DOMAIN Written("DISCORD_INGEST_CHANNEL_IDS") :
         LET container == Entry(Written("RCON_INGEST_CONTAINER_NAMES"), i)
         IN  r.msg.channel = Written("DISCORD_INGEST_CHANNEL_IDS")[i] /\ container # Blank
               => r.target.ref = container
    /\ \E i \in DOMAIN Written("RCON_DEFAULT_CONTAINER_NAMES") :
         /\ r.target.ref = Written("RCON_DEFAULT_CONTAINER_NAMES")[i]
         /\ r.target.addr = Entry(Written("RCON_DEFAULT_CONTAINER_ADDRESSES"), i)

(* Discord and a game never play a message back and forth: what a plugin     *)
(* posts, with a tag that the filter knows in some case, by default or from  *)
(* the operator's list, is not relayed again, nor is what the agent itself   *)
(* posts (discord_bridge_test.go:236: "should be ignored to     *)
(* avoid echoing them back over RCON").                                      *)
NoEchoLoop == \A r \in relays : ~r.msg.relayed /\ r.msg.author # "agent"

=============================================================================
