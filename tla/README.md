# Server maintenance notification agent in TLA+

The agent is one Go process. It posts maintenance messages to Discord channels,
sends raw commands and templated broadcasts to game server consoles (over RCON,
telnet or the Docker API), and relays chat messages from Discord channels to game
servers. This directory holds specifications of its parts, the TLC models that check
them on small instances and the proofs of the results that matter most.
Paths below are relative to `src/`; `broadcast.go`, `notifier.go`, `docker.go` and
`discord_bridge.go` are in `internal/service/`.

## 1. Inventory

| Component | State | Operations | Interacts with |
|---|---|---|---|
| Console dispatch, `DockerCommander.Send/Broadcast/deliverCommand` (`broadcast.go`) | per request: targets, deliveries so far, the executor called | serve one target after the other; dry run; telnet -> Docker fallback; stop at the first error | called by HTTP handlers and bridge handlers; calls the resolver and the three clients |
| Target resolution (`broadcast.go`) | two default lists and two lookup maps, fixed at start | merge lists, look up named containers, apply the request's RCON override, filter by transport | input of the dispatch loop |
| Game matching, fallback allowlist (`broadcast.go`) | template table, aliases, allowlist, fixed at start | exact, alias and substring matching of names | chooses the command; guards the fallback |
| Message rendering (`broadcast.go`) | none | quoting for the console, for Lua | the text of every broadcast |
| Notifier (`notifier.go`) | default channels; per request: channels delivered | validate, dry run, context check before each post | called by two HTTP handlers; calls the Discord client |
| HTTP API (`internal/httpapi`) | per request: the body, the answer, the context | read, route, decode, serve, answer | one goroutine per request; net/http cancels the context when the client disconnects |
| Discord bridge (`discord_bridge.go`) | channel -> container map, filtered phrases | filter a chat message and broadcast it over RCON | one goroutine per message, `context.Background()` |
| Configuration (`internal/config`) | environment | `.env` reader, lists without repetitions | every list above |
| RCON, telnet, Docker clients | a connection per call | connect, log in, write, read output until it ends | game consoles |
| Pelican resolver (`internal/pelican`) | `sync.Map` cache container -> game | look the server up, then its egg, store | HTTP API of the panel; called by the dispatch loop |
| Discord client (`internal/discord`) | gateway session | post; events | Discord |
| Life cycle (`cmd/notification-agent`) | HTTP server, signal context, deferred closes | wire the parts, serve, shut down | everything |
| Swagger documentation (`docs`) | none | generated text | HTTP API |

What is hard, and what makes each part correct:

- *Dispatch.* Several writes to several machines behind one answer. The client may
  leave between any two steps, a call may fail before or after its command was
  written, and a failed telnet call may continue over Docker. Correct: the
  answer never claims more than was written; a dry run writes nothing; no target
  sees a command twice on a transport; a client that left stops the request; every
  request comes to an end, with an answer but for the panic of section 4; a relay never
  touches anything but RCON.
- *Target resolution.* Four lists paired by position, two resolution paths.
  Correct: one target per container, each with the settings of its own row. An address or
  password in a request replaces those of the containers it names (`broadcast.go:458-465`), and is
  ignored where it names none and the default targets serve (`broadcast.go:264-287`); in
  nothing else may it matter how a target was found.
- *Game matching.* Substring tests in both directions over names from requests,
  from Pelican and from the operator. Correct: the names the program reports lead
  back to the same command and to the same fallback decision.
- *Rendering.* Two quotings, one of which leaves single words alone. Correct: a
  message is one line of the command and reads back as it was sent.
- *Notifier.* As dispatch, over channels. Correct: each channel once, 202 only when
  all were posted to. 408 says that the context was cancelled or that a post timed out,
  which may be after it appeared.
- *HTTP API.* Five handlers that answer by hand, and a disconnect that net/http notices
  only after the body was read to its end. Correct: one answer per request, but for
  that panic; a client that leaves is noticed while its request is served.
- *Clients.* Streams that do not say where a reply ends: silence, a deadline or a
  foreign packet does. RCON servers that refuse, that answer the log-in oddly and that
  split replies in Rust's manner; telnet servers that talk all the time; one Docker
  console shared by several calls. Correct: no command before the log-in was granted, none for a
  client that had already gone; the output is the reply; a call returns.
- *Pelican resolver.* A cache without expiry in front of two requests, filled by
  concurrent lookups. Correct: what is cached was true of the server the container
  names exactly, if one is listed, else of the first in the list (`pelican/client.go:159`);
  it is never lost and spares every later request.
- *Bridge.* Handlers in any order, and chat plugins that post what they see back to
  Discord. Correct: a message reaches the server paired with its channel and no
  other; nothing goes round.
- *Configuration.* Three sources of a variable. Correct: the process before the file,
  the first line of the file before later ones.
- *Life cycle.* A signal, a failing server, handlers that may hang, a limit on the
  shutdown. Correct: clients outlive the HTTP handlers; an orderly exit has answered
  everything but what panicked; a signal always ends the process.

`PROJECT.json` lists every hazard with its line and the properties that cover it.

## 2. Modules

| Module | Models | Correspondence |
|---|---|---|
| `Common` | record types of `docker.go` | `Select` is what a loop that skips elements leaves of a list; `Blank` is a string that is empty after `TrimSpace`; a delivery keeps what the properties look at (ref, transport, game, sent), not the text |
| `Config` | `parseDelimitedList`, `FromEnv` | a variable's value is the sequence of its comma separated parts. The same loop is `normalizeContainerRefs` and `normalizeChannelIDs`, hence one operator, `DistinctParts` |
| `EnvFile` | `LoadEnvFile` | one step per line of the file (`ReadLine`): skipped, too long for the scanner, or a pair, whose quotes are taken off when they match |
| `Targets` | the target functions of `broadcast.go` | functions of the same names; maps are functions whose domain is the set of refs |
| `TargetResolution` | start-up in some environment, then requests | `Broadcast` and `Send` up to the resolved targets |
| `Bridge` | `DiscordRCONBridge` | `Post` and `Echo` put a message of a user, of the agent or of a game's chat plugin into `inbox`; `handleMessage` filters one of them, in any order, and adds the targets it reached to `relays` |
| `GameMatch` | template and allowlist matching | a name is a sequence of words, a word a sequence of the pieces that known names share ("papermc" is `paper`, `mc`); the normal form runs the words together, and `strings.Contains` is a subsequence of pieces |
| `GameFallback` | `buildBroadcastCommand` feeding `shouldFallbackToDocker` | one step per broadcast, for a game and with or without a command of its own |
| `Rendering` | `quoteConsoleMessage`, `quoteLuaString` | character by character, for the characters they treat differently; `Hear` is one step of the reader of a quoted argument at the other end |
| `FanOut` | the abstract promise of one request | items served in order; accepted only when all were reached; nothing reached after the answer |
| `Dispatch` | `Send`, `Broadcast`, `deliverCommand` | see below |
| `Notifier` | `Trigger` and its two handlers | `Trigger` (checks), `Report` (dry run), `Check` (`ctx.Err()`), `Post` (the message appears), `SendOk`, `SendFails`, `Finish`; `DryRun` is `parseBoolQuery` over the body's flag |
| `ConsoleCall` | the abstract promise of a console client | a call writes its command at most once, succeeds only after it has, writes nothing when it was cancelled before it began |
| `Consoles` | constants and bounds of the clients | |
| `Rcon`, `Telnet`, `Attach` | the three `Execute`/`SendCommand` | see below |
| `Pelican` | `ResolveGame` | see below |
| `Lifecycle`, `Http` | `main` after wiring, and the handlers in it | see below |
| `MCDispatch` | `Dispatch` composed with `Targets` and `GameMatch` | the targets of its requests and the fallback games are computed by those modules |
| `MCClients` | `Rcon`, `Telnet`, `Attach` | a state belongs to one of them, `transport` says to which |
| `MCStartup` | `EnvFile`, `TargetResolution`, `Bridge` | `part` says which |
| `MCCommands` | `GameFallback`, extended by an instance of `Rendering` | `part` says which |
| `MCNotifier`, `MCPelican`, `MCHttp` | constants of one module | |
| `ListFacts` | facts about the list operators (`Select`, `FlattenSeq`, `DistinctParts`) and about the lists of `Targets` | section 5 |
| `*Proofs` | theorems | section 5 |

**Dispatch.** Each state variable maps a caller (a goroutine serving one request
at a time) to its value. `targets`, `out`, `game` are the locals of the loop, `via` the
transport of the executor being called, `pc` the place in the loop:

| `pc` | Code | Left by |
|---|---|---|
| `idle`, `done` | no request / answered | `Refuse` (early returns), `Accept` |
| `loop` | head of `for _, target := range targets` | `Prepare` (game lookup, command), `Finish` |
| `ready` | before `deliverCommand` or the dry-run branch | `DryRun`, `Refused` (no executor, no credentials), `Panic`, `Call` |
| `calling` | inside a client, command not written | `Write`, `CallFails` |
| `written` | inside a client, reading output | `CallOk`, `CallFails` |
| `failed` | the client returned an error | `Fallback`, `GiveUp` |

`gone` is the cancelled context, `reply` the answer. `wire` and `late` are history:
the transports each target's command was written on, and the number of commands
written after cancellation. `Wiring` says what stands behind each transport: a
client, a nil interface, or an interface holding a nil `*Client`, which is what
`main.go:57-73` passes on when the Docker client could not be built. Target lists,
templates, the allowlist and the Pelican lookup are parameters (`Resolve`,
`TemplateGame`, `FallbackGame`, `ResolvedGames`), so the proofs hold for
any of them. A client is reduced to the context check, the write and a result, with any
failure allowed before and after the write: this is `ConsoleCall`, which the three
client modules are shown to implement. A context that is cancelled during a call may
stop the write or not, in the model as in the clients. `DockerCommander` with
an unset resolver is `HasResolver = FALSE`. Of the two statuses of an error the model keeps
"rejected"; the notifier keeps 408 apart because its code produces it. The answer 503 of
`server.go` for a commander that was not configured does not occur: `main` always builds one.

**Clients.** `Rcon` and `Telnet` hold one call and the server at the other end: `pc` is
the place in `Execute`, `checked` that `ctx.Err()` was looked at before the next
packet or read, `wire` what has arrived and was not read, `srv` the server. A server
answers with numbered chunks, so that lost, doubled and reordered output can be told
apart. In `Rcon` it may grant or refuse the log-in by packets of any kind and
id, announce a chunk by a packet of type 4 and give it the id -1 (`pc = "follow"` is the read after
the announcement), push one log line with an id of its own, and hang up. In `Telnet`
it may print `Chatter` at any time; the drains before the command read it (`Drain`) until their
deadline ends them (`drainTelnetGreeting`). In `Attach` several callers
share one container: `stdin` holds the commands it has not read, every line it prints goes
to all attachments, and `StopOrStart` cuts them. Each of the three fails at any
point where the code returns an error.

**Pelican.** `pc` goes through `servers` (`lookupServerByUUID`), `egg` (`lookupEggName`) and
`store` (`cache.Store`), one step per request to the panel, so that lookups interleave between
them. The panel is an actor: `Reassign` gives a server another egg, `Rename` an egg another
name. `Listed` is what the panel returns for a reference, `Labels` what a server is called exactly.
History: `assigned` and `named` (all the panel ever said), `answered` (containers for which a
lookup returned a game), `known` (it had when this lookup began), `asks` (requests made).
Two answers are read at two moments, so a cached game may be a combination that never held at
one moment: `OwnGameCached` says what does hold.

**Life cycle and HTTP.** `Lifecycle` is the end of `main`: `select` over the signal and `errCh`,
`shutdown`, `closing` (the deferred closes, last first), `exited` or, by `log.Fatalf`, `fatal`.
HTTP requests and relays are work that begins, ends, or is `cut` by the exit. `Http` extends it
with what a request goes through: `body` (read by `requestLogger`), `route`, `decode`, `serve`,
`over`. `eof` says that the body was read to its end, `gone` that the client has left, `Notice`
that net/http, reading the connection, has cancelled the context. 408 is also the answer when the
time limit of a library expires below a handler. External are the handler of `/swagger/` and the redirects of the mux, which
give any of their answers, and the clients, which may disconnect at any time.

Some modules hold operators that no specification uses, each just before the
definition it varies and described by the fault it would be ("The allowlist of games is not
asked."). Replacing the definition by the variant must break a property: that is how
each property is shown to be able to fail. `PROJECT.json`, "mutants", pairs them.

## 3. Runs

Deadlock is checked in every run: a caller that was answered can always take the next
request, and a process that ended is started again.

| Run (`.cfg`) | Shows | Instance |
|---|---|---|
| `Dispatch` | types, `DryRunSilent`, `AcceptedMeansDelivered`, `OneWritePerTransport`, `CancelStopsFanOut`, `ImplementsFanOut` | 2 callers (symmetric), 14 requests, 601,156 states |
| `DispatchBroken` | `RelayUsesRCONOnly`, `EveryRequestEnds` with a Docker client that was not built, a telnet server without password, an RCON server whose calls succeed and fail, and every game free to fall back | 1 caller, 14 requests, fair, 391 states |
| `Startup` | `FileFillsTheGaps`; `EachContainerOnce`, `NamingDefaultsOnlyOverrides`, `AlignedByPosition`; `RelayStaysAtItsServer`, `NoEchoLoop` | `.env` files of up to 3 lines against 9 process environments; 256 environments without repeated entries, 72 requests, with an address or a password of their own or neither; chat under 18 environments, up to 3 messages; 392,740 states |
| `Commands` | `ReportedGameSameCommand`, `ReportedGameMayBeAllowed`, `FallbackStaysWithinGame`; `MessageArrives` | every key, every reported game bare and as "dedicated ... server", aliases and unknown names, with no, one or two allowed games; every message of up to 3 of 8 characters; 6,457 states |
| `Notifier` | types, `EachChannelOnce`, `AcceptedMeansPosted`, `CancelStopsPosting`, `ImplementsFanOut`, `EveryRequestAnswered` | 2 callers, 6 requests, at most 2 distinct channels each, fair, 19,600 states |
| `Pelican` | types, `OwnGameCached`, `AskedOnce`, `EntriesSettle` | 2 lookups (symmetric), 4 references, 2 servers, 2 eggs, 3 names, 1 change at the panel, 2,872,830 states |
| `Clients` | types, `AuthenticatedFirst`, `OutputIsReply`, `ReplyNotDrained`, `OwnReplySeen`, `ImplementsConsoleCall`, `CallReturns` | replies of up to 3 chunks, up to 3 lines waiting on a telnet connection, 2 attachments, up to 2 lines of output each, fair, 58,275 states |
| `Service` | `ClientsOpenWhileServing`, `OrderlyExitAnswersAll`, `AnsweredOnce`, `SignalLeadsToExit`, `DisconnectNoticed` | 2 requests, one of any kind, and 1 relay, with restarts, fair, 224,517 states |
| `DispatchAborts`, `DispatchRepeats`, `TargetResolutionRepeated`, `GameFallbackExample` | the disagreements of section 4 | |

Why the bounds are enough.

- *Dispatch, notifier.* Callers share nothing but constants, so two of them show all there is to
  interleave. Two targets per request, one with a fallback and one without, give the loop a first, a last and a
  failing target, each on every transport over the two deployments. The commands of a request are counted in `wire`
  and `late`, which need no bound: the loop is finite.
- *Start-up.* Three lines of a file hold a variable twice and something that ends the reading between. Three
  containers, lists of length 0 to 2 shorter and longer than the names, and containers named by none, one or two
  fields of a request cover the joins of the resolution. A loop through a chat plugin needs two messages.
- *Commands.* Game names are not a sample: the template and alias tables are complete, and only the set of foreign
  names is chosen. Three characters hold an escape, its neighbour and the end of the text, or two words.
- *Pelican.* Of the references one names a server exactly that is listed second, one only parts of uuids,
  one nothing. Two lookups and one change put the change between any two of their steps.
- *Clients.* A call has a connection of its own, and Docker calls meet in the container only. Three chunks have a
  first, a middle and a last one; the log line a server pushes may stand anywhere among them. The bound on chunks is
  also what makes RCON servers stop sending, see below.
- *Service.* The two requests are independent but for the shutdown, which waits for both; the first is always
  served, the second may end on every way through the handlers.

Fairness. Nothing is assumed of clients and operators. Of the services behind a request only
what follows is.

- `Dispatch`, `Notifier`: weak fairness on the steps of a busy caller: goroutines are
  scheduled, calls return (which the clients' runs show), and the Discord library's HTTP client
  has a time limit. That library also waits and repeats a post answered with 429, with no limit of its own, so `Notifier`
  assumes a Discord that stops limiting at some point. Arrivals and disconnects are not fair: nobody has to send a request or to leave.
- `Rcon`, `Telnet`: weak fairness on the client's steps. Dials, writes and reads have deadlines (`rconcontrol/client.go:50,
  145, 158`, `telnetcontrol/client.go:30, 40, 71, 100`), a drain ends by its own whatever arrives. The loops over
  packets and reads have none, so `CallReturns` says no more than the code does: an RCON call returns if the server
  stops sending, which the model's bound on chunks implies; a telnet call returns once its server has fallen silent.
- `Attach`: the daemon answers and takes what is written. Reading has a deadline of one second
  (`dockercontrol/client.go:77`), so that a container may talk for ever. The write has none
  (`dockercontrol/client.go:69`): a daemon that stops taking input holds the request, and nothing here
  says otherwise.
- `Http`: `main` runs, and net/http reads the connection. Handlers may hang for ever: that
  `SignalLeadsToExit` holds nevertheless is the point of the limit on the shutdown.
- `Pelican`: no liveness is checked; each of its requests ends by the ten seconds of its HTTP client.

## 4. Where code and documentation disagree

- `DispatchRepeats`: telnet output that cannot be read is an error although the
  command was written; the fallback then sends the message again over Docker (`broadcast.go:234`).
  `OneWritePerTransport` is what holds instead.
- `DispatchAborts`: the checks `d.commander == nil` never see the missing Docker client, because an
  interface holding a nil pointer is not nil (`broadcast.go:253`, `main.go:57-73`). `DispatchBroken` shows
  that relays, whose goroutine has no recover, stay clear of it, and that nothing else leaves a request unanswered.
- `TargetResolutionRepeated`: lists "aligned by position" lose their repeated entries
  (`config.go:103-126`), two servers with one password for instance. `Startup` shows that alignment holds when no
  entry repeats. The bridge's two lists go the same way (`discord_bridge.go:34-45`): two channels cannot be paired with one
  server, since its second mention is dropped and the rows after it move up.
- `GameFallbackExample`: the documented allowlist entry `7dtd` does not allow
  7 Days to Die to fall back (`broadcast.go:234, 33`). `ReportedGameMayBeAllowed` shows that the name the agent reports does.

## 5. Proofs

The theorems hold for all values of the constants that satisfy the named assumptions: any sets of callers,
requests and containers, lists, files, names, messages and replies of any length. Every safety invariant, every action
property and every refinement that a passing run checks is stated by a theorem; liveness is not (see below). The
assumptions, which TLC evaluates on the runs' instances:

| Module | Assumptions |
|---|---|
| `Dispatch` | `RequestAssumption`, `GameAssumption`, `WiringAssumption`: requests have a kind and a dry-run flag and resolve to a sequence of targets; games contain the blank one; the wiring is a function from transports |
| `Notifier` | `RequestAssumption`, `DefaultsAssumption`: the fields of a request and of the configuration are lists of lists of names |
| `Pelican` | `PanelAssumption`: the panel returns lists of servers; an egg's id is positive |
| `Consoles` | the ids of log-in and command are no foreign id; noise is nobody's answer; the bounds are numbers |
| `MCStartup` | `FileAssumption`, `EnvAssumption`, `QueryAssumption`: the shape of lines, environments and requests. `TagAssumption`: the tag each chat plugin puts before what it posts is, in some case, one of the phrases filtered by default or listed by the operator, in each environment |
| `GameFallback` | `NameAssumption`: names are lists of words |
| `Lifecycle`, `Http` | requests are not relays; the shape of what a client may send |

| Module | Theorem | Statement |
|---|---|---|
| `DispatchProofs` | `Inductive`, `TypeCorrect` | `Spec => []IInv`, `[]TypeOK` |
| | `DryRunIsSilent` | `Spec => []DryRunSilent` |
| | `AcceptedIsDelivered` | `Spec => []AcceptedMeansDelivered` |
| | `WritesOnce` | `Spec => []OneWritePerTransport` |
| | `CancelStops` | `Spec => []CancelStopsFanOut` |
| | `RelayOnRCON` | `Spec => []RelayUsesRCONOnly`, if RCON itself is not a nil client and relays are resolved by `Targets` in some environment |
| | `Refines` | `Spec => ImplementsFanOut` |
| `NotifierProofs` | `Inductive`, `TypeCorrect` | `Spec => []IInv`, `[]TypeOK` |
| | `AcceptedIsPosted` | `Spec => []AcceptedMeansPosted` |
| | `GoingStopsPosts` | `Spec => []CancelStopsPosting` |
| | `PostedOnce` | `Spec => []EachChannelOnce` |
| | `Refines` | `Spec => ImplementsFanOut` |
| `PelicanProofs` | `Inductive`, `TypeCorrect` | `Spec => []IInv`, `[]TypeOK` |
| | `CachesOwnGame`, `AsksOnce` | `Spec => []OwnGameCached`, `[]AskedOnce` |
| | `Settles` | `Spec => EntriesSettle` |
| `ClientsProofs` | `RconInductive`, `TelnetInductive`, `AttachInductive` | the inductive invariant of each client's own specification |
| | `RconKeepsItsPromise`, `TelnetKeepsItsPromise`, `DockerKeepsItsPromise` | each client's specification implements `ConsoleCall` |
| | `ClientsTyped` | `Spec => []TypeOK` |
| | `ClientsAuthenticateFirst` | `Spec => []AuthenticatedFirst` |
| | `ClientsReturnReply`, `ClientsDrainNoReply` | `Spec => []OutputIsReply`, `[]ReplyNotDrained` |
| | `ClientsSeeOwnReply` | `Spec => []OwnReplySeen` |
| | `ClientsImplementConsoleCall` | `Spec => ImplementsConsoleCall` |
| `ListFacts` | `ResolutionGivesTargets` | in any environment any request resolves to a list of targets, no container twice |
| | `RCONRequestFindsRCON` | in any environment a request for RCON resolves to RCON targets only |
| `StartupProofs` | `FileFillsTheGapsHolds` | `Spec => []FileFillsTheGaps` |
| | `EachContainerOnceHolds` | `Spec => []EachContainerOnce` |
| | `NamingDefaultsHolds` | `Spec => []NamingDefaultsOnlyOverrides` |
| | `AlignedByPositionHolds` | `Spec => []AlignedByPosition`, if lists are kept as written |
| | `NoEchoLoopHolds` | `Spec => []NoEchoLoop` |
| | `RelayStaysAtItsServerHolds` | `Spec => []RelayStaysAtItsServer`, if lists are kept as written |
| `CommandsProofs` | `ReportedGameSameCommandHolds` | `CommandsSpec => []ReportedGameSameCommand` |
| | `ReportedGameMayBeAllowedHolds` | `CommandsSpec => []ReportedGameMayBeAllowed`, if every listed name has a letter or digit |
| | `FallbackStaysWithinGameHolds` | `CommandsSpec => []FallbackStaysWithinGame`, if each listed name has pieces of one game only |
| | `MessageArrivesHolds` | `CommandsSpec => []MessageArrives` |
| `HttpProofs` | `LifeInductive`, `HttpInductive`, `HttpTypeCorrect` | `Spec => []LifeInv`, `HttpSpec => []HttpInv`, `[]HttpTypeOK` |
| | `ServiceImplementsLifecycle` | `HttpSpec => Spec` of `Lifecycle` |
| | `ClosesAfterLastHandler` | `HttpSpec => []ClientsOpenWhileServing` |
| | `OrderlyExit` | `HttpSpec => []OrderlyExitAnswersAll` |
| | `OneAnswer` | `HttpSpec => []AnsweredOnce` |

The hypotheses of theorems, and what is lost without them:

- `RelayOnRCON`: RCON itself is not a nil client (`rconcontrol.NewClient` cannot fail, `main.go:70`), and the targets of relays are
  those that `resolveBroadcastTargets` finds for a request with the transport "rcon" in some environment, as `handleMessage`
  asks for. That these are RCON targets is not assumed: it is `RCONRequestFindsRCON`. `ResolutionGivesTargets` shows
  likewise what `Dispatch` assumes of its targets.
- `AlignedByPositionHolds`, `RelayStaysAtItsServerHolds`: the lists concerned repeat no entry and leave none blank
  (`KeptAsWritten`). `parseDelimitedList` drops the others and the rows after them move up, which is the finding
  `TargetResolutionRepeated`.
- `NoEchoLoopHolds` needs `TagAssumption`: the code knows a plugin's message by its tag only, so a tag that is in neither
  list of phrases goes round.
- `OrderlyExit`, `OneAnswer` except by name (`Panicked`) a console request on a Docker client that could not be built: net/http
  drops its connection.
- `ReportedGameMayBeAllowedHolds`: a listed name that is all punctuation normalises to nothing; `buildGameAllowlist` leaves it out.
- `FallbackStaysWithinGameHolds`: the allowlist is matched by parts of names, so that an entry "minecraft rust" lets both games
  fall back, whichever template it selects. The hypothesis (`NamesOneGame`) excludes such names and no others: "dedicated rust
  server", "paper" and the entries of `.env.example` satisfy it, and so does every name the agent reports
  (`ReportedNamesOneGame`).

The arguments. None of the properties is inductive, and each `IInv` says what the steps before have established:

- *Dispatch.* A delivery's transport says nothing about the write two steps earlier. `Shape` relates `pc`, the
  lengths of the lists and the answer; `Settled` says what holds of each delivered target; `Current` what the target being
  served may have seen, distinguishing the executor that is its own (`Own`) from the Docker console it fell back to
  (`Fell`); targets to come have seen nothing; `Cancelled` says that nothing was written late except by the call in
  flight. `RelayOnRCON` needs `RelayInv` besides; that relays have RCON targets only is
  proved of `Targets`: the filter keeps nothing else, and the lists it filters are lists of targets. `Refines` maps arrivals to
  `Start`, `Write` to `Reach`, deliveries to `Complete`, `Finish` to `Accept`, the other answers to `Reject` and everything
  else to a stutter.
- *Notifier.* The channels reported are the first of the request (`Prefix`); those posted are the same or one
  more (`Posts`); an accepted request has all (`Answers`); a post after the client has gone is followed by the
  check (`Lateness`). The list of channels has no repetition because `DistinctParts` leaves none. `Refines` maps `Post` to `Reach`, `SendOk` to `Complete`.
- *Pelican.* The panel's present is part of its history (`Recorded`); what a lookup holds on its way is in the
  history too (`Found`), and so is everything cached (`GamesOwned`); containers answered with a game have an
  entry, which is why a later lookup asks nothing.
- *RCON, telnet.* What was read is the beginning of the reply, and what waits holds exactly the rest, in order
  (`RconDue`, `TelnetDue`); one lemma says what reading the head of such a stream leaves, one what an arrival adds. RCON needs more:
  a chunk with the id -1 stands right after its announcement (`Shape`, `Fits`), packets that are no
  chunks can only be the server's own (`OnlyPushed`), and nothing arrives before the log-in was judged (`Course`, `Wire`).
- *Docker.* A command waiting at the console belongs to an attachment that hears it, from the write until the call
  returns; so its answer is in that attachment's output.
- *Life cycle, HTTP.* The closes begin only when no HTTP handler is busy and the listener is closed, hence none will be
  (`LifeInv`); a request is served only if routed and decoded, and has an answer exactly when it is over (`HttpInv`).
  Every handler's step is a step of the life cycle or leaves it alone.
- *The three clients together.* A state of `MCClients` belongs to one transport and a step leaves it there; the invariant is that
  of the client at work.
- *Lists* (`ListFacts`). `Select`, `FlattenSeq` and `DistinctParts` are recursive functions over a list. That such a function
  exists, and what it holds of a list of any length, is shown by induction on the places: the set of places where the
  statement fails has no least element (`InductionUpTo`). What the other proofs use is that `DistinctParts`
  keeps one of each non-blank part, and leaves alone a list that has neither repetition nor blank. From there the
  lists of `Targets` follow step by step: the default lists, the two maps, the merged list, a request's list, the filtered one.
- *Start-up.* The reader has decided every key by the lines before `next`: the process's value, or that of the first line
  that sets it (`FileInv`). The merged default list and the two maps know the same target for each name (`MergeFacts`, `ConfiguredFacts`),
  hence naming the defaults changes nothing but that the request's own address and password count (`OnlyOverrides`), and
  each target is the row of its name, with what the request replaces in it (`ServedFacts`, `WithCredentialsFacts`). In the bridge every
  message in `relays` was tagged if it came from a console, and passed the filter (`ChatInv`): with the tags among the
  phrases (`FilterPhrases`), both cannot be.
- *Commands.* A name the agent reports normalises to the key of its template, and an exact match is tried before aliases
  and parts (`OwnName`, `ExactMatch`), so a reported name leads back to its command. Every piece of a
  reported name belongs to one game (`Owner`), so that no part of it matches another's (`ReportedNormal`, `KeyKinds`). A candidate
  that matches a name, either way, shares a piece with it (`WithinShares`), hence a fallback needs a listed name with a piece of its game. For the text: the
  reader after the quoted form of the first characters of a message has heard those characters (`QuotedReads`, by
  induction over the message; `EscapeHeard` for one character), and a trimmed text of one field has no white space (`OneField`).

Only model-checked: liveness (`EveryRequestEnds`, `EveryRequestAnswered`, `CallReturns`, `SignalLeadsToExit`, `DisconnectNoticed`), which is
out of the prover's reach like every statement about fairness or `ENABLED`.

## 6. Not modelled

- *Swagger documentation* (`docs/docs.go`): generated text.
- *HTTP*: fields of JSON values, path values, logging and its redaction, which change no state. A start-up that
  fails ends the process before anything runs.
- *Configuration*: single values with their defaults, spellings of Booleans, the check for the Discord token.
- *Console text*: the words of the templates around a message. `executeBroadcastTemplate` failing, which none of the built-in
  templates does. Upper and lower case in transport names.
- *Bridge*: the text put in front of a message; a chat plugin that does not tag what it posts, which the code cannot tell
  from a user; an order of chat messages, which it does not promise.
- *Discord*: session, gateway events and the retries inside the library. `SendMessage` is `Post` followed by `SendOk` or `SendFails`.
- *Clients*: the encoding of packets, the demultiplexing of a Docker stream, both the libraries'; a write to
  a Docker attachment that never returns.

## 7. Plan

Done, in this order: `Config`/`Targets`, `GameMatch`, `Dispatch` with `FanOut` and its proofs, `Notifier`; then `Pelican`, the
clients with `ConsoleCall`, `Bridge`, `EnvFile`, `Rendering`, `Lifecycle` with `Http`, and the proofs of those that are state machines;
then `ListFacts` and the proofs about lists, names and texts (`StartupProofs`, `CommandsProofs`).

Next, by importance:

1. The same join for the fallback: `Dispatch` with the games of `GameMatch`, so that `AcceptedMeansDelivered` speaks of the allowlist.
2. Single values of the configuration, and the rest of the start-up.
