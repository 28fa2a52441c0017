---------------------------- MODULE GameFallback ----------------------------
(* The agent is started with DOCKER_FALLBACK_GAME_TYPES and then serves     *)
(* broadcasts for games that requests or Pelican name                       *)
(* (buildBroadcastCommand and shouldFallbackToDocker of broadcast.go).      *)
EXTENDS GameMatch

CONSTANTS
  Games,          \* names in requests and of Pelican eggs
  FallbackTypes   \* sets of names DOCKER_FALLBACK_GAME_TYPES may list

(* Names are sequences of words; what Pelican and requests say, and what an  *)
(* operator lists.                                                          *)
ASSUME NameAssumption ==
  /\ \A g \in Games : g \in Seq(Seq(STRING))
  /\ \A T \in FallbackTypes : \A v \in T : v \in Seq(Seq(STRING))

VARIABLES
  types,          \* DOCKER_FALLBACK_GAME_TYPES
  game,           \* the game of the last broadcast
  override,       \* it came with a command of its own
  reported,       \* game of the delivery, input of the fallback rule
  fallback        \* what the fallback rule says

vars == <<types, game, override, reported, fallback>>

Init ==
  /\ types \in FallbackTypes
  /\ game = <<>>
  /\ override = FALSE
  /\ reported = <<>>
  /\ fallback = FALSE

Broadcast(g, o) ==
  /\ game' = g
  /\ override' = o
  /\ reported' = BroadcastGame(g, o)
  /\ fallback' = shouldFallbackToDocker(buildGameAllowlist(types), BroadcastGame(g, o))
  /\ UNCHANGED types

Next == \E g \in Games, o \in BOOLEAN : Broadcast(g, o)

Spec == Init /\ [][Next]_vars

-----------------------------------------------------------------------------
(* Properties                                                               *)

TypeOK ==
  /\ types \in FallbackTypes
  /\ game \in Games \cup {<<>>}
  /\ reported \in Games \cup {t.Game : t \in Range(broadcastTemplates)} \cup {<<>>, DefaultGame}
  /\ {override, fallback} \subseteq BOOLEAN

(* A client that broadcasts again with the "game" of a delivery gets the     *)
(* same console command: the names reported are names the matching, exact,   *)
(* by alias or by substring, leads back to the same template.                *)
ReportedGameSameCommand ==
  ~override /\ reported # <<>> =>
    BroadcastTemplate(reported).Template = BroadcastTemplate(game).Template

(* An operator may copy the "game" of a delivery into the allowlist: a       *)
(* broadcast whose report names an allowed game falls back.                  *)
ReportedGameMayBeAllowed ==
  reported # <<>> /\ reported \in types => fallback

(* An allowlist never lets one game of the template table fall back in the   *)
(* name of another: if every listed type selects a template, a broadcast     *)
(* built from a template falls back only if a listed type selects a template *)
(* for the same game.                                                        *)
FallbackStaysWithinGame ==
  /\ types # {}
  /\ \A v \in types : lookupBroadcastTemplate(v) # <<>>
  /\ lookupBroadcastTemplate(game) # <<>>
  /\ ~override
  /\ fallback
  => \E v \in types : broadcastTemplates[lookupBroadcastTemplate(v)].Game = reported

(* DOCKER_FALLBACK_GAME_TYPES holds "game names that are allowed to fall     *)
(* back": a broadcast for a game listed there may fall back.                 *)
ListedGameFallsBack == game \in types => fallback

=============================================================================
