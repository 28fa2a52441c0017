------------------------------ MODULE GameMatch ------------------------------
(* How a game name selects a broadcast template and how the telnet ->       *)
(* Docker allowlist is matched (internal/service/broadcast.go).             *)
(*                                                                          *)
(* Substring tests are the whole difficulty of this code, characters are    *)
(* not: a word is a sequence of atoms, the pieces that the names known to   *)
(* the program share ("papermc" is paper + mc), a name as an operator or    *)
(* Pelican writes it is a sequence of words, and its normal form, lower     *)
(* case letters and digits only, is its words run together.                 *)
EXTENDS Common, SequencesExt

Words(w) == <<w>>                    \* a word of one atom

ignoredGameTokens ==
  {Words(w) : w \in {"dedicated", "server", "servers", "headless", "edition",
                     "editions", "game"}}

(* broadcastTemplates: key -> Game, keys in sortedBroadcastTemplateKeys     *)
(* order (longest first, then alphabetic).                                  *)
broadcastTemplateKeys ==
  << <<"project", "zomboid">>, <<"satisfactory">>, <<"7", "days", "to", "die">>,
     <<"minecraft">>, <<"starbound">>, <<"factorio">>, <<"palworld">>,
     <<"terraria">>, <<"unturned">>, <<"vrising">>, <<"7", "dtd">>, <<"rust">> >>

SevenDays == << <<"7">>, <<"days">>, <<"to">>, <<"die">> >>
ProjectZomboid == << <<"project">>, <<"zomboid">> >>

Template(g, verb) == [Game |-> g, Template |-> verb]

(* Templates that name two games by an abbreviation no key matches.         *)
AbbreviatedTemplates ==
  [k \in ToSet(broadcastTemplateKeys) |->
     CASE k = <<"project", "zomboid">> -> Template(Words(Words("pz")), "servermsg")
       [] k = <<"satisfactory">> -> Template(Words(Words("sf")), "Broadcast")
       [] OTHER -> Template(Words(k), "say")]

(* A template is known by the console command it starts with.               *)
broadcastTemplates ==
  [k \in ToSet(broadcastTemplateKeys) |->
     CASE k = <<"project", "zomboid">> -> Template(ProjectZomboid, "servermsg")
       [] k \in {<<"7", "dtd">>, <<"7", "days", "to", "die">>} -> Template(SevenDays, "say")
       [] k \in {<<"satisfactory">>, <<"palworld">>} -> Template(Words(k), "Broadcast")
       [] k = <<"vrising">> -> Template(Words(k), "announce")
       [] k = <<"factorio">> -> Template(Words(k), "game.print")
       [] OTHER -> Template(Words(k), "say")]

(* buildBroadcastGameAliases, in sortedBroadcastGameAliasKeys order.        *)
broadcastGameAliasKeys ==
  << <<"paper", "mc", "server">>, <<"neo", "forge">>, <<"paper", "mc">>, <<"vanilla">>,
     <<"bukkit">>, <<"fabric">>, <<"purpur">>, <<"spigot">>, <<"tshock">>,
     <<"forge">>, <<"paper">> >>

broadcastGameAliases ==
  [a \in ToSet(broadcastGameAliasKeys) |->
     IF a = <<"tshock">> THEN <<"terraria">> ELSE <<"minecraft">>]

normalizeGameName(name) == FlattenSeq(name)

(* The whole name, and the name without the words that say nothing.         *)
normalizeGameNameCandidates(name) ==
  LET base == normalizeGameName(name)
      filtered == FlattenSeq(Select(name, {i \in DOMAIN name : name[i] \notin ignoredGameTokens}))
  IN  IF base = <<>> THEN <<>>
      ELSE IF filtered \in {<<>>, base} THEN <<base>>
      ELSE <<base, filtered>>

(* strings.Contains *)
Within(part, whole) ==
  \E i \in 0..(Len(whole) - Len(part)) : SubSeq(whole, i + 1, i + Len(part)) = part

Matches(candidate, key) == Within(key, candidate) \/ Within(candidate, key)

(* The first key that matches the first candidate that any key matches.     *)
FirstMatch(candidates, keys) ==
  LET hits == Select(candidates, {i \in DOMAIN candidates :
                                    \E k \in ToSet(keys) : Matches(candidates[i], k)})
  IN  IF hits = <<>> THEN <<>>
      ELSE Select(keys, {i \in DOMAIN keys : Matches(hits[1], keys[i])})[1]

(* The key of the template chosen for a game, <<>> if none matches: exact   *)
(* matches of any candidate first, then aliases, then partial matches.      *)
lookupBroadcastTemplate(name) ==
  LET candidates == normalizeGameNameCandidates(name)
      exact == Select(candidates, {i \in DOMAIN candidates :
                                     candidates[i] \in ToSet(broadcastTemplateKeys)})
      alias == FirstMatch(candidates, broadcastGameAliasKeys)
  IN  IF exact # <<>> THEN exact[1]
      ELSE IF alias # <<>> THEN broadcastGameAliases[alias]
      ELSE FirstMatch(candidates, broadcastTemplateKeys)

DefaultGame == << <<"default">> >>

(* buildBroadcastCommand: the template it executes ...                       *)
BroadcastTemplate(name) ==
  LET key == lookupBroadcastTemplate(name)
  IN  IF key # <<>> THEN broadcastTemplates[key]
      ELSE Template(IF name = <<>> THEN DefaultGame ELSE name, "say")

(* ... and the game it reports with the command.                             *)
BroadcastGame(name, override) ==
  IF override THEN name ELSE BroadcastTemplate(name).Game

(* An allowlist of names in lower case, spaces kept.                        *)
SpacedAllowlist(values) ==
  {FlattenSeq([i \in DOMAIN v |-> IF i = 1 THEN v[i] ELSE <<" ">> \o v[i]]) : v \in values}

buildGameAllowlist(values) ==
  UNION {ToSet(normalizeGameNameCandidates(v)) : v \in values}

gameMatchesNormalizedKey(name, key) ==
  \E c \in ToSet(normalizeGameNameCandidates(name)) : Matches(c, key)

(* A rule that never looks at the allowlist.                                *)
AnyGameFallsBack(allowlist, name) == TRUE

shouldFallbackToDocker(allowlist, name) ==
  \/ allowlist = {}
  \/ \E key \in allowlist : gameMatchesNormalizedKey(name, key)

=============================================================================
