------------------------------- MODULE Config -------------------------------
(* FromEnv (internal/config/config.go): how the lists of the environment    *)
(* become the lists the components are built from.                          *)
(*                                                                          *)
(* The value of an environment variable is the sequence of its comma        *)
(* separated parts after TrimSpace, a part of white space only being Blank. *)
(* Every setting has a list variable (..._NAMES) and a single-value alias   *)
(* (..._NAME), so an environment maps a setting to a pair of values.        *)
EXTENDS Common, SequencesExt

Settings == {"DOCKER_DEFAULT_CONTAINER_NAMES",
             "RCON_DEFAULT_CONTAINER_NAMES",
             "RCON_DEFAULT_CONTAINER_TRANSPORTS",
             "RCON_DEFAULT_CONTAINER_ADDRESSES",
             "RCON_DEFAULT_CONTAINER_PASSWORDS"}

(* An environment gives every setting its list variable and its alias.      *)
Pairs(env, settings) ==
  \A s \in settings : s \in DOMAIN env /\ env[s] \in Seq(STRING) \X Seq(STRING)

(* The loop without its map of the parts seen.                              *)
EveryPart(values) ==
  LET parts == FlattenSeq(values) IN Select(parts, {i \in DOMAIN parts : parts[i] # Blank})

(* The loop shared, line for line, by parseDelimitedList, by                *)
(* normalizeContainerRefs and by normalizeChannelIDs: the parts of all      *)
(* values in order, without the blank ones and without repetitions.         *)
DistinctParts(values) ==
  LET parts == FlattenSeq(values)
  IN  Select(parts, {i \in DOMAIN parts :
                       parts[i] # Blank /\ \A j \in 1..(i - 1) : parts[j] # parts[i]})

parseDelimitedList(values) == DistinctParts(values)

FromEnv(env) == [s \in DOMAIN env |-> parseDelimitedList(env[s])]

=============================================================================
