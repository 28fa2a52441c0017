----------------------------- MODULE MCCommands -----------------------------
(* The commands of broadcasts, for TLC: the games they are for and the      *)
(* texts they carry, one of the two in a run.                               *)
EXTENDS GameFallback

CONSTANTS
  Parts,                  \* those to check
  Letters, MaxLength      \* of Rendering

VARIABLES
  part,
  message, template, argument                  \* of Rendering

rendering == <<message, template, argument>>
commandVars == <<part, vars, rendering>>

R == INSTANCE Rendering

CommandsInit == part \in Parts /\ Init /\ R!Init /\ (part = "texts" => types = {})

CommandsNext ==
  /\ UNCHANGED part
  /\ \/ part = "games" /\ Next /\ UNCHANGED rendering
     \/ part = "texts" /\ R!Next /\ UNCHANGED vars

CommandsSpec == CommandsInit /\ [][CommandsNext]_commandVars

-----------------------------------------------------------------------------
(* The players see what was sent: MessageArrives of Rendering.              *)
MessageArrives == R!MessageArrives

-----------------------------------------------------------------------------
(* Names and allowlists.                                                    *)

Known == {<<k>> : k \in ToSet(broadcastTemplateKeys)} \cup
         {broadcastTemplates[k].Game : k \in ToSet(broadcastTemplateKeys)}

Dedicated(g) == << <<"dedicated">> >> \o g \o << <<"server">> >>

Others == { <<>>, << <<"server">> >>, << <<"paper">> >>, << <<"paper", "mc">>, <<"edition">> >>,
            << <<"vanilla">>, <<"rust">> >>, << <<"tshock">> >>, << <<"project">> >>,
            << <<"die">> >>, << <<"valheim">> >>,
            << <<"dont">>, <<"starve">>, <<"together">> >> }

AllGames == Known \cup {Dedicated(g) : g \in Known} \cup Others

(* Nothing, one or two of the games the program reports, the aliases.       *)
ReportedGames == {broadcastTemplates[k].Game : k \in ToSet(broadcastTemplateKeys)}

SomeTypes == {{}} \cup {{g, h} : g, h \in ReportedGames} \cup
             {{Dedicated(g)} : g \in ReportedGames} \cup
             {{<< <<"paper">> >>}, {<< <<"valheim">> >>}}

(* The list of .env.example: template keys, "7dtd" among them.              *)
ExampleTypes ==
  {{ << <<"minecraft">> >>, << <<"vrising">> >>, << <<"7", "dtd">> >>, << <<"terraria">> >>,
     << <<"unturned">> >>, << <<"starbound">> >>, << <<"satisfactory">> >>,
     << <<"palworld">> >>, << <<"rust">> >>, << <<"project", "zomboid">> >>,
     << <<"factorio">> >> }}

=============================================================================
