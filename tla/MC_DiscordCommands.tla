-------------------------- MODULE MC_DiscordCommands --------------------------
EXTENDS DiscordCommands, TLC

CONSTANTS i1, i2

MCSlots == {i1, i2}
MCCommands == {"add", "remove", "search", "restart_services", "grant_access", "help"}
Removals == {"add", "remove"}
MCApps == <<"Plex", "Radarr">>
MCSteps == AllSteps

Symmetry == Permutations(MCSlots)
================================================================================
