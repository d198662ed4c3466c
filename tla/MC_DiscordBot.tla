---------------------------- MODULE MC_DiscordBot ----------------------------
EXTENDS DiscordBot

MCHandlers == {"h1", "h2"}
MCNames == {"admin-notifications", "other"}

Payload(e, t, s, T) ==
    [account |-> TRUE, event |-> e, type |-> t, section |-> s, titles |-> T]

Named == {"title", "grandparentTitle", "grandparentSlug"}

MCPayloads ==
    { Payload("media.play", "episode", "show", Named),
      Payload("media.stop", "none", "movie", {"title"}),
      Payload("library.new", "episode", "show", {"title", "grandparentSlug"}),
      Payload("media.play", "season", "show", Named) }
================================================================================
