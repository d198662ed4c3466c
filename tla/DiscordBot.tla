------------------------------ MODULE DiscordBot ------------------------------
(***************************************************************************)
(* The task of the auto torrent shutoff job (lib.rs:1051-1075) and the     *)
(* Discord bot it runs (discord_bot.rs): the webhook listener is started   *)
(* first, then the client, whose ready events make the guild's channels    *)
(* and commands.  Each event is handled by a task of its own.              *)
(***************************************************************************)
EXTENDS Integers

CONSTANTS
    Handlers,       \* ready events handled at the same time
    Names,          \* names of channels
    Admin,          \* admin-notifications, the webhook's channel
    Payloads,       \* what Plex posts
    MaxCopies       \* bound: channels of one name

ASSUME BotAssumption == MaxCopies \in Nat \ {0} /\ Admin \in Names

VARIABLES
    configured, \* the channels of the configuration, each once
    bot,        \* "off", "webhook", "bind", "connect" or "up"
    hook,       \* the webhook listener serves
    chan,       \* per name: how many channels of the guild have it
    commands,   \* in Discord: "old", "none" or "registered"
    flag,       \* has_ready_been_called
    pc,         \* per handler: "idle", "list", "create", "clear", "set" or "store"
    left,       \* per handler: the channels it has still to create
    post,       \* the last post of Plex, its status and the title it was told with
    failed,     \* history: since the start, a call of a ready handler failed
    doubled,    \* history: a list failed, or two ready handlers overlapped
    settled,    \* history: a ready handler that had Admin to make was done, and
                \* nothing had failed
    due         \* history: at this start nothing excuses a missing webhook

readyVars == <<chan, commands, pc, left, failed, doubled>>
vars == <<configured, bot, hook, flag, post, settled, due, readyVars>>

NoPost == [payload |-> "none", status |-> 0, title |-> "none"]

\* Any channels are configured, and any exist: someone may have made them by hand.
Init ==
    /\ configured \in SUBSET Names
    /\ bot = "off" /\ hook = FALSE /\ flag = FALSE
    /\ chan \in [Names -> {0, 1}]
    /\ commands = "old"
    /\ pc = [h \in Handlers |-> "idle"]
    /\ left = [h \in Handlers |-> {}]
    /\ post = NoPost
    /\ failed = FALSE /\ doubled = FALSE
    /\ settled = FALSE /\ due = FALSE

-----------------------------------------------------------------------------
(* The task of the job.                                                    *)

\* An operator or a supervisor starts the server, with this configuration or
\* another one.
Start ==
    /\ bot = "off"
    /\ bot' = "webhook"
    /\ configured' \in SUBSET Names
    /\ failed' = FALSE
    /\ due' = settled
    /\ UNCHANGED <<hook, flag, post, settled, chan, commands, pc, left, doubled>>

\* start_webhook_listener: the channels are asked for; none of the name, or an
\* error, and there is no webhook until the next start.
HookChannel ==
    /\ bot = "webhook"
    /\ \/ chan[Admin] > 0 /\ bot' = "bind" /\ UNCHANGED due
       \/ chan[Admin] = 0 /\ bot' = "connect" /\ UNCHANGED due
       \/ bot' = "connect" /\ due' = FALSE
    /\ UNCHANGED <<configured, hook, flag, post, settled, readyVars>>

HookBind ==
    /\ bot = "bind"
    /\ bot' = "connect"
    /\ \/ hook' = TRUE /\ UNCHANGED due
       \/ due' = FALSE /\ UNCHANGED hook
    /\ UNCHANGED <<configured, flag, post, settled, readyVars>>

Connect ==
    /\ bot = "connect"
    /\ bot' = "up"
    /\ UNCHANGED <<configured, hook, flag, post, settled, due, readyVars>>

\* Mutant of ClientEnds: the flag outlives the server.
ClientEndsKeepsFlag ==
    /\ bot \in {"connect", "up"}
    /\ bot' = "off"
    /\ hook' = FALSE
    /\ pc' = [h \in Handlers |-> "idle"]
    /\ left' = [h \in Handlers |-> {}]
    /\ UNCHANGED <<configured, flag, post, settled, due, chan, commands, failed, doubled>>

\* The client cannot be made, or ends: the task returns, and the server and all
\* its tasks with it (module Server).
ClientEnds ==
    /\ bot \in {"connect", "up"}
    /\ bot' = "off"
    /\ hook' = FALSE
    /\ flag' = FALSE
    /\ pc' = [h \in Handlers |-> "idle"]
    /\ left' = [h \in Handlers |-> {}]
    /\ UNCHANGED <<configured, post, settled, due, chan, commands, failed, doubled>>

-----------------------------------------------------------------------------
(* ready.                                                                  *)

OfReady == UNCHANGED <<configured, bot, hook, flag, post, settled, due>>

Go(h, p) == pc' = [pc EXCEPT ![h] = p]

\* Discord sends it anew after a lost session.  With the flag set it is skipped.
Ready(h) ==
    /\ bot = "up" /\ pc[h] = "idle" /\ ~flag
    /\ Go(h, "list")
    /\ doubled' = (doubled \/ \E g \in Handlers : pc[g] # "idle")
    /\ UNCHANGED <<chan, commands, left, failed>> /\ OfReady

\* What the handler found, or nothing when the call failed.
Missing(h, found) ==
    /\ left' = [left EXCEPT ![h] = configured \ found]
    /\ Go(h, IF configured \subseteq found THEN "clear" ELSE "create")
    /\ UNCHANGED <<chan, commands>> /\ OfReady

List(h) ==
    /\ pc[h] = "list"
    /\ Missing(h, {c \in Names : chan[c] > 0})
    /\ UNCHANGED <<failed, doubled>>

ListFails(h) ==
    /\ pc[h] = "list"
    /\ Missing(h, {})
    /\ failed' = TRUE /\ doubled' = TRUE

\* The loop goes on after a channel that was made and after an error.
NextChannel(h, c) ==
    /\ left' = [left EXCEPT ![h] = @ \ {c}]
    /\ Go(h, IF left[h] = {c} THEN "clear" ELSE "create")
    /\ UNCHANGED <<commands, doubled>> /\ OfReady

\* Mutant of Create: the loop ends with the first channel.
CreateOne(h, c) ==
    /\ pc[h] = "create" /\ c \in left[h] /\ chan[c] < MaxCopies
    /\ chan' = [chan EXCEPT ![c] = @ + 1]
    /\ left' = [left EXCEPT ![h] = {}]
    /\ Go(h, "clear")
    /\ UNCHANGED <<commands, failed, doubled>> /\ OfReady

Create(h, c) ==
    /\ pc[h] = "create" /\ c \in left[h] /\ chan[c] < MaxCopies
    /\ chan' = [chan EXCEPT ![c] = @ + 1]
    /\ NextChannel(h, c)
    /\ UNCHANGED failed

\* The response of a call that was carried out may be lost as well.
CreateFails(h, c) ==
    /\ pc[h] = "create" /\ c \in left[h]
    /\ \/ UNCHANGED chan
       \/ chan[c] < MaxCopies /\ chan' = [chan EXCEPT ![c] = @ + 1]
    /\ failed' = TRUE
    /\ NextChannel(h, c)

\* set_commands, with none and then with all of get_create_commands.
SetCommands(h, from, c, to) ==
    /\ pc[h] = from
    /\ Go(h, to)
    /\ \/ commands' = c /\ UNCHANGED failed
       \/ commands' \in {commands, c} /\ failed' = TRUE
    /\ UNCHANGED <<chan, left, doubled>> /\ OfReady

Clear(h) == SetCommands(h, "clear", "none", "set")

Register(h) == SetCommands(h, "set", "registered", "store")

Store(h) ==
    /\ pc[h] = "store"
    /\ flag' = TRUE
    /\ Go(h, "idle")
    /\ settled' = (settled \/ (~failed /\ Admin \in configured))
    /\ UNCHANGED <<configured, bot, hook, post, due, chan, commands, left, failed, doubled>>

-----------------------------------------------------------------------------
(* The webhook.  A payload has an account or not, an event and a kind that *)
(* may be unknown, and some of the titles.                                 *)

Events == {"media.resume", "media.play", "media.stop", "media.pause", "library.new"}
Kinds == {"movie", "show", "episode"}

\* Metadata's own type goes before that of its library.
Kind(p) == IF p.type # "none" THEN p.type ELSE p.section

\* An episode is told by its series.
TitleKeys(p) ==
    IF Kind(p) = "episode" THEN <<"grandparentTitle", "grandparentSlug", "title">>
    ELSE <<"title">>

\* The first of the keys that is there.
Title(p) ==
    LET keys == TitleKeys(p)
        there == {k \in DOMAIN keys : keys[k] \in p.titles}
    IN  IF there = {} THEN "none"
        ELSE keys[CHOOSE k \in there : \A l \in there : k <= l]

Decodes(p) ==
    /\ p.account
    /\ p.event \in Events
    /\ Kind(p) \in Kinds
    /\ Title(p) # "none"

\* One multipart post with the field "payload".
Post(p) ==
    /\ hook
    /\ post' \in
          IF Decodes(p)
          THEN {[payload |-> p, status |-> 200, title |-> Title(p)],
                [payload |-> p, status |-> 502, title |-> "none"]}
          ELSE {[payload |-> p, status |-> 400, title |-> "none"]}
    /\ UNCHANGED <<configured, bot, hook, flag, settled, due, readyVars>>

\* One without it, or whose field cannot be read.
PostOther ==
    /\ hook
    /\ post' = [NoPost EXCEPT !.status = 400]
    /\ UNCHANGED <<configured, bot, hook, flag, settled, due, readyVars>>

-----------------------------------------------------------------------------

Next ==
    \/ Start \/ HookChannel \/ HookBind \/ Connect \/ ClientEnds
    \/ \E h \in Handlers :
          \/ Ready(h) \/ List(h) \/ ListFails(h)
          \/ \E c \in Names : Create(h, c) \/ CreateFails(h, c)
          \/ Clear(h) \/ Register(h) \/ Store(h)
    \/ \E p \in Payloads : Post(p)
    \/ PostOther

Spec == Init /\ [][Next]_vars

-----------------------------------------------------------------------------

\* Types; the flag and the handlers live as long as the client
\* (discord_bot.rs:182-187, lib.rs:1067-1070).
TypeOK ==
    /\ configured \in SUBSET Names
    /\ bot \in {"off", "webhook", "bind", "connect", "up"}
    /\ hook \in BOOLEAN /\ flag \in BOOLEAN
    /\ chan \in [Names -> 0 .. MaxCopies]
    /\ commands \in {"old", "none", "registered"}
    /\ pc \in [Handlers -> {"idle", "list", "create", "clear", "set", "store"}]
    /\ left \in [Handlers -> SUBSET configured]
    /\ post.status \in {0, 200, 400, 502}
    /\ failed \in BOOLEAN /\ doubled \in BOOLEAN
    /\ settled \in BOOLEAN /\ due \in BOOLEAN
    /\ \A h \in Handlers : left[h] # {} <=> pc[h] = "create"
    /\ bot # "up" => ~flag /\ \A h \in Handlers : pc[h] = "idle"

Idle == \A h \in Handlers : pc[h] = "idle"

\* When the flag is set and no handler is at work, the commands are registered
\* and every configured channel exists, unless Discord refused a call.
ReadyDone ==
    flag /\ Idle /\ ~failed =>
        commands = "registered" /\ \A c \in configured : chan[c] > 0

\* A channel is there twice only after a list that failed, or after two ready
\* events within the load and the store of the flag.
ChannelsOnce == ~doubled => \A c \in Names : chan[c] <= 1

\* Once a ready handler has made Admin, or found it, every later start has a
\* webhook, unless Discord or the port refused it.  The first start of all may have
\* none: the listener looks for the channel before ready makes it.  With a
\* configuration that lacks Admin there is one only if the channel was made otherwise.
WebhookThere == bot = "up" /\ due => hook

\* What is acknowledged to Plex was told in the channel, an episode by its series
\* whenever the payload names it.
PostsTold ==
    post.status = 200 =>
        /\ post.title # "none"
        /\ (post.payload.type = "episode" /\ "grandparentTitle" \in post.payload.titles
              => post.title = "grandparentTitle")

\* Nothing the bot has to set up is missing or doubled without an error on record
\* or a second ready event (discord_bot.rs:336-450, 257-322, 147-166).
SetUpExplained == ReadyDone /\ ChannelsOnce /\ WebhookThere /\ PostsTold
================================================================================
