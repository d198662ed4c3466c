---------------------------- MODULE DiscordBot_proof ----------------------------
(* The Discord bot, for any number of ready events at the same time, any      *)
(* configuration, and whatever Plex posts: what it has to set up is there      *)
(* and there once, or an error or a second ready event explains why not.      *)
EXTENDS DiscordBot, TLAPS

USE BotAssumption

-----------------------------------------------------------------------------
(* The inductive invariant.                                                *)

\* The truth values of TypeOK.
Flags ==
    /\ hook \in BOOLEAN /\ flag \in BOOLEAN
    /\ failed \in BOOLEAN /\ doubled \in BOOLEAN
    /\ settled \in BOOLEAN /\ due \in BOOLEAN

AllThere == \A c \in configured : chan[c] > 0

\* While nothing has failed a handler is past the loop only with all channels
\* there, and a channel the loop has passed is there.
ChannelsMade ==
    ~failed =>
        /\ flag => AllThere
        /\ \A h \in Handlers : pc[h] \in {"clear", "set", "store"} => AllThere
        /\ \A h \in Handlers : pc[h] = "create" =>
              \A c \in configured \ left[h] : chan[c] > 0

\* Once a handler has registered the commands, only one that has just cleared
\* them, and is about to register them, has taken them away.
CommandsSet ==
    ~failed /\ (flag \/ \E h \in Handlers : pc[h] = "store") =>
        commands = "registered" \/ \E g \in Handlers : pc[g] = "set"

\* Without overlap there is one handler, and what it has still to create is not
\* there.
OneHandler ==
    ~doubled =>
        /\ \A g, h \in Handlers : pc[g] # "idle" /\ pc[h] # "idle" => g = h
        /\ \A h \in Handlers : \A c \in left[h] : chan[c] = 0
        /\ \A c \in Names : chan[c] <= 1

\* A handler that had Admin to make has left the webhook its channel, for all later
\* starts.
HookDue ==
    /\ settled \/ due => chan[Admin] > 0
    /\ bot \in {"connect", "up"} /\ due => hook

IInv == TypeOK /\ ChannelsMade /\ CommandsSet /\ OneHandler /\ HookDue /\ PostsTold

LEMMA Initially == Init => IInv
<1> SUFFICES ASSUME Init PROVE IInv
    OBVIOUS
<1>1. TypeOK
  <2>1. Flags
      BY Zenon DEF Init, Flags
  <2>2. /\ chan \in [Names -> 0 .. MaxCopies]
        /\ pc \in [Handlers -> {"idle", "list", "create", "clear", "set", "store"}]
        /\ left \in [Handlers -> SUBSET configured]
        /\ \A h \in Handlers : left[h] = {} /\ pc[h] = "idle"
      BY DEF Init
  <2>3. /\ bot = "off" /\ ~flag /\ commands = "old" /\ post.status = 0
        /\ configured \in SUBSET Names
      BY DEF Init, NoPost
  <2> QED
      BY <2>1, <2>2, <2>3 DEF TypeOK, Flags
<1>2. ChannelsMade /\ CommandsSet
    BY DEF Init, ChannelsMade, CommandsSet
<1>3. OneHandler
    BY DEF Init, OneHandler
<1>4. HookDue /\ PostsTold
    BY DEF Init, HookDue, PostsTold, NoPost
<1> QED
    BY <1>1, <1>2, <1>3, <1>4 DEF IInv

-----------------------------------------------------------------------------
(* The task of the job.                                                    *)

\* What is proved of the handlers holds when the guild and they stay as they are.
LEMMA HandlersKept ==
    ASSUME IInv, UNCHANGED <<configured, chan, commands, flag, pc, left, failed, doubled>>
    PROVE  ChannelsMade' /\ CommandsSet' /\ OneHandler'
BY DEF IInv, ChannelsMade, CommandsSet, OneHandler, AllThere

LEMMA StartStep ==
    ASSUME IInv, Start
    PROVE  IInv'
<1> USE DEF IInv
<1>1. /\ bot = "off" /\ bot' = "webhook" /\ failed' = FALSE /\ due' = settled
      /\ configured' \in SUBSET Names
      /\ UNCHANGED <<hook, flag, post, settled, chan, commands, pc, left, doubled>>
    BY DEF Start
<1>2. ~flag /\ \A h \in Handlers : pc[h] = "idle" /\ left[h] = {}
    BY <1>1 DEF TypeOK
<1>3. TypeOK'
  <2>1. Flags'
      BY <1>1, Zenon DEF TypeOK, Flags
  <2>2. left' \in [Handlers -> SUBSET configured']
      BY <1>1, <1>2 DEF TypeOK
  <2> QED
      BY <1>1, <1>2, <2>1, <2>2 DEF TypeOK, Flags
<1>4. ChannelsMade' /\ CommandsSet'
    BY <1>1, <1>2 DEF ChannelsMade, CommandsSet
<1>5. OneHandler'
    BY <1>1 DEF OneHandler
<1>6. HookDue' /\ PostsTold'
    BY <1>1 DEF HookDue, PostsTold
<1> QED
    BY <1>3, <1>4, <1>5, <1>6

\* The webhook is started on the channel that is there, or it is not due.
LEMMA HookStep ==
    ASSUME IInv, HookChannel \/ HookBind \/ Connect
    PROVE  IInv'
<1> USE DEF IInv
<1>0. hook \in BOOLEAN /\ due \in BOOLEAN
    BY DEF TypeOK
<1>1. /\ bot # "up" /\ bot' \in {"bind", "connect", "up"}
      /\ hook' \in BOOLEAN /\ due' \in BOOLEAN /\ (due' => due)
      /\ UNCHANGED <<configured, flag, post, settled, chan, commands, pc, left, failed,
                     doubled>>
  <2>1. UNCHANGED <<configured, flag, post, settled, chan, commands, pc, left, failed,
                    doubled>>
      BY DEF HookChannel, HookBind, Connect, readyVars
  <2>2. bot # "up" /\ bot' \in {"bind", "connect", "up"}
      BY DEF HookChannel, HookBind, Connect
  <2>3. (hook' = hook \/ hook' = TRUE) /\ (due' = due \/ due' = FALSE)
      BY Zenon DEF HookChannel, HookBind, Connect
  <2>4. hook' \in BOOLEAN
      BY <1>0, <2>3
  <2>5. CASE due' = due
      BY <1>0, <2>1, <2>2, <2>4, <2>5
  <2>6. CASE due' = FALSE
      BY <1>0, <2>1, <2>2, <2>4, <2>6
  <2> QED
      BY <2>3, <2>5, <2>6
<1>2. ~flag /\ \A h \in Handlers : pc[h] = "idle"
    BY <1>1 DEF TypeOK
<1>3. TypeOK'
    BY <1>1, <1>2 DEF TypeOK
<1>4. ChannelsMade' /\ CommandsSet' /\ OneHandler'
    BY <1>1, HandlersKept
<1>5. bot' \in {"connect", "up"} /\ due' => hook'
  <2>1. ~(chan[Admin] = 0 /\ due)
      BY DEF HookDue
  <2>2. CASE HookChannel
      BY <1>0, <2>1, <2>2, Zenon DEF HookChannel
  <2>3. CASE HookBind
      BY <1>0, <2>3, Zenon DEF HookBind
  <2>4. CASE Connect
      BY <2>4 DEF Connect, HookDue
  <2> QED
      BY <2>2, <2>3, <2>4
<1>6. HookDue' /\ PostsTold'
    BY <1>1, <1>5 DEF HookDue, PostsTold
<1> QED
    BY <1>3, <1>4, <1>6

\* The client ends and its handlers with it.
LEMMA ClientEndsStep ==
    ASSUME IInv, ClientEnds
    PROVE  IInv'
<1> USE DEF IInv
<1>1. /\ bot' = "off" /\ hook' = FALSE /\ flag' = FALSE
      /\ pc' = [h \in Handlers |-> "idle"] /\ left' = [h \in Handlers |-> {}]
      /\ UNCHANGED <<configured, post, settled, due, chan, commands, failed, doubled>>
    BY DEF ClientEnds
<1>2. TypeOK'
    BY <1>1 DEF TypeOK
<1>3. ChannelsMade' /\ CommandsSet'
    BY <1>1 DEF ChannelsMade, CommandsSet
<1>4. OneHandler'
    BY <1>1 DEF OneHandler
<1>5. HookDue' /\ PostsTold'
    BY <1>1 DEF HookDue, PostsTold
<1> QED
    BY <1>2, <1>3, <1>4, <1>5

-----------------------------------------------------------------------------
(* ready.                                                                  *)

\* What no handler touches.
LEMMA ReadyKeeps ==
    ASSUME IInv, OfReady, \A c \in Names : chan'[c] \in Nat /\ chan'[c] >= chan[c]
    PROVE  HookDue' /\ PostsTold'
<1>1. chan[Admin] \in Nat /\ chan'[Admin] \in Nat /\ chan'[Admin] >= chan[Admin]
    BY DEF IInv, TypeOK
<1> QED
    BY <1>1 DEF IInv, OfReady, HookDue, PostsTold

\* A handler begins.  It is alone, or that is on record.
LEMMA ReadyStep ==
    ASSUME IInv, NEW h \in Handlers, Ready(h)
    PROVE  IInv'
<1> USE DEF IInv
<1>1. /\ bot = "up" /\ pc[h] = "idle" /\ ~flag
      /\ pc' = [pc EXCEPT ![h] = "list"]
      /\ doubled' = (doubled \/ \E g \in Handlers : pc[g] # "idle")
      /\ UNCHANGED <<configured, chan, commands, left, failed, bot, hook, flag, post, settled,
                     due>>
      /\ OfReady
    BY DEF Ready, Go, OfReady
<1>2. TypeOK'
    BY <1>1 DEF TypeOK
<1>3. ChannelsMade' /\ CommandsSet'
    BY <1>1 DEF ChannelsMade, CommandsSet, AllThere, TypeOK
<1>4. OneHandler'
  <2> SUFFICES ASSUME ~doubled' PROVE OneHandler'
      BY DEF OneHandler
  <2>1. ~doubled /\ \A g \in Handlers : pc[g] = "idle"
      BY <1>1, Zenon
  <2>2. \A g \in Handlers : pc'[g] # "idle" => g = h
      BY <1>1, <2>1 DEF TypeOK
  <2> QED
      BY <1>1, <2>1, <2>2 DEF OneHandler
<1>5. HookDue' /\ PostsTold'
    BY <1>1, ReadyKeeps DEF TypeOK
<1> QED
    BY <1>2, <1>3, <1>4, <1>5

\* What is missing is what the list did not show: all of it, when the list failed.
LEMMA ListStep ==
    ASSUME IInv, NEW h \in Handlers, List(h) \/ ListFails(h)
    PROVE  IInv'
<1> USE DEF IInv
<1>1. PICK found \in SUBSET Names :
          /\ Missing(h, found)
          /\ \/ /\ found = {c \in Names : chan[c] > 0}
                /\ UNCHANGED <<failed, doubled>>
             \/ failed' = TRUE /\ doubled' = TRUE
    BY DEF List, ListFails
<1>2. /\ pc[h] = "list"
      /\ left' = [left EXCEPT ![h] = configured \ found]
      /\ pc' = [pc EXCEPT ![h] = IF configured \subseteq found THEN "clear" ELSE "create"]
      /\ UNCHANGED <<configured, chan, commands, bot, hook, flag, post, settled, due>>
      /\ OfReady
    BY <1>1 DEF List, ListFails, Missing, Go, OfReady
<1>3. bot = "up"
    BY <1>2 DEF TypeOK
<1>4. /\ left' \in [Handlers -> SUBSET configured]
      /\ pc' \in [Handlers -> {"idle", "list", "create", "clear", "set", "store"}]
      /\ \A g \in Handlers : left'[g] # {} <=> pc'[g] = "create"
    BY <1>1, <1>2 DEF TypeOK
<1>5. TypeOK'
  <2>1. Flags'
      BY <1>1, <1>2, Zenon DEF TypeOK, Flags
  <2> QED
      BY <1>2, <1>3, <1>4, <2>1 DEF TypeOK, Flags
<1>6. ChannelsMade'
  <2> SUFFICES ASSUME ~failed' PROVE ChannelsMade'
      BY DEF ChannelsMade
  <2>1. found = {c \in Names : chan[c] > 0} /\ ~failed
      BY <1>1
  <2>2. \A g \in Handlers : pc'[g] \in {"clear", "set", "store"} => AllThere
      BY <1>2, <2>1 DEF ChannelsMade, AllThere, TypeOK
  <2>3. \A g \in Handlers : pc'[g] = "create" => \A c \in configured \ left'[g] : chan[c] > 0
      BY <1>2, <2>1 DEF ChannelsMade, TypeOK
  <2> QED
      BY <1>2, <2>1, <2>2, <2>3 DEF ChannelsMade, AllThere
<1>7. CommandsSet'
  <2> SUFFICES ASSUME ~failed' PROVE CommandsSet'
      BY DEF CommandsSet
  <2>1. \A g \in Handlers : pc'[g] = "store" <=> pc[g] = "store"
      BY <1>2 DEF TypeOK
  <2>2. \A g \in Handlers : pc[g] = "set" => pc'[g] = "set"
      BY <1>2 DEF TypeOK
  <2> QED
      BY <1>1, <1>2, <2>1, <2>2 DEF CommandsSet
<1>8. OneHandler'
  <2> SUFFICES ASSUME ~doubled' PROVE OneHandler'
      BY DEF OneHandler
  <2>1. found = {c \in Names : chan[c] > 0} /\ ~doubled
      BY <1>1
  <2>2. \A g \in Handlers : pc'[g] # "idle" => pc[g] # "idle"
      BY <1>2 DEF TypeOK
  <2>3. \A g \in Handlers : \A c \in left'[g] : chan[c] = 0
      BY <1>2, <2>1 DEF OneHandler, TypeOK
  <2> QED
      BY <1>2, <2>1, <2>2, <2>3 DEF OneHandler
<1>9. HookDue' /\ PostsTold'
    BY <1>2, ReadyKeeps DEF TypeOK
<1> QED
    BY <1>5, <1>6, <1>7, <1>8, <1>9

\* One more channel is made, or not, and the loop goes on.
LEMMA CreateStep ==
    ASSUME IInv, NEW h \in Handlers, NEW c \in Names, Create(h, c) \/ CreateFails(h, c)
    PROVE  IInv'
<1> USE DEF IInv
<1>1. /\ pc[h] = "create" /\ c \in left[h]
      /\ left' = [left EXCEPT ![h] = left[h] \ {c}]
      /\ pc' = [pc EXCEPT ![h] = IF left[h] = {c} THEN "clear" ELSE "create"]
      /\ UNCHANGED <<configured, commands, doubled, bot, hook, flag, post, settled, due>>
      /\ OfReady
    BY DEF Create, CreateFails, NextChannel, Go, OfReady
<1>2. failed' \in BOOLEAN /\ (failed => failed')
    BY Zenon DEF Create, CreateFails, TypeOK
<1>3. \/ chan' = chan /\ failed'
      \/ chan[c] < MaxCopies /\ chan' = [chan EXCEPT ![c] = chan[c] + 1]
    BY DEF Create, CreateFails
<1>4. /\ chan' \in [Names -> 0 .. MaxCopies]
      /\ \A d \in Names : chan[d] \in Nat /\ chan'[d] \in Nat /\ chan'[d] >= chan[d]
      /\ \A d \in Names : d # c => chan'[d] = chan[d]
      /\ chan'[c] <= chan[c] + 1
      /\ ~failed' => chan'[c] > 0
    BY <1>3 DEF TypeOK
<1>5. bot = "up"
    BY <1>1 DEF TypeOK
<1>6. /\ left' \in [Handlers -> SUBSET configured]
      /\ pc' \in [Handlers -> {"idle", "list", "create", "clear", "set", "store"}]
      /\ \A g \in Handlers : left'[g] # {} <=> pc'[g] = "create"
    BY <1>1 DEF TypeOK
<1>7. TypeOK'
  <2>1. Flags'
      BY <1>1, <1>2, Zenon DEF TypeOK, Flags
  <2> QED
      BY <1>1, <1>4, <1>5, <1>6, <2>1 DEF TypeOK, Flags
<1>8. ChannelsMade'
  <2> SUFFICES ASSUME ~failed' PROVE ChannelsMade'
      BY DEF ChannelsMade
  <2>1. ~failed /\ chan'[c] > 0
      BY <1>2, <1>4
  <2>2. AllThere => AllThere'
      BY <1>1, <1>4 DEF AllThere, TypeOK
  <2>3. \A d \in configured \ left'[h] : chan'[d] > 0
      BY <1>1, <1>4, <2>1 DEF ChannelsMade, TypeOK
  <2>4. left'[h] = {} => AllThere'
      BY <1>1, <2>3 DEF AllThere
  <2>5. \A g \in Handlers : pc'[g] \in {"clear", "set", "store"} => AllThere'
      BY <1>1, <1>6, <2>1, <2>2, <2>4 DEF ChannelsMade, TypeOK
  <2>6. ASSUME NEW g \in Handlers, pc'[g] = "create", NEW d \in configured \ left'[g]
        PROVE  chan'[d] > 0
    <3>1. CASE g = h
        BY <2>3, <2>6, <3>1
    <3>2. CASE g # h
        BY <1>1, <1>4, <2>1, <2>6, <3>2 DEF ChannelsMade, TypeOK
    <3> QED
        BY <3>1, <3>2
  <2> QED
      BY <1>1, <2>1, <2>2, <2>5, <2>6 DEF ChannelsMade
<1>9. CommandsSet'
  <2>1. \A g \in Handlers : pc'[g] = "store" <=> pc[g] = "store"
      BY <1>1 DEF TypeOK
  <2>2. \A g \in Handlers : pc[g] = "set" => pc'[g] = "set"
      BY <1>1 DEF TypeOK
  <2> QED
      BY <1>1, <1>2, <2>1, <2>2 DEF CommandsSet
<1>10. OneHandler'
  <2> SUFFICES ASSUME ~doubled PROVE OneHandler'
      BY <1>1 DEF OneHandler
  <2>1. \A g \in Handlers : pc'[g] # "idle" => pc[g] # "idle"
      BY <1>1 DEF TypeOK
  <2>2. chan[c] = 0
      BY <1>1 DEF OneHandler
  <2>3. \A d \in Names : chan'[d] <= 1
      BY <1>4, <2>2 DEF OneHandler
  <2>4. ASSUME NEW g \in Handlers, NEW d \in left'[g]
        PROVE  chan'[d] = 0
    <3>1. g = h
        BY <1>1, <1>6, <2>1, <2>4 DEF OneHandler
    <3>2. d \in left[h] /\ d # c
        BY <1>1, <2>4, <3>1 DEF TypeOK
    <3> QED
        BY <1>4, <3>2 DEF OneHandler, TypeOK
  <2> QED
      BY <1>1, <2>1, <2>3, <2>4 DEF OneHandler
<1>11. HookDue' /\ PostsTold'
    BY <1>1, <1>4, ReadyKeeps
<1> QED
    BY <1>7, <1>8, <1>9, <1>10, <1>11

\* The commands are cleared by a handler that is about to register them.
LEMMA CommandsStep ==
    ASSUME IInv, NEW h \in Handlers, Clear(h) \/ Register(h)
    PROVE  IInv'
<1> USE DEF IInv
<1>1. \/ /\ pc[h] = "clear" /\ pc' = [pc EXCEPT ![h] = "set"]
         /\ commands' \in {commands, "none"}
      \/ /\ pc[h] = "set" /\ pc' = [pc EXCEPT ![h] = "store"]
         /\ commands' \in {commands, "registered"}
         /\ ~failed' => commands' = "registered"
    BY DEF Clear, Register, SetCommands, Go, TypeOK
<1>2. /\ failed' \in BOOLEAN /\ (failed => failed')
      /\ UNCHANGED <<configured, chan, left, doubled, bot, hook, flag, post, settled, due>>
      /\ OfReady
    BY DEF Clear, Register, SetCommands, OfReady, TypeOK
<1>3. bot = "up"
    BY <1>1 DEF TypeOK
<1>4. /\ pc' \in [Handlers -> {"idle", "list", "create", "clear", "set", "store"}]
      /\ \A g \in Handlers : left'[g] # {} <=> pc'[g] = "create"
    BY <1>1, <1>2 DEF TypeOK
<1>5. commands' \in {"old", "none", "registered"}
    BY <1>1 DEF TypeOK
<1>6. TypeOK'
    BY <1>2, <1>3, <1>4, <1>5 DEF TypeOK
<1>7. ChannelsMade'
    BY <1>1, <1>2 DEF ChannelsMade, AllThere, TypeOK
<1>8. CommandsSet'
  <2> SUFFICES ASSUME ~failed', flag \/ \E g \in Handlers : pc'[g] = "store"
               PROVE  commands' = "registered" \/ \E g \in Handlers : pc'[g] = "set"
      BY <1>2 DEF CommandsSet
  <2>1. CASE pc[h] = "clear"
      BY <1>1, <2>1 DEF TypeOK
  <2>2. CASE pc[h] = "set"
      BY <1>1, <2>2
  <2> QED
      BY <1>1, <2>1, <2>2
<1>9. OneHandler'
    BY <1>1, <1>2 DEF OneHandler, TypeOK
<1>10. HookDue' /\ PostsTold'
    BY <1>2, ReadyKeeps DEF TypeOK
<1> QED
    BY <1>6, <1>7, <1>8, <1>9, <1>10

\* The handler is done.
LEMMA StoreStep ==
    ASSUME IInv, NEW h \in Handlers, Store(h)
    PROVE  IInv'
<1> USE DEF IInv
<1>1. /\ pc[h] = "store" /\ flag' = TRUE /\ pc' = [pc EXCEPT ![h] = "idle"]
      /\ settled' = (settled \/ (~failed /\ Admin \in configured))
      /\ UNCHANGED <<configured, bot, hook, post, due, chan, commands, left, failed, doubled>>
    BY DEF Store, Go
<1>2. bot = "up"
    BY <1>1 DEF TypeOK
<1>3. TypeOK'
  <2>1. Flags'
      BY <1>1, Zenon DEF TypeOK, Flags
  <2>2. /\ pc' \in [Handlers -> {"idle", "list", "create", "clear", "set", "store"}]
        /\ \A g \in Handlers : left'[g] # {} <=> pc'[g] = "create"
      BY <1>1 DEF TypeOK
  <2> QED
      BY <1>1, <1>2, <2>1, <2>2 DEF TypeOK, Flags
<1>4. ~failed => AllThere
    BY <1>1 DEF ChannelsMade
<1>5. ChannelsMade'
    BY <1>1, <1>4 DEF ChannelsMade, AllThere, TypeOK
<1>6. CommandsSet'
    BY <1>1 DEF CommandsSet, TypeOK
<1>7. OneHandler'
    BY <1>1 DEF OneHandler, TypeOK
<1>8. HookDue' /\ PostsTold'
    BY <1>1, <1>4 DEF HookDue, PostsTold, AllThere
<1> QED
    BY <1>3, <1>5, <1>6, <1>7, <1>8

-----------------------------------------------------------------------------
(* The webhook.                                                            *)

\* The title is the first of its keys that the payload has.
LEMMA FirstTitle ==
    ASSUME NEW p, Kind(p) = "episode", "grandparentTitle" \in p.titles
    PROVE  Title(p) = "grandparentTitle"
<1> DEFINE keys == <<"grandparentTitle", "grandparentSlug", "title">>
           there == {k \in DOMAIN keys : keys[k] \in p.titles}
<1>1. TitleKeys(p) = keys
    BY DEF TitleKeys
<1>2. DOMAIN keys = 1 .. 3 /\ keys[1] = "grandparentTitle"
    OBVIOUS
<1>3. there \subseteq 1 .. 3 /\ 1 \in there
    BY <1>2
<1>4. Title(p) = IF there = {} THEN "none"
                 ELSE keys[CHOOSE k \in there : \A l \in there : k <= l]
    BY <1>1 DEF Title
<1> HIDE DEF there, keys
<1>5. (CHOOSE k \in there : \A l \in there : k <= l) = 1
  <2>1. \A k \in there : (\A l \in there : k <= l) <=> k = 1
      BY <1>3
  <2> QED
      BY <1>3, <2>1
<1> QED
    BY <1>2, <1>3, <1>4, <1>5

LEMMA PostStep ==
    ASSUME IInv, (\E p \in Payloads : Post(p)) \/ PostOther
    PROVE  IInv'
<1> USE DEF IInv
<1>1. UNCHANGED <<configured, bot, hook, flag, settled, due, chan, commands, pc, left, failed,
                  doubled>>
    BY DEF Post, PostOther, readyVars
<1>2. /\ post'.status \in {0, 200, 400, 502}
      /\ PostsTold'
  <2>1. CASE PostOther
      BY <2>1 DEF PostOther, NoPost, PostsTold
  <2>2. ASSUME NEW p \in Payloads, Post(p), ~Decodes(p)
        PROVE  post'.status = 400
      BY <2>2 DEF Post
  <2>3. ASSUME NEW p \in Payloads, Post(p), Decodes(p)
        PROVE  \/ post'.status = 502
               \/ post'.status = 200 /\ post'.title = Title(p) /\ post'.payload = p
      BY <2>3 DEF Post
  <2>4. ASSUME NEW p \in Payloads, Decodes(p), p.type = "episode",
               "grandparentTitle" \in p.titles
        PROVE  Title(p) = "grandparentTitle"
    <3>1. Kind(p) = "episode"
        BY <2>4 DEF Kind
    <3> QED
        BY <2>4, <3>1, FirstTitle
  <2>5. ASSUME NEW p \in Payloads, Decodes(p)
        PROVE  Title(p) # "none"
      BY <2>5 DEF Decodes
  <2>6. ASSUME NEW p \in Payloads, Post(p)
        PROVE  post'.status \in {200, 400, 502} /\ PostsTold'
    <3>1. CASE ~Decodes(p)
        BY <2>2, <2>6, <3>1 DEF PostsTold
    <3>2. CASE Decodes(p)
        BY <2>3, <2>4, <2>5, <2>6, <3>2 DEF PostsTold
    <3> QED
        BY <3>1, <3>2
  <2> QED
      BY <2>1, <2>6 DEF PostOther, NoPost
<1>3. TypeOK'
    BY <1>1, <1>2 DEF TypeOK
<1>4. ChannelsMade' /\ CommandsSet' /\ OneHandler'
    BY <1>1, HandlersKept
<1>5. HookDue'
    BY <1>1 DEF HookDue
<1> QED
    BY <1>2, <1>3, <1>4, <1>5

-----------------------------------------------------------------------------

LEMMA Invariance == IInv /\ [Next]_vars => IInv'
<1> SUFFICES ASSUME IInv, [Next]_vars PROVE IInv'
    OBVIOUS
<1>1. CASE Start \/ HookChannel \/ HookBind \/ Connect \/ ClientEnds
    BY <1>1, StartStep, HookStep, ClientEndsStep
<1>2. ASSUME NEW h \in Handlers,
             \/ Ready(h) \/ List(h) \/ ListFails(h)
             \/ \E c \in Names : Create(h, c) \/ CreateFails(h, c)
             \/ Clear(h) \/ Register(h) \/ Store(h)
      PROVE  IInv'
    BY <1>2, ReadyStep, ListStep, CreateStep, CommandsStep, StoreStep
<1>3. CASE (\E p \in Payloads : Post(p)) \/ PostOther
    BY <1>3, PostStep
<1>4. CASE UNCHANGED vars
  <2>1. UNCHANGED <<configured, bot, hook, flag, post, settled, due, chan, commands, pc,
                    left, failed, doubled>>
      BY <1>4 DEF vars, readyVars
  <2> QED
      BY <2>1, HandlersKept DEF IInv, TypeOK, HookDue, PostsTold
<1> QED
    BY <1>1, <1>2, <1>3, <1>4 DEF Next

LEMMA Invariant == Spec => []IInv
BY Initially, Invariance, PTL DEF Spec

\* Every variable keeps its type; the flag and the handlers live as long as the
\* client (discord_bot.rs:182-187, lib.rs:1067-1070).
THEOREM BotTyped == Spec => []TypeOK
<1>1. IInv => TypeOK
    BY DEF IInv
<1> QED
    BY <1>1, Invariant, PTL

\* However many ready events overlap and wherever the client ends: channels,
\* commands, webhook and announcements are there and once, or an error or a second
\* ready event is on record (discord_bot.rs:336-450, 257-322, 147-166).
THEOREM SetUpIsExplained == Spec => []SetUpExplained
<1>1. IInv => SetUpExplained
  <2> SUFFICES ASSUME IInv PROVE SetUpExplained
      OBVIOUS
  <2>1. ReadyDone
      BY DEF IInv, ReadyDone, Idle, ChannelsMade, CommandsSet, AllThere
  <2>2. ChannelsOnce
      BY DEF IInv, ChannelsOnce, OneHandler
  <2>3. WebhookThere /\ PostsTold
      BY DEF IInv, WebhookThere, HookDue
  <2> QED
      BY <2>1, <2>2, <2>3 DEF SetUpExplained
<1> QED
    BY <1>1, Invariant, PTL
================================================================================
