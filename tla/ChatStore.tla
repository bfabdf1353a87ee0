----------------------------- MODULE ChatStore -----------------------------
(***************************************************************************)
(* The chat store of the browser: which conversation is on display, the    *)
(* cache of conversations, the questions that wait for their answer.       *)
(*                                                                         *)
(* JavaScript runs one handler at a time, so what stands between two       *)
(* awaits is one step.  Between a call and its reply anything may happen:  *)
(* the user clicks, other replies arrive, and replies arrive in another    *)
(* order than the calls were made.  Any call may fail, and the server may  *)
(* finish what the browser has given up (axios gives up after a minute).   *)
(*                                                                         *)
(* A conversation is reduced to the set of questions whose turns it holds. *)
(* The server stores a turn as Conversations has it, in one step here.     *)
(***************************************************************************)
EXTENDS Naturals, Sequences, FiniteSets

CONSTANTS
    Convs,         \* ids of conversations
    Requests,      \* questions, each sent once
    Calls,         \* bound: calls besides the questions, each made once
    NewChat,       \* no conversation is active; also the key NEW_CONV_KEY
    Nothing,       \* null
    MaxCacheSize,  \* MAX_CACHE_SIZE
    MaxReloads     \* bound: reloads of the page

ASSUME CacheAssumption == MaxCacheSize \in Nat \ {0} /\ MaxReloads \in Nat

VARIABLES
    server,      \* server: whether a conversation is there
    turns,       \* server: the turns stored in a conversation
    req,         \* [Requests -> record]: a sendMessage and its handler in the server
    call,        \* [Calls -> record]: the other calls under way
    cache,       \* _cache: turns of the cached conversations, or Nothing
    lru,         \* _lruOrder, the oldest access first
    active,      \* activeConversationId
    shown,       \* activeConversation
    loading,     \* isLoading
    error,       \* whether the error banner is there
    pending,     \* pendingMessages with pendingRequests: they change together
    polling,     \* whether pollInterval is set
    overlapped,  \* history: turns stored while an older reply was under way
    reloads      \* bounded counter

vars == <<server, turns, req, call, cache, lru, active, shown, loading, error,
          pending, polling, overlapped, reloads>>
backend == <<server, turns, overlapped, reloads>>
pane == <<active, shown, loading, error>>
waiting == <<pending, polling>>
lrucache == <<cache, lru>>

-----------------------------------------------------------------------------
Keys == Convs \cup {NewChat}
Data == SUBSET Requests
Shown == [conv : Convs, turns : Data]

\* The key of the new chat is no id, and null is nothing else.
ASSUME KeysAssumption ==
    /\ NewChat \notin Convs
    /\ Nothing \notin Keys \cup Requests
    /\ \A data \in Data : Nothing # data
    /\ \A conversation \in Shown : Nothing # conversation

Request == [pc : {"new", "sent", "reload", "done", "failed", "lost"},
            srv : {"none", "working", "stored", "refused"},
            key : Keys \cup {Nothing}, conv : Convs \cup {Nothing},
            reply : Data \cup {Nothing}]

Kinds == {"cold", "refresh", "prefetch", "delete", "rate"}
Call == [kind : Kinds \cup {"idle", "over"}, conv : Convs \cup {Nothing},
         reply : Data \cup {Nothing}]
Idle == [kind |-> "idle", conv |-> Nothing, reply |-> Nothing]

\* The list of accesses names the cached conversations, each once.
LruMatchesCache ==
    /\ lru \in Seq(Convs) /\ Len(lru) <= MaxCacheSize
    /\ {lru[i] : i \in DOMAIN lru} = {c \in Convs : cache[c] # Nothing}
    /\ \A i, j \in DOMAIN lru : lru[i] = lru[j] => i = j

TypeOK ==
    /\ server \in [Convs -> {"unborn", "there", "gone"}]
    /\ turns \in [Convs -> Data]
    /\ req \in [Requests -> Request]
    /\ call \in [Calls -> Call]
    /\ cache \in [Convs -> Data \cup {Nothing}]
    /\ LruMatchesCache
    /\ active \in Keys /\ shown \in Shown \cup {Nothing}
    /\ loading \in BOOLEAN /\ error \in BOOLEAN
    /\ pending \in [Keys -> Requests \cup {Nothing}]
    /\ polling \in BOOLEAN
    /\ overlapped \in SUBSET Requests /\ reloads \in Nat

\* The page is opened for the first time; the user has conversations already, or
\* not.  (PageReload is how it is opened later.)
Init ==
    /\ server \in [Convs -> {"unborn", "there"}]
    /\ turns = [c \in Convs |-> {}]
    /\ req = [r \in Requests |-> [pc |-> "new", srv |-> "none", key |-> Nothing,
                                  conv |-> Nothing, reply |-> Nothing]]
    /\ call = [k \in Calls |-> Idle]
    /\ cache = [c \in Convs |-> Nothing] /\ lru = <<>>
    /\ active = NewChat /\ shown = Nothing /\ loading = FALSE /\ error = FALSE
    /\ pending = [k \in Keys |-> Nothing] /\ polling = FALSE
    /\ overlapped = {} /\ reloads = 0

-----------------------------------------------------------------------------
(* The cache: setCached, _touchLru, evictCached.                           *)

\* splice at indexOf, if there is one.
Removed(seq, c) ==
    IF \E i \in DOMAIN seq : seq[i] = c
      THEN LET idx == CHOOSE i \in DOMAIN seq :
                         seq[i] = c /\ \A j \in 1..(i - 1) : seq[j] # c
           IN  SubSeq(seq, 1, idx - 1) \o SubSeq(seq, idx + 1, Len(seq))
      ELSE seq
Touched(seq, c) == Append(Removed(seq, c), c)

Full(c) == cache[c] = Nothing /\ Len(lru) >= MaxCacheSize

SetCached(c, data) ==
    /\ lru' = Touched(IF Full(c) THEN Tail(lru) ELSE lru, c)
    /\ cache' = [d \in Convs |-> IF d = c THEN data
                                 ELSE IF Full(c) /\ d = Head(lru) THEN Nothing
                                 ELSE cache[d]]

\* Mutant: the list of accesses is forgotten.
EvictCachedOnly(c) ==
    /\ cache' = [cache EXCEPT ![c] = Nothing]
    /\ UNCHANGED lru

EvictCached(c) ==
    /\ cache' = [cache EXCEPT ![c] = Nothing]
    /\ lru' = Removed(lru, c)

(* Calls of the API. *)

StartCall(kind, c) ==
    \E k \in Calls :
        /\ call[k].kind = "idle"
        /\ call' = [call EXCEPT ![k] = [kind |-> kind, conv |-> c, reply |-> Nothing]]

Over == [Idle EXCEPT !.kind = "over"]
EndCall(k) == call' = [call EXCEPT ![k] = Over]
Loads(k) == call[k].kind \in {"cold", "refresh", "prefetch"}
Prefetching(c) == \E k \in Calls : call[k].kind = "prefetch" /\ call[k].conv = c
Deleting == \E k \in Calls : call[k].kind = "delete"

\* What the store may have under progress.  A poll replaces all of it twice a
\* second; its reply may be late, after the interval was cleared too, and the
\* server's entry may have expired.  So between any two handlers every request
\* may have become open (under way, or not known), or what the server has
\* reported of it by now; a failure that the browser noted itself may be gone.
Reported(r) ==
    CASE req[r].srv = "stored"  -> {"open", "complete"}
      [] req[r].srv = "refused" -> {"open", "complete", "failed"}
      [] OTHER                  -> {"open"}

Asked == {r \in Requests : \E k \in Keys : pending[k] = r}
Progress ==
    {p \in [Asked -> {"open", "complete", "failed"}] : \A r \in Asked :
        p[r] \in Reported(r) \cup (IF req[r].pc = "failed" THEN {"failed"} ELSE {})}

\* stopPolling, by getActivePendingCount of what was just written.
StopPolling(pend, progress) ==
    polling' = (polling /\ \E k \in Keys :
                   pend[k] # Nothing /\ progress[pend[k]] = "open")

-----------------------------------------------------------------------------
(* What the user does.                                                     *)

\* Mutant: a prefetch under way is taken for the load.
ColdLoadUnlessPrefetching(c) ==
    IF Prefetching(c) THEN UNCHANGED call ELSE StartCall("cold", c)
ColdLoad(c) == StartCall("cold", c)

\* setActiveConversation: at once from the cache, with a refresh if the entry
\* is older than its TTL, or with the skeleton until the reply is there.  The
\* sidebar offers what it listed last; its rows do nothing during a deletion.
SetActiveConversation(c) ==
    /\ server[c] # "unborn" /\ ~Deleting
    /\ active' = c /\ error' = FALSE
    /\ \/ /\ cache[c] # Nothing
          /\ shown' = [conv |-> c, turns |-> cache[c]]
          /\ loading' = FALSE
          /\ lru' = Touched(lru, c) /\ UNCHANGED cache
          /\ \E stale \in BOOLEAN : IF stale THEN StartCall("refresh", c) ELSE UNCHANGED call
       \/ /\ cache[c] = Nothing
          /\ shown' = Nothing
          /\ loading' = TRUE
          /\ UNCHANGED lrucache
          /\ ColdLoad(c)
    /\ UNCHANGED <<backend, req, waiting>>

\* prefetchConversation, when the mouse rests on a row: nothing for a fresh
\* entry or for one that is being fetched.
PrefetchConversation(c) ==
    /\ server[c] # "unborn" /\ ~Prefetching(c)
    /\ StartCall("prefetch", c)
    /\ UNCHANGED <<backend, req, pane, waiting, lrucache>>

\* sendMessage until its first await.  The input is disabled while loading; the
\* suggestions of the welcome screen are not.
SendMessage(r) ==
    LET welcome == active = NewChat /\ pending[NewChat] = Nothing IN
    /\ req[r].pc = "new"
    /\ ~loading \/ welcome
    /\ req' = [req EXCEPT ![r] = [@ EXCEPT
                  !.pc = "sent", !.srv = "working", !.key = active,
                  !.conv = IF active = NewChat THEN Nothing ELSE active]]
    /\ pending' = [pending EXCEPT ![active] = r]
    /\ error' = FALSE /\ polling' = TRUE
    /\ UNCHANGED <<backend, call, lrucache, active, shown, loading>>

\* Mutant: polling is left to end by itself.
StartNewChatPolling ==
    /\ active' = NewChat /\ shown' = Nothing /\ error' = FALSE
    /\ pending' = [pending EXCEPT ![NewChat] = Nothing]
    /\ UNCHANGED <<backend, req, call, lrucache, loading, polling>>

\* startNewChat.  It leaves isLoading alone.
StartNewChat ==
    /\ active' = NewChat /\ shown' = Nothing /\ error' = FALSE
    /\ pending' = [pending EXCEPT ![NewChat] = Nothing]
    /\ \E progress \in Progress : StopPolling(pending', progress)
    /\ UNCHANGED <<backend, req, call, lrucache, loading>>

\* deleteConversation until its first await.
DeleteConversation(c) ==
    /\ server[c] # "unborn" /\ ~Deleting
    /\ EvictCached(c)
    /\ StartCall("delete", c)
    /\ UNCHANGED <<backend, req, pane, waiting>>

\* submitFeedback until its first await: a message on display is rated.
SubmitFeedback ==
    /\ shown # Nothing
    /\ StartCall("rate", shown.conv)
    /\ UNCHANGED <<backend, req, pane, waiting, lrucache>>

\* clearError: a click on the banner drops the questions that failed.
ClearError ==
    /\ error /\ error' = FALSE
    /\ \E progress \in Progress :
          /\ pending' = [k \in Keys |->
                IF pending[k] # Nothing /\ progress[pending[k]] = "failed"
                  THEN Nothing ELSE pending[k]]
          /\ StopPolling(pending', progress)
    /\ UNCHANGED <<backend, req, call, lrucache, active, shown, loading>>

\* The page is reloaded: only the id of the active conversation is persisted, and
\* nothing loads that conversation.
PageReload ==
    /\ reloads < MaxReloads /\ reloads' = reloads + 1
    /\ req' = [r \in Requests |->
          IF req[r].pc \in {"sent", "reload"} THEN [req[r] EXCEPT !.pc = "lost", !.reply = Nothing]
          ELSE req[r]]
    /\ call' = [k \in Calls |-> IF call[k].kind = "idle" THEN Idle ELSE Over]
    /\ cache' = [c \in Convs |-> Nothing] /\ lru' = <<>>
    /\ shown' = Nothing /\ loading' = FALSE /\ error' = FALSE
    /\ pending' = [k \in Keys |-> Nothing] /\ polling' = FALSE
    /\ UNCHANGED <<server, turns, overlapped, active>>

-----------------------------------------------------------------------------
(* What the server does.                                                   *)

\* A reply that holds conversation c and is under way.
Underway(c) ==
    \/ \E k \in Calls : Loads(k) /\ call[k].conv = c /\ call[k].reply # Nothing
    \/ \E q \in Requests : req[q].pc = "reload" /\ req[q].conv = c /\ req[q].reply # Nothing

\* A turn is committed, in its conversation or in a new one.
StoreTurn(r) ==
    /\ req[r].srv = "working"
    /\ \E c \in Convs :
          /\ \/ req[r].key = NewChat /\ server[c] = "unborn"
             \/ req[r].key = c /\ server[c] = "there"
          /\ server' = [server EXCEPT ![c] = "there"]
          /\ turns' = [turns EXCEPT ![c] = @ \cup {r}]
          /\ req' = [req EXCEPT ![r].srv = "stored", ![r].conv = c]
          /\ overlapped' = IF Underway(c) THEN overlapped \cup {r} ELSE overlapped
    /\ UNCHANGED <<call, lrucache, pane, waiting, reloads>>

\* An error of any kind, a duplicate, a conversation that is gone.
RefuseTurn(r) ==
    /\ req[r].srv = "working"
    /\ req' = [req EXCEPT ![r].srv = "refused"]
    /\ UNCHANGED <<backend, call, lrucache, pane, waiting>>

\* GET, DELETE or POST /feedback is served; for a conversation that is gone the
\* call fails.
ServeCall(k) ==
    LET c == call[k].conv IN
    /\ call[k].kind \in Kinds /\ call[k].reply = Nothing /\ server[c] = "there"
    /\ call' = [call EXCEPT ![k].reply = turns[c]]
    /\ IF call[k].kind = "delete"
         THEN /\ server' = [server EXCEPT ![c] = "gone"]
              /\ turns' = [turns EXCEPT ![c] = {}]
         ELSE UNCHANGED <<server, turns>>
    /\ UNCHANGED <<req, lrucache, pane, waiting, overlapped, reloads>>

ServeReload(r) ==
    LET c == req[r].conv IN
    /\ req[r].pc = "reload" /\ req[r].reply = Nothing /\ server[c] = "there"
    /\ req' = [req EXCEPT ![r].reply = turns[c]]
    /\ UNCHANGED <<backend, call, lrucache, pane, waiting>>

-----------------------------------------------------------------------------
(* Replies: the rest of the handlers, after their awaits.                  *)

\* loadConversation, the end of the cold start in setActiveConversation, and
\* the then of a prefetch.
Display(c, data) == shown' = [conv |-> c, turns |-> data]

\* Mutant: whatever arrives is displayed.
LoadedAnyway(k) ==
    LET c == call[k].conv IN
    /\ Loads(k) /\ call[k].reply # Nothing
    /\ EndCall(k) /\ SetCached(c, call[k].reply) /\ Display(c, call[k].reply)
    /\ loading' = FALSE
    /\ UNCHANGED <<backend, req, active, error, waiting>>

Loaded(k) ==
    LET c == call[k].conv
        kind == call[k].kind
    IN
    /\ Loads(k) /\ call[k].reply # Nothing
    /\ EndCall(k)
    /\ SetCached(c, call[k].reply)
    /\ IF active = c /\ (kind = "prefetch" => shown = Nothing)
         THEN /\ Display(c, call[k].reply)
              /\ loading' = (loading /\ kind = "refresh")
         ELSE UNCHANGED <<shown, loading>>
    /\ UNCHANGED <<backend, req, active, error, waiting>>

\* deleteConversation goes on.
Deleted(k) ==
    LET c == call[k].conv IN
    /\ call[k].kind = "delete" /\ call[k].reply # Nothing
    /\ EndCall(k)
    /\ IF active = c THEN active' = NewChat /\ shown' = Nothing
                     ELSE UNCHANGED <<active, shown>>
    /\ pending' = [pending EXCEPT ![c] = Nothing]
    /\ \E progress \in Progress : StopPolling(pending', progress)
    /\ UNCHANGED <<backend, req, lrucache, loading, error>>

\* submitFeedback goes on, with what is on display now.
Rated(k) ==
    /\ call[k].kind = "rate" /\ call[k].reply # Nothing
    /\ EndCall(k)
    /\ IF shown = Nothing THEN UNCHANGED lrucache ELSE SetCached(shown.conv, shown.turns)
    /\ UNCHANGED <<backend, req, pane, waiting>>

\* A call fails.  Only loads say so, and only on the conversation they are for.
CallFails(k) ==
    LET kind == call[k].kind
        here == kind \in {"cold", "refresh"} /\ active = call[k].conv
    IN
    /\ kind \in Kinds
    /\ EndCall(k)
    /\ error' = (error \/ here)
    /\ loading' = (loading /\ ~(here /\ kind = "cold"))
    /\ UNCHANGED <<backend, req, lrucache, active, shown, waiting>>

\* sendMessage goes on: the conversation is fetched again.
Answered(r) ==
    /\ req[r].pc = "sent" /\ req[r].srv = "stored"
    /\ req' = [req EXCEPT ![r].pc = "reload"]
    /\ UNCHANGED <<backend, call, lrucache, pane, waiting>>

\* Mutant: the optimistic message is cleared where the user is now.
ClearedKeyHere(r) == active
ClearedKey(r) == req[r].key

\* Mutant: only a conversation on display is put into the cache.
CachesIfDisplayed(r) == active \in {req[r].key, req[r].conv}
CachesAnswer(r) == TRUE

\* The reload is there: to the cache, and to the display if the user is still
\* where he asked.
Reloaded(r) ==
    LET c == req[r].conv IN
    /\ req[r].pc = "reload" /\ req[r].reply # Nothing
    /\ req' = [req EXCEPT ![r].pc = "done", ![r].reply = Nothing]
    /\ IF CachesAnswer(r) THEN SetCached(c, req[r].reply) ELSE UNCHANGED lrucache
    /\ pending' = [pending EXCEPT ![ClearedKey(r)] = Nothing]
    /\ \E progress \in Progress : StopPolling(pending', progress)
    /\ IF active = req[r].key
         THEN active' = c /\ Display(c, req[r].reply)
         ELSE UNCHANGED <<active, shown>>
    /\ UNCHANGED <<backend, call, loading, error>>

\* The catch of sendMessage: refused, lost on its way, or the reload failed.
SendFails(r) ==
    /\ req[r].pc \in {"sent", "reload"}
    /\ req' = [req EXCEPT ![r].pc = "failed", ![r].reply = Nothing]
    /\ error' = TRUE
    /\ \E progress \in Progress :
          StopPolling(pending, [q \in Asked |-> IF q = r THEN "failed" ELSE progress[q]])
    /\ UNCHANGED <<backend, call, lrucache, active, shown, loading, pending>>

-----------------------------------------------------------------------------
User ==
    \/ \E c \in Convs : SetActiveConversation(c) \/ PrefetchConversation(c)
                            \/ DeleteConversation(c)
    \/ \E r \in Requests : SendMessage(r)
    \/ StartNewChat \/ SubmitFeedback \/ ClearError \/ PageReload

Serve ==
    \/ \E r \in Requests : StoreTurn(r) \/ RefuseTurn(r) \/ ServeReload(r)
    \/ \E k \in Calls : ServeCall(k)

Reply ==
    \/ \E k \in Calls : Loaded(k) \/ Deleted(k) \/ Rated(k) \/ CallFails(k)
    \/ \E r \in Requests : Answered(r) \/ Reloaded(r) \/ SendFails(r)

Next == User \/ Serve \/ Reply

Spec == Init /\ [][Next]_vars

-----------------------------------------------------------------------------
(* Properties.                                                             *)

\* What is on display is the conversation that is selected, whatever reply
\* arrives late, and the skeleton of a conversation never stands without a
\* call that will replace it.
PaneIsRight ==
    /\ shown # Nothing => shown.conv = active
    /\ loading /\ active # NewChat /\ shown = Nothing =>
          \E k \in Calls : call[k].kind = "cold" /\ call[k].conv = active

\* "It survives conversation switches and is only removed once the backend
\* responds (success) or the request fails": a question asked in a saved
\* conversation stays on display while it is under way, unless the conversation
\* is deleted or is asked something else, before or after (Alone); and the
\* browser does not poll on when no question is on display.
Alone(r) == \A q \in Requests \ {r} : req[q].key # req[r].key

WaitingIsKept ==
    /\ \A r \in Requests :
          /\ req[r].pc \in {"sent", "reload"} /\ req[r].srv # "refused"
          /\ req[r].key \in Convs /\ server[req[r].key] = "there" /\ Alone(r)
          => pending[req[r].key] = r
    /\ polling => \E k \in Keys : pending[k] # Nothing

\* "the result is available immediately when the user navigates back": an
\* answer that has arrived is in the cached and in the displayed conversation
\* from then on, if no older reply for that conversation was under way when it
\* was stored.
AnswersStay ==
    \A r \in Requests : req[r].pc = "done" /\ r \notin overlapped =>
        /\ cache[req[r].conv] # Nothing => r \in cache[req[r].conv]
        /\ shown # Nothing /\ shown.conv = req[r].conv => r \in shown.turns
=============================================================================
