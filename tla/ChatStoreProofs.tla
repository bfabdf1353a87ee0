-------------------------- MODULE ChatStoreProofs --------------------------
(***************************************************************************)
(* Proofs about ChatStore: for any conversations, questions, calls and any *)
(* size of the cache.                                                      *)
(***************************************************************************)
EXTENDS ChatStore, SequenceTheorems, TLAPS

-----------------------------------------------------------------------------
(* Lists that name each thing once: what the cache does to _lruOrder.       *)

Named(seq) == {seq[i] : i \in DOMAIN seq}
Distinct(seq) == \A i, j \in DOMAIN seq : seq[i] = seq[j] => i = j

\* splice takes out what indexOf finds, and nothing else.
LEMMA RemovedOne ==
    ASSUME NEW S, NEW seq \in Seq(S), NEW c,
           Distinct(seq)
    PROVE  /\ Removed(seq, c) \in Seq(S) /\ Len(Removed(seq, c)) <= Len(seq)
           /\ c \in Named(seq) => Len(Removed(seq, c)) = Len(seq) - 1
           /\ Named(Removed(seq, c)) = Named(seq) \ {c}
           /\ Distinct(Removed(seq, c))
  <1>1. CASE c \notin Named(seq)
    <2>1. Removed(seq, c) = seq
      BY <1>1 DEF Removed, Named
    <2> QED
      BY <1>1, <2>1
  <1>2. CASE c \in Named(seq)
    <2> DEFINE p == CHOOSE i \in DOMAIN seq : seq[i] = c /\ \A j \in 1..(i - 1) : seq[j] # c
               out == SubSeq(seq, 1, p - 1) \o SubSeq(seq, p + 1, Len(seq))
    <2>1. p \in 1..Len(seq) /\ seq[p] = c
      <3>1. PICK i \in DOMAIN seq : seq[i] = c
        BY <1>2 DEF Named
      <3>2. \A j \in 1..(i - 1) : seq[j] # c
        BY <3>1 DEF Distinct
      <3> QED
        BY <3>1, <3>2
    <2> HIDE DEF p
    <2>2. /\ out \in Seq(S) /\ Len(out) = Len(seq) - 1
          /\ \A j \in 1..(Len(seq) - 1) : out[j] = IF j < p THEN seq[j] ELSE seq[j + 1]
      <3> DEFINE a == SubSeq(seq, 1, p - 1)
                 b == SubSeq(seq, p + 1, Len(seq))
      <3>1. a \in Seq(S) /\ Len(a) = p - 1 /\ \A j \in 1..(p - 1) : a[j] = seq[j]
        BY <2>1
      <3>2. /\ b \in Seq(S) /\ Len(b) = Len(seq) - p
            /\ \A j \in 1..(Len(seq) - p) : b[j] = seq[p + j]
        BY <2>1
      <3>3. /\ out \in Seq(S) /\ Len(out) = Len(seq) - 1
            /\ \A j \in 1..(Len(seq) - 1) : out[j] = IF j <= p - 1 THEN a[j] ELSE b[j - (p - 1)]
        <4>1. out = a \o b
          OBVIOUS
        <4> HIDE DEF a, b, out
        <4>2. /\ out \in Seq(S) /\ Len(out) = Len(a) + Len(b)
              /\ \A j \in 1..(Len(a) + Len(b)) :
                    out[j] = IF j <= Len(a) THEN a[j] ELSE b[j - Len(a)]
          BY <3>1, <3>2, <4>1, ConcatProperties
        <4>3. Len(a) + Len(b) = Len(seq) - 1
          BY <2>1, <3>1, <3>2
        <4> QED
          BY <3>1, <4>2, <4>3
      <3> HIDE DEF a, b, out
      <3>4. ASSUME NEW j \in 1..(Len(seq) - 1)
            PROVE  out[j] = IF j < p THEN seq[j] ELSE seq[j + 1]
        <4>1. CASE j < p
          BY <2>1, <3>1, <3>3, <4>1
        <4>2. CASE ~(j < p)
          <5>1. j - (p - 1) \in 1..(Len(seq) - p) /\ p + (j - (p - 1)) = j + 1
            BY <2>1, <4>2
          <5> QED
            BY <2>1, <3>2, <3>3, <4>2, <5>1
        <4> QED
          BY <4>1, <4>2
      <3> QED
        BY <3>3, <3>4
    <2>3. Removed(seq, c) = out
      BY <1>2 DEF Removed, Named, p
    <2> HIDE DEF out
    <2>4. Distinct(out)
      BY <2>1, <2>2 DEF Distinct
    <2>5. Named(out) = Named(seq) \ {c}
      <3>1. \A i \in DOMAIN out : \E j \in DOMAIN seq : out[i] = seq[j] /\ j # p
        BY <2>1, <2>2
      <3>2. ASSUME NEW j \in DOMAIN seq, j # p PROVE \E i \in DOMAIN out : out[i] = seq[j]
        <4>1. CASE j < p
          BY <2>1, <2>2, <3>2, <4>1
        <4>2. CASE j > p
          <5>1. j - 1 \in DOMAIN out /\ out[j - 1] = seq[j]
            BY <2>1, <2>2, <3>2, <4>2
          <5> QED
            BY <5>1
        <4> QED
          BY <2>1, <3>2, <4>1, <4>2
      <3> QED
        BY <2>1, <3>1, <3>2 DEF Named, Distinct
    <2>6. Len(out) <= Len(seq)
      BY <2>2
    <2> QED
      BY <2>2, <2>3, <2>4, <2>5, <2>6
  <1> QED
    BY <1>1, <1>2

\* push adds what is not there.
LEMMA AppendedOne ==
    ASSUME NEW S, NEW seq \in Seq(S), NEW c \in S, Distinct(seq), c \notin Named(seq)
    PROVE  /\ Append(seq, c) \in Seq(S) /\ Len(Append(seq, c)) = Len(seq) + 1
           /\ Named(Append(seq, c)) = Named(seq) \cup {c} /\ Distinct(Append(seq, c))
  <1> DEFINE out == Append(seq, c)
  <1>1. /\ out \in Seq(S) /\ Len(out) = Len(seq) + 1 /\ out[Len(seq) + 1] = c
        /\ \A i \in 1..Len(seq) : out[i] = seq[i]
    BY AppendProperties
  <1> HIDE DEF out
  <1>2. Len(seq) \in Nat
    OBVIOUS
  <1>3. \A i \in DOMAIN out : i \in DOMAIN seq \/ i = Len(seq) + 1
    BY <1>1, <1>2
  <1>4. \A i \in DOMAIN seq : i \in DOMAIN out
    BY <1>1, <1>2
  <1>5. Named(out) = Named(seq) \cup {c}
    BY <1>1, <1>2, <1>3, <1>4 DEF Named
  <1>6. Distinct(out)
    BY <1>1, <1>2, <1>3 DEF Named, Distinct
  <1> QED
    BY <1>1, <1>5, <1>6 DEF out

\* shift takes the oldest.
LEMMA ShiftedOne ==
    ASSUME NEW S, NEW seq \in Seq(S), Distinct(seq), seq # <<>>
    PROVE  /\ Tail(seq) \in Seq(S) /\ Len(Tail(seq)) = Len(seq) - 1
           /\ Named(Tail(seq)) = Named(seq) \ {Head(seq)} /\ Distinct(Tail(seq))
           /\ Head(seq) \in Named(seq)
  <1> DEFINE out == Tail(seq)
  <1>1. /\ out \in Seq(S) /\ Len(out) = Len(seq) - 1 /\ Len(seq) \in Nat \ {0}
        /\ \A i \in 1..Len(out) : out[i] = seq[i + 1]
        /\ Head(seq) = seq[1] /\ 1 \in DOMAIN seq
    BY HeadTailProperties
  <1> HIDE DEF out
  <1>2. Distinct(out)
    <2>1. \A i \in DOMAIN out : i \in Int /\ i + 1 \in DOMAIN seq /\ out[i] = seq[i + 1]
      BY <1>1
    <2> QED
      BY <2>1 DEF Distinct
  <1>3. \A i \in DOMAIN out : i + 1 \in DOMAIN seq /\ i + 1 # 1
    BY <1>1
  <1>4. \A i \in DOMAIN seq : i # 1 => i - 1 \in DOMAIN out /\ out[i - 1] = seq[i]
    BY <1>1
  <1>5. Named(out) = Named(seq) \ {Head(seq)}
    <2>1. \A i \in DOMAIN out : out[i] \in Named(seq) /\ out[i] # seq[1]
      BY <1>1, <1>3 DEF Named, Distinct
    <2>2. \A i \in DOMAIN seq : seq[i] # seq[1] => seq[i] \in Named(out)
      BY <1>4 DEF Named
    <2> QED
      BY <1>1, <2>1, <2>2 DEF Named
  <1> QED
    BY <1>1, <1>2, <1>5 DEF Named, out

-----------------------------------------------------------------------------
(* Types, without the order of the cache, and what is known of the          *)
(* conversations: whatever the browser names has been there.               *)

Born(c) == c \in Convs => server[c] # "unborn"

StoreTypes ==
    /\ server \in [Convs -> {"unborn", "there", "gone"}]
    /\ turns \in [Convs -> Data]
    /\ req \in [Requests -> Request]
    /\ call \in [Calls -> Call]
    /\ cache \in [Convs -> Data \cup {Nothing}]
    /\ active \in Keys /\ shown \in Shown \cup {Nothing}
    /\ loading \in BOOLEAN /\ error \in BOOLEAN /\ polling \in BOOLEAN
    /\ pending \in [Keys -> Requests \cup {Nothing}]

Courses ==
    /\ \A k \in Calls : call[k].kind \in Kinds => call[k].conv \in Convs
    /\ \A r \in Requests :
          /\ req[r].pc = "new" => req[r].key = Nothing /\ req[r].srv = "none"
          /\ req[r].pc = "reload" => req[r].srv = "stored"
          /\ req[r].srv = "working" => req[r].key # Nothing
          /\ req[r].srv = "stored" => req[r].conv \in Convs

KnownConvs ==
    /\ Born(active)
    /\ shown # Nothing => Born(shown.conv)
    /\ \A c \in Convs : cache[c] # Nothing => Born(c)
    /\ \A k \in Calls : Born(call[k].conv)
    /\ \A r \in Requests : Born(req[r].key) /\ Born(req[r].conv)

BaseInv == StoreTypes /\ Courses /\ KnownConvs

USE KeysAssumption

\* A reply is put into the cache.
LEMMA CachedData ==
    ASSUME StoreTypes, NEW c \in Convs, NEW data \in Data, SetCached(c, data)
    PROVE  /\ cache' \in [Convs -> Data \cup {Nothing}]
           /\ cache'[c] = data
           /\ \A d \in Convs \ {c} : cache'[d] \in {cache[d], Nothing}
  BY DEF StoreTypes, SetCached

\* A call is started.
LEMMA CallStarted ==
    ASSUME StoreTypes, NEW c \in Convs, NEW kind \in Kinds, StartCall(kind, c)
    PROVE  /\ call' \in [Calls -> Call]
           /\ \A k \in Calls :
                 \/ call'[k] = call[k]
                 \/ /\ call[k].kind = "idle" /\ call'[k].kind = kind
                    /\ call'[k].conv = c /\ call'[k].reply = Nothing
           /\ \E k \in Calls : call'[k].kind = kind /\ call'[k].conv = c
           /\ \A k \in Calls : call[k].kind # "idle" => call'[k] = call[k]
  <1> PICK k \in Calls :
          /\ call[k].kind = "idle"
          /\ call' = [call EXCEPT ![k] = [kind |-> kind, conv |-> c, reply |-> Nothing]]
    BY DEF StartCall
  <1>1. [kind |-> kind, conv |-> c, reply |-> Nothing] \in Call
    BY DEF Call
  <1>2. call'[k] = [kind |-> kind, conv |-> c, reply |-> Nothing]
        /\ \A l \in Calls \ {k} : call'[l] = call[l]
    BY DEF StoreTypes
  <1> QED
    BY <1>1, <1>2 DEF StoreTypes

\* A call ends.
LEMMA CallEnded ==
    ASSUME StoreTypes, NEW k \in Calls, EndCall(k)
    PROVE  /\ call' \in [Calls -> Call]
           /\ call'[k] = Over /\ Over.kind = "over" /\ Over.conv = Nothing
           /\ \A l \in Calls \ {k} : call'[l] = call[l]
  <1>1. Over \in Call /\ Over.kind = "over" /\ Over.conv = Nothing
    BY DEF Over, Idle, Call
  <1> QED
    BY <1>1 DEF StoreTypes, EndCall

\* The types at the start.
LEMMA BaseInit == Init => BaseInv
  <1> SUFFICES ASSUME Init PROVE BaseInv
    OBVIOUS
  <1>1. /\ Nothing \notin Convs \cup Requests /\ NewChat \notin Convs
        /\ Idle \in Call /\ Idle.kind \notin Kinds /\ Idle.conv = Nothing
    BY DEF Keys, Idle, Call, Kinds
  <1>2. req \in [Requests -> Request]
    BY DEF Init, Request
  <1>3. StoreTypes
    BY <1>1, <1>2 DEF Init, StoreTypes, Keys, Data
  <1>4. Courses /\ KnownConvs
    BY <1>1 DEF Init, Courses, KnownConvs, Born
  <1> QED
    BY <1>3, <1>4 DEF BaseInv

\* What the user does keeps them.
LEMMA UserKeepsBase == BaseInv /\ User => BaseInv'
  <1> SUFFICES ASSUME BaseInv, User PROVE BaseInv'
    OBVIOUS
  <1> USE DEF BaseInv, backend, pane, waiting, lrucache
  <1>0. /\ "cold" \in Kinds /\ "refresh" \in Kinds /\ "prefetch" \in Kinds
        /\ "delete" \in Kinds /\ "rate" \in Kinds
    BY DEF Kinds
  <1>1. ASSUME NEW c \in Convs, SetActiveConversation(c) PROVE BaseInv'
    <2>1. \/ StartCall("cold", c) \/ StartCall("refresh", c) \/ UNCHANGED call
      BY <1>1 DEF SetActiveConversation, ColdLoad
    <2>2. /\ call' \in [Calls -> Call]
          /\ \A k \in Calls : call'[k] = call[k] \/ (call'[k].kind \in Kinds /\ call'[k].conv = c)
      <3>1. CASE StartCall("cold", c)
        BY <3>1, <1>0, CallStarted
      <3>2. CASE StartCall("refresh", c)
        BY <3>2, <1>0, CallStarted
      <3>3. CASE UNCHANGED call
        BY <3>3 DEF StoreTypes
      <3> QED
        BY <2>1, <3>1, <3>2, <3>3
    <2>3. /\ active' = c /\ loading' \in BOOLEAN /\ error' \in BOOLEAN
          /\ UNCHANGED <<backend, req, waiting, cache>> /\ server[c] # "unborn"
          /\ shown' = Nothing \/ (cache[c] # Nothing /\ shown' = [conv |-> c, turns |-> cache[c]])
      BY <1>1 DEF SetActiveConversation
    <2>4. shown' \in Shown \cup {Nothing} /\ (shown' # Nothing => shown'.conv = c)
      BY <2>3 DEF StoreTypes, Shown
    <2>5. StoreTypes'
      BY <2>2, <2>3, <2>4 DEF StoreTypes, Keys
    <2>6. Courses'
      BY <2>2, <2>3 DEF Courses
    <2>7. KnownConvs'
      BY <2>2, <2>3, <2>4 DEF KnownConvs, Born
    <2> QED
      BY <2>5, <2>6, <2>7
  <1>2. ASSUME NEW c \in Convs, NEW kind \in Kinds, server[c] # "unborn", StartCall(kind, c),
               UNCHANGED <<backend, req, pane, waiting>>,
               cache' \in [Convs -> Data \cup {Nothing}],
               \A d \in Convs : cache'[d] \in {cache[d], Nothing}
        PROVE  BaseInv'
    <2>1. StoreTypes'
      BY <1>2, CallStarted DEF StoreTypes
    <2>2. Courses' /\ KnownConvs'
      BY <1>2, CallStarted DEF Courses, KnownConvs, Born
    <2> QED
      BY <2>1, <2>2
  <1>3. ASSUME NEW c \in Convs, PrefetchConversation(c) PROVE BaseInv'
    BY <1>3, <1>2, <1>0 DEF PrefetchConversation, StoreTypes
  <1>4. ASSUME NEW c \in Convs, DeleteConversation(c) PROVE BaseInv'
    <2>1. /\ cache' \in [Convs -> Data \cup {Nothing}]
          /\ \A d \in Convs : cache'[d] \in {cache[d], Nothing}
      BY <1>4 DEF DeleteConversation, EvictCached, StoreTypes
    <2> QED
      BY <1>4, <2>1, <1>2, <1>0 DEF DeleteConversation
  <1>5. CASE SubmitFeedback
    <2>1. shown.conv \in Convs /\ server[shown.conv] # "unborn"
      BY <1>5 DEF SubmitFeedback, StoreTypes, Shown, KnownConvs, Born
    <2> QED
      BY <1>5, <2>1, <1>2, <1>0 DEF SubmitFeedback, StoreTypes
  <1>6. ASSUME NEW r \in Requests, SendMessage(r) PROVE BaseInv'
    <2>1. /\ UNCHANGED <<backend, call, lrucache, active, shown, loading>>
          /\ error' \in BOOLEAN /\ polling' \in BOOLEAN
          /\ pending' = [pending EXCEPT ![active] = r]
      BY <1>6 DEF SendMessage
    <2> DEFINE conv == IF active = NewChat THEN Nothing ELSE active
               sent == [req[r] EXCEPT !.pc = "sent", !.srv = "working", !.key = active,
                                      !.conv = conv]
    <2>2. /\ active \in Keys /\ active # Nothing /\ Nothing \notin Convs
          /\ conv \in Convs \cup {Nothing}
          /\ conv \in Convs => conv = active
      BY DEF StoreTypes, Keys
    <2>3. /\ sent \in Request /\ sent.pc = "sent" /\ sent.srv = "working"
          /\ sent.key = active /\ sent.conv = conv
      <3> HIDE DEF conv
      <3>1. req[r] \in Request
        BY DEF StoreTypes
      <3> QED
        BY <2>2, <3>1 DEF Request
    <2>4. req' = [req EXCEPT ![r] = sent]
      BY <1>6 DEF SendMessage
    <2> HIDE DEF sent, conv
    <2>5. /\ req' \in [Requests -> Request] /\ req'[r] = sent
          /\ \A q \in Requests \ {r} : req'[q] = req[q]
      BY <2>3, <2>4 DEF StoreTypes
    <2>6. StoreTypes'
      BY <2>1, <2>5 DEF StoreTypes
    <2>7. Courses'
      BY <2>1, <2>2, <2>3, <2>5 DEF Courses
    <2>8. KnownConvs'
      BY <2>1, <2>2, <2>3, <2>5 DEF KnownConvs, Born
    <2> QED
      BY <2>6, <2>7, <2>8
  <1>7. CASE StartNewChat
    <2>1. StoreTypes'
      BY <1>7 DEF StartNewChat, StopPolling, StoreTypes, Keys
    <2>2. Courses' /\ KnownConvs'
      BY <1>7 DEF StartNewChat, Courses, KnownConvs, Born
    <2> QED
      BY <2>1, <2>2
  <1>8. CASE ClearError
    <2>1. StoreTypes'
      BY <1>8 DEF ClearError, StopPolling, StoreTypes
    <2>2. Courses' /\ KnownConvs'
      BY <1>8 DEF ClearError, Courses, KnownConvs, Born
    <2> QED
      BY <2>1, <2>2
  <1>9. CASE PageReload
    <2>1. /\ UNCHANGED <<server, turns, active>>
          /\ cache' = [c \in Convs |-> Nothing] /\ shown' = Nothing
          /\ loading' = FALSE /\ error' = FALSE /\ polling' = FALSE
          /\ pending' = [k \in Keys |-> Nothing]
      BY <1>9 DEF PageReload
    <2>2. /\ call' \in [Calls -> Call]
          /\ \A k \in Calls : call'[k].kind \notin Kinds /\ call'[k].conv = Nothing
      BY <1>9 DEF PageReload, Over, Idle, Call, Kinds
    <2>3. /\ req' \in [Requests -> Request]
          /\ \A r \in Requests :
                /\ req'[r].key = req[r].key /\ req'[r].conv = req[r].conv
                /\ req'[r].srv = req[r].srv
                /\ req'[r].pc = req[r].pc \/ req'[r].pc = "lost"
      <3>1. req' = [r \in Requests |->
                IF req[r].pc \in {"sent", "reload"}
                  THEN [req[r] EXCEPT !.pc = "lost", !.reply = Nothing] ELSE req[r]]
        BY <1>9 DEF PageReload
      <3>2. ASSUME NEW r \in Requests
            PROVE  LET z == [req[r] EXCEPT !.pc = "lost", !.reply = Nothing] IN
                   /\ z \in Request /\ z.pc = "lost"
                   /\ z.key = req[r].key /\ z.conv = req[r].conv /\ z.srv = req[r].srv
        <4>1. req[r] \in Request
          BY DEF StoreTypes
        <4> QED
          BY <4>1 DEF Request
      <3> QED
        BY <3>1, <3>2 DEF StoreTypes
    <2>4. StoreTypes'
      BY <2>1, <2>2, <2>3 DEF StoreTypes
    <2>5. Courses' /\ KnownConvs'
      BY <2>1, <2>2, <2>3 DEF Courses, KnownConvs, Born, Keys
    <2> QED
      BY <2>4, <2>5
  <1> QED
    BY <1>1, <1>3, <1>4, <1>5, <1>6, <1>7, <1>8, <1>9 DEF User

\* A step of the server keeps them: no conversation is unborn again.
LEMMA ServeKeepsBase == BaseInv /\ Serve => BaseInv'
  <1> SUFFICES ASSUME BaseInv, Serve PROVE BaseInv'
    OBVIOUS
  <1> USE DEF BaseInv, backend, pane, waiting, lrucache
  <1>1. ASSUME NEW r \in Requests, StoreTurn(r) PROVE BaseInv'
    <2>1. PICK c \in Convs :
            /\ server' = [server EXCEPT ![c] = "there"]
            /\ turns' = [turns EXCEPT ![c] = @ \cup {r}]
            /\ req' = [req EXCEPT ![r].srv = "stored", ![r].conv = c]
      BY <1>1 DEF StoreTurn
    <2>2. req[r].srv = "working" /\ req[r].pc # "new" /\ req[r] \in Request
      BY <1>1 DEF StoreTurn, Courses, StoreTypes
    <2>3. UNCHANGED <<call, cache, active, shown, loading, error, pending, polling>>
      BY <1>1 DEF StoreTurn
    <2>4. /\ req'[r] \in Request /\ req'[r].srv = "stored" /\ req'[r].conv = c
          /\ req'[r].pc = req[r].pc /\ req'[r].key = req[r].key
      BY <2>1, <2>2 DEF StoreTypes, Request
    <2>5. req' \in [Requests -> Request] /\ \A q \in Requests \ {r} : req'[q] = req[q]
      BY <2>1, <2>4 DEF StoreTypes
    <2>6. /\ server' \in [Convs -> {"unborn", "there", "gone"}]
          /\ turns' \in [Convs -> Data]
          /\ \A d \in Convs : server[d] # "unborn" => server'[d] # "unborn"
          /\ server'[c] # "unborn"
      BY <2>1 DEF StoreTypes, Data
    <2>7. StoreTypes'
      BY <2>3, <2>5, <2>6 DEF StoreTypes
    <2>8. Courses'
      BY <2>2, <2>3, <2>4, <2>5 DEF Courses
    <2>9. KnownConvs'
      BY <2>3, <2>4, <2>5, <2>6 DEF KnownConvs, Born
    <2> QED
      BY <2>7, <2>8, <2>9
  <1>2. ASSUME NEW r \in Requests, RefuseTurn(r) \/ ServeReload(r) PROVE BaseInv'
    <2>1. req[r].pc # "new" /\ req[r] \in Request
      BY <1>2 DEF RefuseTurn, ServeReload, Courses, StoreTypes
    <2>2. /\ UNCHANGED <<server, turns, call, cache, active, shown, loading, error, pending, polling>>
          /\ \A q \in Requests \ {r} : req'[q] = req[q]
      BY <1>2 DEF RefuseTurn, ServeReload, StoreTypes
    <2>3. /\ req'[r] \in Request
          /\ req'[r].pc = req[r].pc /\ req'[r].key = req[r].key /\ req'[r].conv = req[r].conv
          /\ req'[r].srv \in {req[r].srv, "refused"}
          /\ req[r].srv = "stored" => req'[r].srv = "stored"
      <3>1. CASE RefuseTurn(r)
        BY <2>1, <3>1 DEF RefuseTurn, StoreTypes, Request
      <3>2. CASE ServeReload(r)
        <4>1. req[r].conv \in Convs /\ turns[req[r].conv] \in Data
          BY <3>2 DEF ServeReload, Courses, StoreTypes
        <4> QED
          BY <2>1, <3>2, <4>1 DEF ServeReload, StoreTypes, Request
      <3> QED
        BY <1>2, <3>1, <3>2
    <2>4. req' \in [Requests -> Request]
      <3>1. req' = [req EXCEPT ![r] = req'[r]]
        BY <1>2 DEF RefuseTurn, ServeReload, StoreTypes
      <3> QED
        BY <2>3, <3>1 DEF StoreTypes
    <2>5. StoreTypes'
      BY <2>2, <2>4 DEF StoreTypes
    <2>6. Courses' /\ KnownConvs'
      BY <2>1, <2>2, <2>3 DEF Courses, KnownConvs, Born
    <2> QED
      BY <2>5, <2>6
  <1>3. ASSUME NEW k \in Calls, ServeCall(k) PROVE BaseInv'
    <2>1. /\ call[k].kind \in Kinds /\ call[k].conv \in Convs /\ call[k] \in Call
          /\ turns[call[k].conv] \in Data
      BY <1>3 DEF ServeCall, Courses, StoreTypes
    <2>2. /\ UNCHANGED <<req, cache, active, shown, loading, error, pending, polling>>
          /\ call' = [call EXCEPT ![k].reply = turns[call[k].conv]]
      BY <1>3 DEF ServeCall
    <2>3. call'[k] \in Call /\ call'[k].kind = call[k].kind /\ call'[k].conv = call[k].conv
      BY <2>1, <2>2 DEF StoreTypes, Call
    <2>4. call' \in [Calls -> Call] /\ \A l \in Calls \ {k} : call'[l] = call[l]
      BY <2>2, <2>3 DEF StoreTypes
    <2>5. /\ server' \in [Convs -> {"unborn", "there", "gone"}]
          /\ turns' \in [Convs -> Data]
          /\ \A d \in Convs : server[d] # "unborn" => server'[d] # "unborn"
      BY <1>3, <2>1 DEF ServeCall, StoreTypes, Data
    <2>6. StoreTypes'
      BY <2>2, <2>4, <2>5 DEF StoreTypes
    <2>7. Courses'
      BY <2>2, <2>3, <2>4 DEF Courses
    <2>8. KnownConvs'
      BY <2>2, <2>3, <2>4, <2>5 DEF KnownConvs, Born
    <2> QED
      BY <2>6, <2>7, <2>8
  <1> QED
    BY <1>1, <1>2, <1>3 DEF Serve

\* What arrives, and how a question goes on after it.
LEMMA ReplyTypes ==
    ASSUME BaseInv
    PROVE  /\ \A k \in Calls : (call[k].kind \in Kinds /\ call[k].reply # Nothing) =>
                  call[k].conv \in Convs /\ call[k].reply \in Data
           /\ \A r \in Requests : (req[r].pc = "reload" /\ req[r].reply # Nothing) =>
                  req[r].conv \in Convs /\ req[r].reply \in Data
  BY DEF BaseInv, StoreTypes, Courses, Call, Request

LEMMA QuestionEnds ==
    ASSUME BaseInv, NEW r \in Requests, NEW p \in {"done", "failed"},
           req' = [req EXCEPT ![r].pc = p, ![r].reply = Nothing]
    PROVE  /\ req' \in [Requests -> Request]
           /\ \A q \in Requests \ {r} : req'[q] = req[q]
           /\ req'[r].pc = p /\ req'[r].reply = Nothing
           /\ req'[r].srv = req[r].srv /\ req'[r].key = req[r].key
           /\ req'[r].conv = req[r].conv
  <1>1. req[r] \in Request
    BY DEF BaseInv, StoreTypes
  <1>2. /\ req'[r] \in Request
        /\ req'[r].pc = p /\ req'[r].reply = Nothing
        /\ req'[r].srv = req[r].srv /\ req'[r].key = req[r].key
        /\ req'[r].conv = req[r].conv
    BY <1>1 DEF BaseInv, StoreTypes, Request
  <1>3. \A q \in Requests \ {r} : req'[q] = req[q]
    BY DEF BaseInv, StoreTypes
  <1>4. req' = [req EXCEPT ![r] = req'[r]]
    BY DEF BaseInv, StoreTypes
  <1>5. req' \in [Requests -> Request]
    BY <1>2, <1>4 DEF BaseInv, StoreTypes
  <1> QED
    BY <1>2, <1>3, <1>5

LEMMA Displayed ==
    ASSUME NEW c \in Convs, NEW data \in Data, Display(c, data)
    PROVE  /\ shown' \in Shown /\ shown' # Nothing
           /\ shown'.conv = c /\ shown'.turns = data
  BY DEF Display, Shown

\* The end of a handler keeps them.
LEMMA ReplyKeepsBase == BaseInv /\ Reply => BaseInv'
  <1> SUFFICES ASSUME BaseInv, Reply PROVE BaseInv'
    OBVIOUS
  <1> USE DEF backend, pane, waiting, lrucache
  <1>0. StoreTypes /\ Courses /\ KnownConvs
    BY DEF BaseInv
  <1>1. ASSUME NEW k \in Calls, EndCall(k), UNCHANGED <<server, turns, req>>,
               active' \in Keys, Born(active'), shown' \in Shown \cup {Nothing},
               shown' # Nothing => Born(shown'.conv),
               cache' \in [Convs -> Data \cup {Nothing}],
               \A c \in Convs : cache'[c] # Nothing => Born(c),
               loading' \in BOOLEAN, error' \in BOOLEAN, polling' \in BOOLEAN,
               pending' \in [Keys -> Requests \cup {Nothing}]
        PROVE  BaseInv'
    <2>1. /\ call' \in [Calls -> Call]
          /\ call'[k].kind \notin Kinds /\ call'[k].conv = Nothing
          /\ \A l \in Calls \ {k} : call'[l] = call[l]
      BY <1>0, <1>1, CallEnded DEF Kinds
    <2>2. StoreTypes'
      BY <1>0, <1>1, <2>1 DEF StoreTypes
    <2>3. Courses'
      BY <1>0, <1>1, <2>1 DEF Courses
    <2>4. KnownConvs'
      BY <1>0, <1>1, <2>1 DEF KnownConvs, Born, Keys
    <2> QED
      BY <2>2, <2>3, <2>4 DEF BaseInv
  <1>2. ASSUME NEW k \in Calls, Loaded(k) PROVE BaseInv'
    <2> DEFINE c == call[k].conv
    <2>1. c \in Convs /\ call[k].reply \in Data /\ server[c] # "unborn"
      BY <1>0, <1>2, ReplyTypes DEF Loaded, Loads, Kinds, KnownConvs, Born
    <2>2. /\ EndCall(k) /\ SetCached(c, call[k].reply)
          /\ UNCHANGED <<server, turns, req, active, error, pending, polling>>
          /\ loading' \in BOOLEAN
          /\ shown' = shown \/ Display(c, call[k].reply)
      BY <1>0, <1>2 DEF Loaded, StoreTypes
    <2> HIDE DEF c
    <2>3. /\ shown' \in Shown \cup {Nothing}
          /\ shown' # Nothing => Born(shown'.conv)
      BY <1>0, <2>1, <2>2, Displayed DEF StoreTypes, KnownConvs, Born
    <2>4. /\ cache' \in [Convs -> Data \cup {Nothing}]
          /\ \A d \in Convs : cache'[d] # Nothing => Born(d)
      BY <1>0, <2>1, <2>2, CachedData DEF KnownConvs, Born
    <2> QED
      BY <1>0, <1>1, <2>2, <2>3, <2>4 DEF StoreTypes, KnownConvs
  <1>3. ASSUME NEW k \in Calls, Deleted(k) PROVE BaseInv'
    <2>1. /\ EndCall(k)
          /\ UNCHANGED <<server, turns, req, cache, loading, error>>
          /\ active' \in {active, NewChat} /\ shown' \in {shown, Nothing}
          /\ polling' \in BOOLEAN
          /\ pending' \in [Keys -> Requests \cup {Nothing}]
      BY <1>0, <1>3 DEF Deleted, StopPolling, StoreTypes
    <2>2. Born(active') /\ active' \in Keys
      BY <1>0, <2>1 DEF StoreTypes, KnownConvs, Born, Keys
    <2> QED
      BY <1>0, <1>1, <2>1, <2>2 DEF StoreTypes, KnownConvs, Born
  <1>4. ASSUME NEW k \in Calls, Rated(k) PROVE BaseInv'
    <2>1. /\ EndCall(k)
          /\ UNCHANGED <<server, turns, req, active, shown, loading, error, pending, polling>>
          /\ IF shown = Nothing THEN UNCHANGED cache ELSE SetCached(shown.conv, shown.turns)
      BY <1>4 DEF Rated
    <2>2. shown # Nothing => shown.conv \in Convs /\ shown.turns \in Data /\ Born(shown.conv)
      BY <1>0 DEF StoreTypes, Shown, KnownConvs
    <2>3. /\ cache' \in [Convs -> Data \cup {Nothing}]
          /\ \A d \in Convs : cache'[d] # Nothing => Born(d)
      <3>1. CASE shown = Nothing
        BY <1>0, <2>1, <3>1 DEF StoreTypes, KnownConvs
      <3>2. CASE shown # Nothing
        BY <1>0, <2>1, <2>2, <3>2, CachedData DEF KnownConvs
      <3> QED
        BY <3>1, <3>2
    <2> QED
      BY <1>0, <1>1, <2>1, <2>3 DEF StoreTypes, KnownConvs, Born
  <1>5. ASSUME NEW k \in Calls, CallFails(k) PROVE BaseInv'
    <2>1. /\ EndCall(k)
          /\ UNCHANGED <<server, turns, req, cache, active, shown, pending, polling>>
          /\ error' \in BOOLEAN /\ loading' \in BOOLEAN
      BY <1>0, <1>5 DEF CallFails, StoreTypes
    <2> QED
      BY <1>0, <1>1, <2>1 DEF StoreTypes, KnownConvs, Born
  <1>6. ASSUME NEW r \in Requests, Answered(r) PROVE BaseInv'
    <2>1. /\ UNCHANGED <<server, turns, call, cache, active, shown, loading, error, pending, polling>>
          /\ \A q \in Requests \ {r} : req'[q] = req[q]
          /\ req[r] \in Request /\ req[r].srv = "stored"
      BY <1>0, <1>6 DEF Answered, StoreTypes
    <2>2. /\ req'[r] \in Request /\ req'[r].pc = "reload"
          /\ req'[r].srv = "stored" /\ req'[r].key = req[r].key /\ req'[r].conv = req[r].conv
      BY <1>0, <1>6, <2>1 DEF Answered, StoreTypes, Request
    <2>3. req' \in [Requests -> Request]
      <3>1. req' = [req EXCEPT ![r] = req'[r]]
        BY <1>0, <1>6 DEF Answered, StoreTypes
      <3> QED
        BY <1>0, <2>2, <3>1 DEF StoreTypes
    <2>4. StoreTypes'
      BY <1>0, <2>1, <2>3 DEF StoreTypes
    <2>5. Courses' /\ KnownConvs'
      BY <1>0, <2>1, <2>2 DEF Courses, KnownConvs, Born
    <2> QED
      BY <2>4, <2>5 DEF BaseInv
  <1>7. ASSUME NEW r \in Requests, NEW p \in {"done", "failed"},
               req' = [req EXCEPT ![r].pc = p, ![r].reply = Nothing],
               req[r].pc # "new", UNCHANGED <<server, turns, call, loading>>,
               active' \in Keys, Born(active'), shown' \in Shown \cup {Nothing},
               shown' # Nothing => Born(shown'.conv),
               cache' \in [Convs -> Data \cup {Nothing}],
               \A c \in Convs : cache'[c] # Nothing => Born(c),
               error' \in BOOLEAN, polling' \in BOOLEAN,
               pending' \in [Keys -> Requests \cup {Nothing}]
        PROVE  BaseInv'
    <2>1. /\ req' \in [Requests -> Request]
          /\ \A q \in Requests \ {r} : req'[q] = req[q]
          /\ req'[r].pc = p
          /\ req'[r].srv = req[r].srv /\ req'[r].key = req[r].key
          /\ req'[r].conv = req[r].conv
      BY <1>7, QuestionEnds
    <2>2. StoreTypes'
      BY <1>0, <1>7, <2>1 DEF StoreTypes
    <2>3. Courses'
      BY <1>0, <1>7, <2>1 DEF Courses
    <2>4. KnownConvs'
      BY <1>0, <1>7, <2>1 DEF KnownConvs, Born
    <2> QED
      BY <2>2, <2>3, <2>4 DEF BaseInv
  <1>8. ASSUME NEW r \in Requests, Reloaded(r) PROVE BaseInv'
    <2> DEFINE c == req[r].conv
    <2>1. c \in Convs /\ req[r].reply \in Data /\ server[c] # "unborn"
      BY <1>0, <1>8, ReplyTypes DEF Reloaded, KnownConvs, Born
    <2>2. /\ req' = [req EXCEPT ![r].pc = "done", ![r].reply = Nothing]
          /\ req[r].pc = "reload" /\ SetCached(c, req[r].reply)
          /\ UNCHANGED <<server, turns, call, loading, error>>
          /\ polling' \in BOOLEAN
          /\ pending' \in [Keys -> Requests \cup {Nothing}]
          /\ \/ active' = c /\ Display(c, req[r].reply)
             \/ UNCHANGED <<active, shown>>
      BY <1>0, <1>8 DEF Reloaded, CachesAnswer, StopPolling, StoreTypes
    <2> HIDE DEF c
    <2>3. /\ shown' \in Shown \cup {Nothing}
          /\ shown' # Nothing => Born(shown'.conv)
          /\ active' \in Keys /\ Born(active')
      BY <1>0, <2>1, <2>2, Displayed DEF StoreTypes, KnownConvs, Born, Keys
    <2>4. /\ cache' \in [Convs -> Data \cup {Nothing}]
          /\ \A d \in Convs : cache'[d] # Nothing => Born(d)
      BY <1>0, <2>1, <2>2, CachedData DEF KnownConvs, Born
    <2> QED
      BY <1>0, <1>7, <2>2, <2>3, <2>4 DEF StoreTypes
  <1>9. ASSUME NEW r \in Requests, SendFails(r) PROVE BaseInv'
    <2>1. /\ req' = [req EXCEPT ![r].pc = "failed", ![r].reply = Nothing]
          /\ req[r].pc # "new" /\ error' = TRUE /\ polling' \in BOOLEAN
          /\ UNCHANGED <<server, turns, call, cache, active, shown, loading, pending>>
      BY <1>0, <1>9 DEF SendFails, StopPolling, StoreTypes
    <2> QED
      BY <1>0, <1>7, <2>1 DEF StoreTypes, KnownConvs, Born
  <1> QED
    BY <1>2, <1>3, <1>4, <1>5, <1>6, <1>8, <1>9 DEF Reply

\* BaseInv holds always.
LEMMA BaseAlways == Spec => []BaseInv
  <1>1. BaseInv /\ [Next]_vars => BaseInv'
    <2> SUFFICES ASSUME BaseInv, [Next]_vars PROVE BaseInv'
      OBVIOUS
    <2>1. CASE Next
      BY <2>1, UserKeepsBase, ServeKeepsBase, ReplyKeepsBase DEF Next
    <2>2. CASE UNCHANGED vars
      BY <2>2 DEF vars, BaseInv, StoreTypes, Courses, KnownConvs, Born
    <2> QED
      BY <2>1, <2>2
  <1> QED
    BY BaseInit, <1>1, PTL DEF Spec

-----------------------------------------------------------------------------
(* The display.                                                            *)

\* No step takes the display from its conversation, or the load from a skeleton.
LEMMA PaneStep == BaseInv /\ PaneIsRight /\ [Next]_vars => PaneIsRight'
  <1> SUFFICES ASSUME BaseInv, PaneIsRight, [Next]_vars PROVE PaneIsRight'
    OBVIOUS
  <1> USE DEF backend, pane, waiting, lrucache
  <1>0. StoreTypes /\ Courses
    BY DEF BaseInv
  <1>1. ASSUME UNCHANGED <<active, shown, loading>>,
               \A k \in Calls : call[k].kind = "cold" =>
                  call'[k].kind = "cold" /\ call'[k].conv = call[k].conv
        PROVE  PaneIsRight'
    BY <1>1 DEF PaneIsRight
  <1>2. ASSUME NEW c \in Convs, NEW kind \in Kinds, StartCall(kind, c),
               UNCHANGED <<active, shown, loading>>
        PROVE  PaneIsRight'
    <2>1. \A k \in Calls : call[k].kind = "cold" =>
             call'[k].kind = "cold" /\ call'[k].conv = call[k].conv
      BY <1>0, <1>2, CallStarted
    <2> QED
      BY <1>1, <1>2, <2>1
  <1>3. ASSUME NEW k \in Calls, EndCall(k), UNCHANGED <<active, shown>>,
               loading' => loading,
               loading' /\ shown = Nothing /\ call[k].kind = "cold" => call[k].conv # active
        PROVE  PaneIsRight'
    <2>1. \A l \in Calls \ {k} : call'[l] = call[l]
      BY <1>0, <1>3, CallEnded
    <2> QED
      BY <1>3, <2>1 DEF PaneIsRight
  <1>4. ASSUME NEW c \in Convs, SetActiveConversation(c) PROVE PaneIsRight'
    <2>1. CASE cache[c] # Nothing /\ shown' = [conv |-> c, turns |-> cache[c]] /\ loading' = FALSE
      BY <1>4, <2>1 DEF SetActiveConversation, PaneIsRight
    <2>2. CASE shown' = Nothing /\ StartCall("cold", c)
      <3>1. "cold" \in Kinds /\ active' = c
        BY <1>4 DEF SetActiveConversation, Kinds
      <3>2. \E k \in Calls : call'[k].kind = "cold" /\ call'[k].conv = c
        BY <1>0, <2>2, <3>1, CallStarted
      <3> QED
        BY <2>2, <3>1, <3>2 DEF PaneIsRight
    <2> QED
      BY <1>4, <2>1, <2>2 DEF SetActiveConversation, ColdLoad
  <1>5. ASSUME NEW c \in Convs, PrefetchConversation(c) \/ DeleteConversation(c)
        PROVE  PaneIsRight'
    BY <1>5, <1>2 DEF PrefetchConversation, DeleteConversation, Kinds
  <1>6. CASE SubmitFeedback
    <2>1. shown.conv \in Convs /\ "rate" \in Kinds
      BY <1>0, <1>6 DEF SubmitFeedback, StoreTypes, Shown, Kinds
    <2> QED
      BY <1>2, <1>6, <2>1 DEF SubmitFeedback
  <1>7. CASE StartNewChat
    BY <1>7 DEF StartNewChat, PaneIsRight
  <1>8. CASE PageReload
    BY <1>8 DEF PageReload, PaneIsRight
  <1>9. CASE (\E r \in Requests : SendMessage(r)) \/ ClearError
    <2>1. UNCHANGED <<active, shown, loading, call>>
      BY <1>9 DEF SendMessage, ClearError
    <2> QED
      BY <2>1 DEF PaneIsRight
  <1>10. CASE Serve
    <2>1. CASE \E r \in Requests : StoreTurn(r) \/ RefuseTurn(r) \/ ServeReload(r)
      <3>1. UNCHANGED <<active, shown, loading, call>>
        BY <2>1 DEF StoreTurn, RefuseTurn, ServeReload
      <3> QED
        BY <3>1 DEF PaneIsRight
    <2>2. ASSUME NEW k \in Calls, ServeCall(k) PROVE PaneIsRight'
      <3>1. /\ UNCHANGED <<active, shown, loading>>
            /\ call' = [call EXCEPT ![k].reply = turns[call[k].conv]]
        BY <2>2 DEF ServeCall
      <3>2. /\ call'[k].kind = call[k].kind /\ call'[k].conv = call[k].conv
            /\ \A l \in Calls \ {k} : call'[l] = call[l]
        <4>1. call[k] \in Call
          BY <1>0 DEF StoreTypes
        <4> QED
          BY <1>0, <3>1, <4>1 DEF StoreTypes, Call
      <3>3. \A l \in Calls : call'[l].kind = call[l].kind /\ call'[l].conv = call[l].conv
        BY <3>2
      <3> QED
        BY <1>1, <3>1, <3>3
    <2> QED
      BY <1>10, <2>1, <2>2 DEF Serve
  <1>11. ASSUME NEW k \in Calls, Loaded(k) PROVE PaneIsRight'
    <2> DEFINE c == call[k].conv
    <2>1. c \in Convs /\ call[k].reply \in Data /\ EndCall(k) /\ active' = active
      BY <1>11, ReplyTypes DEF Loaded, Loads, Kinds
    <2> HIDE DEF c
    <2>2. CASE Display(c, call[k].reply) /\ active = c
      BY <2>1, <2>2, Displayed DEF PaneIsRight
    <2>3. CASE /\ UNCHANGED <<shown, loading>>
               /\ ~(active = c /\ (call[k].kind = "prefetch" => shown = Nothing))
      BY <1>3, <2>1, <2>3 DEF c
    <2> QED
      BY <1>11, <2>2, <2>3 DEF Loaded, c
  <1>12. ASSUME NEW k \in Calls, Deleted(k) PROVE PaneIsRight'
    <2>1. CASE active' = NewChat /\ shown' = Nothing
      BY <2>1 DEF PaneIsRight
    <2>2. CASE UNCHANGED <<active, shown>>
      BY <1>3, <1>12, <2>2 DEF Deleted
    <2> QED
      BY <1>12, <2>1, <2>2 DEF Deleted
  <1>13. ASSUME NEW k \in Calls, Rated(k) PROVE PaneIsRight'
    BY <1>3, <1>13 DEF Rated
  <1>14. ASSUME NEW k \in Calls, CallFails(k) PROVE PaneIsRight'
    <2>1. /\ EndCall(k) /\ UNCHANGED <<active, shown>>
          /\ loading' => loading
          /\ loading' => ~(call[k].kind = "cold" /\ active = call[k].conv)
      BY <1>0, <1>14 DEF CallFails, StoreTypes
    <2> QED
      BY <1>3, <2>1
  <1>15. ASSUME NEW r \in Requests, Reloaded(r) PROVE PaneIsRight'
    <2>1. req[r].conv \in Convs /\ req[r].reply \in Data /\ UNCHANGED call
      BY <1>15, ReplyTypes DEF Reloaded
    <2>2. CASE active' = req[r].conv /\ Display(req[r].conv, req[r].reply)
      BY <2>1, <2>2, Displayed DEF PaneIsRight
    <2>3. CASE UNCHANGED <<active, shown>>
      BY <1>1, <1>15, <2>1, <2>3 DEF Reloaded
    <2> QED
      BY <1>15, <2>2, <2>3 DEF Reloaded
  <1>16. ASSUME NEW r \in Requests, Answered(r) \/ SendFails(r) PROVE PaneIsRight'
    <2>1. UNCHANGED <<active, shown, loading, call>>
      BY <1>16 DEF Answered, SendFails
    <2> QED
      BY <2>1 DEF PaneIsRight
  <1>17. CASE UNCHANGED vars
    BY <1>17 DEF vars, PaneIsRight
  <1> QED
    BY <1>4, <1>5, <1>6, <1>7, <1>8, <1>9, <1>10, <1>11, <1>12, <1>13, <1>14, <1>15,
       <1>16, <1>17 DEF Next, User, Reply

\* Whatever arrives late, the browser shows the conversation the user selected, and
\* a skeleton only while a load is on its way.
THEOREM PaneAlwaysRight == Spec => []PaneIsRight
  <1>1. Init => PaneIsRight
    BY DEF Init, PaneIsRight
  <1> QED
    BY <1>1, BaseAlways, PaneStep, PTL DEF Spec

-----------------------------------------------------------------------------
(* The questions that wait.                                                *)

\* A deletion the server has confirmed leaves nothing to wait in.
DeletedIsGone ==
    \A k \in Calls : call[k].kind = "delete" /\ call[k].reply # Nothing =>
        server[call[k].conv] = "gone"

\* A question of a saved conversation that may still be answered.
Waits(r) ==
    /\ req[r].pc \in {"sent", "reload"} /\ req[r].srv # "refused"
    /\ req[r].key \in Convs /\ server[req[r].key] = "there" /\ Alone(r)

KeptInv == DeletedIsGone /\ WaitingIsKept

\* What does not end a wait keeps the message.
LEMMA StillWaits ==
    ASSUME WaitingIsKept, NEW r \in Requests, Waits(r)
    PROVE  pending[req[r].key] = r
  BY DEF WaitingIsKept, Waits

\* No step takes the message of a question that waits, or polls for nothing.
LEMMA WaitingStep == BaseInv /\ KeptInv /\ [Next]_vars => KeptInv'
  <1> SUFFICES ASSUME BaseInv, KeptInv, [Next]_vars PROVE KeptInv'
    OBVIOUS
  <1> USE DEF backend, pane, waiting, lrucache
  <1>0. StoreTypes /\ Courses /\ KnownConvs /\ DeletedIsGone /\ WaitingIsKept
    BY DEF BaseInv, KeptInv
  <1>k. /\ \A r \in Requests : Waits(r) => pending[req[r].key] = r
        /\ polling => \E k \in Keys : pending[k] # Nothing
    BY <1>0, StillWaits DEF WaitingIsKept
  <1>q. ASSUME \A r \in Requests : Waits(r)' => pending'[req'[r].key] = r,
               polling' => \E k \in Keys : pending'[k] # Nothing,
               DeletedIsGone'
        PROVE  KeptInv'
    BY <1>q DEF KeptInv, WaitingIsKept, Waits
  <1>1. ASSUME UNCHANGED <<server, req, waiting>>,
               \A k \in Calls : \/ call'[k] = call[k]
                                \/ call'[k].kind # "delete" \/ call'[k].reply = Nothing
        PROVE  KeptInv'
    <2>1. DeletedIsGone'
      BY <1>0, <1>1 DEF DeletedIsGone
    <2>2. \A r \in Requests : Waits(r)' => Waits(r)
      BY <1>1 DEF Waits, Alone
    <2> QED
      BY <1>k, <1>q, <1>1, <2>1, <2>2
  <1>2. ASSUME NEW c \in Convs, NEW kind \in Kinds, StartCall(kind, c),
               UNCHANGED <<server, req, waiting>>
        PROVE  KeptInv'
    <2>1. \A k \in Calls : call'[k] = call[k] \/ call'[k].reply = Nothing
      BY <1>0, <1>2, CallStarted
    <2> QED
      BY <1>1, <1>2, <2>1
  <1>3. ASSUME NEW k \in Calls, EndCall(k), UNCHANGED <<server, req, waiting>>
        PROVE  KeptInv'
    <2>1. \A l \in Calls : call'[l] = call[l] \/ call'[l].kind # "delete"
      BY <1>0, <1>3, CallEnded
    <2> QED
      BY <1>1, <1>3, <2>1
  <1>4. ASSUME UNCHANGED <<server, call, waiting>>,
               NEW r \in Requests,
               \A q \in Requests \ {r} : req'[q] = req[q],
               req'[r].key = req[r].key,
               req'[r].pc \in {"sent", "reload"} =>
                  req[r].pc \in {"sent", "reload"},
               req'[r].srv # "refused" => req[r].srv # "refused"
        PROVE  KeptInv'
    <2>1. DeletedIsGone'
      BY <1>0, <1>4 DEF DeletedIsGone
    <2>2. \A q \in Requests : req'[q].key = req[q].key
      BY <1>4
    <2>3. \A q \in Requests : Waits(q)' => Waits(q)
      <3>1. \A q \in Requests : Alone(q)' => Alone(q)
        BY <2>2 DEF Alone
      <3> QED
        BY <1>4, <2>2, <3>1 DEF Waits
    <2> QED
      BY <1>k, <1>q, <1>4, <2>1, <2>2, <2>3
  <1>5. ASSUME NEW c \in Convs, SetActiveConversation(c) PROVE KeptInv'
    <2>1. /\ UNCHANGED <<server, req, waiting>>
          /\ StartCall("cold", c) \/ StartCall("refresh", c) \/ UNCHANGED call
      BY <1>5 DEF SetActiveConversation, ColdLoad
    <2>2. "cold" \in Kinds /\ "refresh" \in Kinds
      BY DEF Kinds
    <2>3. CASE UNCHANGED call
      BY <1>1, <2>1, <2>3
    <2> QED
      BY <1>2, <2>1, <2>2, <2>3
  <1>6. ASSUME NEW c \in Convs, PrefetchConversation(c) \/ DeleteConversation(c)
        PROVE  KeptInv'
    BY <1>2, <1>6 DEF PrefetchConversation, DeleteConversation, Kinds
  <1>7. CASE SubmitFeedback
    <2>1. shown.conv \in Convs /\ "rate" \in Kinds
      BY <1>0, <1>7 DEF SubmitFeedback, StoreTypes, Shown, Kinds
    <2> QED
      BY <1>2, <1>7, <2>1 DEF SubmitFeedback
  <1>8. ASSUME NEW r \in Requests, SendMessage(r) PROVE KeptInv'
    <2>1. /\ req'[r].key = active /\ req[r].key = Nothing
          /\ \A q \in Requests \ {r} : req'[q] = req[q]
      BY <1>0, <1>8 DEF SendMessage, StoreTypes, Courses, Request
    <2>2. /\ UNCHANGED <<server, call>> /\ active \in Keys
          /\ pending' = [pending EXCEPT ![active] = r]
      BY <1>0, <1>8 DEF SendMessage, StoreTypes
    <2>3. pending'[active] = r /\ r # Nothing
      BY <1>0, <2>2 DEF StoreTypes
    <2>4. ASSUME NEW q \in Requests \ {r}, Waits(q)' PROVE pending'[req'[q].key] = q
      <3>1. req[q].key # active /\ req[q].key \in Keys /\ req'[q] = req[q]
        BY <2>1, <2>4 DEF Waits, Alone, Keys
      <3>2. Alone(q)
        <4>1. req[q].key # req[r].key
          BY <2>1, <2>4, <3>1 DEF Keys
        <4> QED
          BY <2>1, <2>4, <4>1 DEF Waits, Alone
      <3>3. Waits(q)
        BY <2>2, <2>4, <3>1, <3>2 DEF Waits
      <3> QED
        BY <1>0, <1>k, <2>2, <3>1, <3>3 DEF StoreTypes
    <2>5. DeletedIsGone'
      BY <1>0, <2>2 DEF DeletedIsGone
    <2> QED
      BY <1>q, <2>1, <2>2, <2>3, <2>4, <2>5
  <1>9. CASE StartNewChat
    <2>1. /\ UNCHANGED <<server, req, call>>
          /\ pending' = [pending EXCEPT ![NewChat] = Nothing]
          /\ polling' => \E k \in Keys : pending'[k] # Nothing
      BY <1>9 DEF StartNewChat, StopPolling
    <2>2. \A r \in Requests : Waits(r)' => Waits(r) /\ req[r].key \in Convs
      BY <2>1 DEF Waits, Alone
    <2>3. DeletedIsGone'
      BY <1>0, <2>1 DEF DeletedIsGone
    <2>4. \A r \in Requests : Waits(r)' => pending'[req'[r].key] = r
      BY <1>0, <1>k, <2>1, <2>2 DEF StoreTypes, Keys
    <2> QED
      BY <1>q, <2>1, <2>3, <2>4
  <1>10. CASE ClearError
    <2>1. PICK progress \in Progress :
             /\ pending' = [k \in Keys |->
                  IF pending[k] # Nothing /\ progress[pending[k]] = "failed"
                    THEN Nothing ELSE pending[k]]
             /\ StopPolling(pending', progress)
      BY <1>10 DEF ClearError
    <2>2. UNCHANGED <<server, req, call>>
      BY <1>10 DEF ClearError
    <2>3. \A r \in Requests : Waits(r)' => Waits(r)
      BY <2>2 DEF Waits, Alone
    <2>4. ASSUME NEW r \in Requests, Waits(r) PROVE pending'[req[r].key] = r
      <3>1. req[r].key \in Keys /\ pending[req[r].key] = r /\ r \in Asked
        BY <1>k, <2>4 DEF Waits, Keys, Asked
      <3>2. "failed" \notin Reported(r) /\ req[r].pc # "failed"
        BY <2>4 DEF Waits, Reported
      <3>3. progress[r] # "failed"
        BY <3>1, <3>2 DEF Progress
      <3> QED
        BY <2>1, <3>1, <3>3
    <2>5. DeletedIsGone'
      BY <1>0, <2>2 DEF DeletedIsGone
    <2>6. polling' => \E k \in Keys : pending'[k] # Nothing
      BY <2>1 DEF StopPolling
    <2> QED
      BY <1>q, <2>2, <2>3, <2>4, <2>5, <2>6
  <1>11. CASE PageReload
    <2>1. \A k \in Calls : call'[k].reply = Nothing
      BY <1>11 DEF PageReload, Over, Idle
    <2>2. \A r \in Requests : req'[r].pc \notin {"sent", "reload"}
      BY <1>0, <1>11 DEF PageReload, StoreTypes, Request
    <2>3. polling' = FALSE
      BY <1>11 DEF PageReload
    <2> QED
      BY <1>q, <2>1, <2>2, <2>3 DEF DeletedIsGone, Waits
  <1>12. ASSUME NEW r \in Requests, StoreTurn(r) PROVE KeptInv'
    <2>1. PICK c \in Convs :
            /\ server[c] \in {"unborn", "there"}
            /\ server' = [server EXCEPT ![c] = "there"]
            /\ req' = [req EXCEPT ![r].srv = "stored", ![r].conv = c]
      BY <1>12 DEF StoreTurn
    <2>2. UNCHANGED <<call, waiting>> /\ req[r].srv = "working" /\ req[r] \in Request
      BY <1>0, <1>12 DEF StoreTurn, StoreTypes
    <2>3. /\ req'[r].srv = "stored" /\ req'[r].key = req[r].key /\ req'[r].pc = req[r].pc
          /\ \A q \in Requests \ {r} : req'[q] = req[q]
      BY <1>0, <2>1, <2>2 DEF StoreTypes, Request
    <2>4. \A d \in Convs : server'[d] = server[d] \/ (d = c /\ server'[d] = "there")
      BY <1>0, <2>1 DEF StoreTypes
    <2>5. DeletedIsGone'
      BY <1>0, <2>1, <2>2, <2>4 DEF DeletedIsGone, Courses, Kinds
    <2>6. \A q \in Requests : req'[q].key = req[q].key /\ (Alone(q)' => Alone(q))
      BY <2>3 DEF Alone
    <2>7. \A q \in Requests : req[q].key \in Convs /\ server'[req[q].key] = "there"
             => server[req[q].key] = "there"
      BY <1>0, <2>1, <2>4 DEF KnownConvs, Born
    <2>8. \A q \in Requests : Waits(q)' => Waits(q)
      BY <2>2, <2>3, <2>6, <2>7 DEF Waits
    <2> QED
      BY <1>k, <1>q, <2>2, <2>5, <2>6, <2>8
  <1>13. ASSUME NEW r \in Requests, RefuseTurn(r) PROVE KeptInv'
    <2>1. req[r] \in Request
      BY <1>0 DEF StoreTypes
    <2>2. /\ UNCHANGED <<server, call, waiting>>
          /\ \A q \in Requests \ {r} : req'[q] = req[q]
          /\ req'[r].key = req[r].key /\ req'[r].pc = req[r].pc /\ req'[r].srv = "refused"
      BY <1>0, <1>13, <2>1 DEF RefuseTurn, StoreTypes, Request
    <2> QED
      BY <1>4, <2>2
  <1>14. ASSUME NEW r \in Requests, ServeReload(r) PROVE KeptInv'
    <2>1. req[r] \in Request
      BY <1>0 DEF StoreTypes
    <2>2. /\ UNCHANGED <<server, call, waiting>>
          /\ \A q \in Requests \ {r} : req'[q] = req[q]
          /\ req'[r].key = req[r].key /\ req'[r].pc = req[r].pc /\ req'[r].srv = req[r].srv
      BY <1>0, <1>14, <2>1 DEF ServeReload, StoreTypes, Request
    <2> QED
      BY <1>4, <2>2
  <1>15. ASSUME NEW k \in Calls, ServeCall(k) PROVE KeptInv'
    <2>1. call[k] \in Call /\ call[k].conv \in Convs
      BY <1>0, <1>15 DEF ServeCall, StoreTypes, Courses
    <2>2. /\ UNCHANGED <<req, waiting>>
          /\ call'[k].kind = call[k].kind /\ call'[k].conv = call[k].conv
          /\ \A l \in Calls \ {k} : call'[l] = call[l]
      BY <1>0, <1>15, <2>1 DEF ServeCall, StoreTypes, Call
    <2>3. CASE call[k].kind = "delete" /\ server' = [server EXCEPT ![call[k].conv] = "gone"]
      <3>1. /\ \A d \in Convs : server'[d] \in {server[d], "gone"}
            /\ server'[call[k].conv] = "gone"
        BY <1>0, <2>1, <2>3 DEF StoreTypes
      <3>2. DeletedIsGone'
        BY <1>0, <2>2, <3>1 DEF DeletedIsGone, Courses, Kinds
      <3>3. \A q \in Requests : Waits(q)' => Waits(q)
        BY <2>2, <3>1 DEF Waits, Alone
      <3> QED
        BY <1>k, <1>q, <2>2, <3>2, <3>3
    <2>4. CASE call[k].kind # "delete" /\ server' = server
      <3>1. DeletedIsGone'
        BY <1>0, <2>2, <2>4 DEF DeletedIsGone
      <3>2. \A q \in Requests : Waits(q)' => Waits(q)
        BY <2>2, <2>4 DEF Waits, Alone
      <3> QED
        BY <1>k, <1>q, <2>2, <3>1, <3>2
    <2> QED
      BY <1>15, <2>3, <2>4 DEF ServeCall
  <1>16. ASSUME NEW k \in Calls, Loaded(k) \/ Rated(k) \/ CallFails(k) PROVE KeptInv'
    BY <1>3, <1>16 DEF Loaded, Rated, CallFails
  <1>17. ASSUME NEW k \in Calls, Deleted(k) PROVE KeptInv'
    <2> DEFINE c == call[k].conv
    <2>1. /\ c \in Convs /\ server[c] = "gone" /\ UNCHANGED <<server, req>> /\ EndCall(k)
          /\ pending' = [pending EXCEPT ![c] = Nothing]
          /\ polling' => \E l \in Keys : pending'[l] # Nothing
      BY <1>0, <1>17 DEF Deleted, Courses, Kinds, DeletedIsGone, StopPolling
    <2> HIDE DEF c
    <2>2. DeletedIsGone'
      BY <1>0, <2>1, CallEnded DEF DeletedIsGone
    <2>3. \A q \in Requests : Waits(q)' => Waits(q) /\ req[q].key # c /\ req[q].key \in Keys
      BY <2>1 DEF Waits, Alone, Keys
    <2>4. \A q \in Requests : Waits(q)' => pending'[req'[q].key] = q
      BY <1>0, <1>k, <2>1, <2>3 DEF StoreTypes
    <2> QED
      BY <1>q, <2>1, <2>2, <2>4
  <1>18. ASSUME NEW r \in Requests, Answered(r) PROVE KeptInv'
    <2>1. req[r] \in Request
      BY <1>0 DEF StoreTypes
    <2>2. /\ UNCHANGED <<server, call, waiting>>
          /\ \A q \in Requests \ {r} : req'[q] = req[q]
          /\ req'[r].key = req[r].key /\ req[r].pc = "sent" /\ req'[r].srv = req[r].srv
      BY <1>0, <1>18, <2>1 DEF Answered, StoreTypes, Request
    <2> QED
      BY <1>4, <2>2
  <1>19. ASSUME NEW r \in Requests, Reloaded(r) PROVE KeptInv'
    <2>1. /\ UNCHANGED <<server, call>>
          /\ pending' = [pending EXCEPT ![req[r].key] = Nothing]
          /\ polling' => \E k \in Keys : pending'[k] # Nothing
          /\ req' = [req EXCEPT ![r].pc = "done", ![r].reply = Nothing]
      BY <1>19 DEF Reloaded, ClearedKey, StopPolling
    <2>2. /\ req'[r].pc = "done" /\ \A q \in Requests \ {r} : req'[q] = req[q]
          /\ req'[r].key = req[r].key
      BY <2>1, QuestionEnds
    <2>3. DeletedIsGone'
      BY <1>0, <2>1 DEF DeletedIsGone
    <2>4. ASSUME NEW q \in Requests, Waits(q)' PROVE pending'[req'[q].key] = q
      <3>1. q # r /\ req'[q] = req[q] /\ req[q].key # req[r].key /\ req[q].key \in Keys
        BY <2>2, <2>4 DEF Waits, Alone, Keys
      <3>2. Waits(q)
        BY <2>1, <2>2, <2>4, <3>1 DEF Waits, Alone
      <3> QED
        BY <1>0, <1>k, <2>1, <3>1, <3>2 DEF StoreTypes
    <2> QED
      BY <1>q, <2>1, <2>3, <2>4
  <1>20. ASSUME NEW r \in Requests, SendFails(r) PROVE KeptInv'
    <2>1. /\ UNCHANGED <<server, call, pending>>
          /\ polling' => \E k \in Keys : pending'[k] # Nothing
          /\ req' = [req EXCEPT ![r].pc = "failed", ![r].reply = Nothing]
      BY <1>20 DEF SendFails, StopPolling
    <2>2. /\ req'[r].pc = "failed" /\ \A q \in Requests \ {r} : req'[q] = req[q]
          /\ req'[r].key = req[r].key
      BY <2>1, QuestionEnds
    <2>3. DeletedIsGone'
      BY <1>0, <2>1 DEF DeletedIsGone
    <2>4. \A q \in Requests : Waits(q)' => Waits(q) /\ req'[q] = req[q]
      BY <2>1, <2>2 DEF Waits, Alone
    <2> QED
      BY <1>k, <1>q, <2>1, <2>3, <2>4
  <1>21. CASE UNCHANGED vars
    BY <1>1, <1>21 DEF vars
  <1> QED
    BY <1>5, <1>6, <1>7, <1>8, <1>9, <1>10, <1>11, <1>12, <1>13, <1>14, <1>15, <1>16,
       <1>17, <1>18, <1>19, <1>20, <1>21 DEF Next, User, Serve, Reply

\* A question asked in a saved conversation stays on display while it may still be
\* answered, and the browser polls only while a question is on display.
THEOREM WaitingAlwaysKept == Spec => []WaitingIsKept
  <1>1. Init => KeptInv
    BY DEF Init, KeptInv, DeletedIsGone, WaitingIsKept, Idle
  <1>2. KeptInv => WaitingIsKept
    BY DEF KeptInv
  <1> QED
    BY <1>1, <1>2, BaseAlways, WaitingStep, PTL DEF Spec

-----------------------------------------------------------------------------
(* The answers.                                                            *)

\* The course of a question: it is stored where it was asked or in a conversation
\* of its own, and stays there as long as the conversation does.
Stored ==
    \A r \in Requests :
        /\ req[r].pc \in {"new", "sent"} => req[r].reply = Nothing
        /\ req[r].pc = "done" => req[r].srv = "stored"
        /\ req[r].srv = "stored" =>
              /\ req[r].key \in {NewChat, req[r].conv}
              /\ server[req[r].conv] = "there" => r \in turns[req[r].conv]

Settled(r) == req[r].srv = "stored" /\ r \notin overlapped

\* Every reply that comes after it holds it.
Arriving(r) ==
    /\ \A k \in Calls : Loads(k) /\ call[k].conv = req[r].conv /\ call[k].reply # Nothing =>
          r \in call[k].reply
    /\ \A q \in Requests :
          req[q].pc = "reload" /\ req[q].conv = req[r].conv /\ req[q].reply # Nothing =>
             r \in req[q].reply

\* The answer is in the browser: its reload is done, or the browser learned of the
\* conversation only by it.
Due(r) == Settled(r) /\ (req[r].pc = "done" \/ req[r].key = NewChat)

Kept(r) ==
    /\ cache[req[r].conv] # Nothing => r \in cache[req[r].conv]
    /\ shown # Nothing /\ shown.conv = req[r].conv => r \in shown.turns

StayInv ==
    /\ Stored
    /\ \A r \in Requests : Settled(r) => Arriving(r)
    /\ \A r \in Requests : Due(r) => Kept(r)

\* A reply that is put into the cache.
LEMMA CacheKeeps ==
    ASSUME BaseInv, NEW c \in Convs, NEW data \in Data, SetCached(c, data),
           NEW r \in Requests, req[r].srv = "stored",
           cache[req[r].conv] # Nothing => r \in cache[req[r].conv],
           req[r].conv = c => r \in data
    PROVE  cache'[req[r].conv] # Nothing => r \in cache'[req[r].conv]
  <1>1. StoreTypes /\ req[r].conv \in Convs
    BY DEF BaseInv, Courses
  <1>2. cache'[c] = data /\ \A d \in Convs \ {c} : cache'[d] \in {cache[d], Nothing}
    BY <1>1, CachedData
  <1> QED
    BY <1>1, <1>2

\* Steps of the browser that leave the questions as they are.
LEMMA QuestionsLeft ==
    ASSUME StayInv, UNCHANGED <<server, turns, req, overlapped>>,
           \A k \in Calls : call'[k] = call[k] \/ call'[k].reply = Nothing,
           \A r \in Requests : Due(r) /\ Kept(r) => Kept(r)'
    PROVE  StayInv'
  <1>1. \A r \in Requests : /\ Settled(r)' <=> Settled(r)
                            /\ Due(r)' <=> Due(r)
    BY DEF Settled, Due
  <1>2. Stored'
    BY DEF StayInv, Stored
  <1>3. \A r \in Requests : Arriving(r) => Arriving(r)'
    BY DEF Arriving, Loads
  <1> QED
    BY <1>1, <1>2, <1>3 DEF StayInv

LEMMA UserStay == BaseInv /\ StayInv /\ User => StayInv'
  <1> SUFFICES ASSUME BaseInv, StayInv, User PROVE StayInv'
    OBVIOUS
  <1> USE DEF backend, pane, waiting, lrucache
  <1>0. StoreTypes /\ Courses /\ KnownConvs
    BY DEF BaseInv
  <1>1. ASSUME NEW c \in Convs, NEW kind \in Kinds, StartCall(kind, c),
               UNCHANGED <<server, turns, req, overlapped>>,
               \A r \in Requests : Due(r) /\ Kept(r) => Kept(r)'
        PROVE  StayInv'
    <2>1. \A k \in Calls : call'[k] = call[k] \/ call'[k].reply = Nothing
      BY <1>0, <1>1, CallStarted
    <2> QED
      BY <1>1, <2>1, QuestionsLeft
  <1>2. ASSUME NEW c \in Convs, SetActiveConversation(c) PROVE StayInv'
    <2>1. /\ UNCHANGED <<server, turns, req, overlapped, cache>>
          /\ StartCall("cold", c) \/ StartCall("refresh", c) \/ UNCHANGED call
          /\ \/ shown' = Nothing
             \/ cache[c] # Nothing /\ shown' = [conv |-> c, turns |-> cache[c]]
      BY <1>2 DEF SetActiveConversation, ColdLoad
    <2>2. \A r \in Requests : Due(r) /\ Kept(r) => Kept(r)'
      BY <2>1 DEF Kept
    <2>3. "cold" \in Kinds /\ "refresh" \in Kinds
      BY DEF Kinds
    <2>4. CASE UNCHANGED call
      BY <2>1, <2>2, <2>4, QuestionsLeft
    <2> QED
      BY <1>1, <2>1, <2>2, <2>3, <2>4
  <1>3. ASSUME NEW c \in Convs, PrefetchConversation(c) PROVE StayInv'
    <2>1. \A r \in Requests : Due(r) /\ Kept(r) => Kept(r)'
      BY <1>3 DEF PrefetchConversation, Kept
    <2> QED
      BY <1>1, <1>3, <2>1 DEF PrefetchConversation, Kinds
  <1>4. ASSUME NEW c \in Convs, DeleteConversation(c) PROVE StayInv'
    <2>1. UNCHANGED <<server, turns, req, overlapped, shown>>
          /\ StartCall("delete", c) /\ cache' = [cache EXCEPT ![c] = Nothing]
      BY <1>4 DEF DeleteConversation, EvictCached
    <2>2. \A d \in Convs : cache'[d] \in {cache[d], Nothing}
      BY <1>0, <2>1 DEF StoreTypes
    <2>3. \A r \in Requests : Due(r) /\ Kept(r) => Kept(r)'
      BY <1>0, <2>1, <2>2 DEF Courses, Due, Settled, Kept
    <2> QED
      BY <1>1, <2>1, <2>3 DEF Kinds
  <1>5. CASE SubmitFeedback
    <2>1. shown.conv \in Convs /\ "rate" \in Kinds
      BY <1>0, <1>5 DEF SubmitFeedback, StoreTypes, Shown, Kinds
    <2>2. \A r \in Requests : Due(r) /\ Kept(r) => Kept(r)'
      BY <1>5 DEF SubmitFeedback, Kept
    <2> QED
      BY <1>1, <1>5, <2>1, <2>2 DEF SubmitFeedback
  <1>6. CASE StartNewChat \/ ClearError
    <2>1. /\ UNCHANGED <<server, turns, req, overlapped, call, cache>>
          /\ shown' \in {shown, Nothing}
      BY <1>6 DEF StartNewChat, ClearError
    <2>2. \A r \in Requests : Due(r) /\ Kept(r) => Kept(r)'
      BY <2>1 DEF Kept
    <2> QED
      BY <2>1, <2>2, QuestionsLeft
  <1>7. ASSUME NEW r \in Requests, SendMessage(r) PROVE StayInv'
    <2>1. /\ UNCHANGED <<server, turns, overlapped, call, cache, shown>>
          /\ \A q \in Requests \ {r} : req'[q] = req[q]
          /\ req[r].pc = "new" /\ req[r].reply = Nothing
      BY <1>0, <1>7 DEF SendMessage, StoreTypes, StayInv, Stored
    <2>2. req'[r].pc = "sent" /\ req'[r].srv = "working" /\ req'[r].reply = Nothing
      <3>1. req[r] \in Request
        BY <1>0 DEF StoreTypes
      <3> QED
        BY <1>0, <1>7, <2>1, <3>1 DEF SendMessage, StoreTypes, Request
    <2>3. Stored'
      BY <2>1, <2>2 DEF StayInv, Stored
    <2>4. \A q \in Requests : Settled(q)' => Settled(q) /\ q # r /\ req'[q] = req[q]
      BY <2>1, <2>2 DEF Settled
    <2>5. \A q \in Requests \ {r} : Arriving(q) => Arriving(q)'
      BY <2>1, <2>2 DEF Arriving, Loads
    <2>6. \A q \in Requests \ {r} : /\ Due(q)' => Due(q)
                                    /\ Kept(q) => Kept(q)'
      BY <2>1, <2>4 DEF Due, Kept
    <2>7. \A q \in Requests : Due(q)' => q # r
      BY <2>4 DEF Due
    <2> QED
      BY <2>3, <2>4, <2>5, <2>6, <2>7 DEF StayInv
  <1>8. CASE PageReload
    <2>1. /\ UNCHANGED <<server, turns, overlapped>> /\ shown' = Nothing
          /\ cache' = [c \in Convs |-> Nothing]
          /\ \A k \in Calls : call'[k].reply = Nothing
      BY <1>8 DEF PageReload, Over, Idle
    <2>2. \A r \in Requests :
             /\ req'[r].srv = req[r].srv /\ req'[r].key = req[r].key
             /\ req'[r].conv = req[r].conv
             /\ \/ req'[r].pc = "lost"
                \/ /\ req'[r].pc = req[r].pc /\ req'[r].reply = req[r].reply
                   /\ req[r].pc # "reload"
      <3>1. \A r \in Requests : req[r] \in Request
        BY <1>0 DEF StoreTypes
      <3> QED
        BY <1>8, <3>1 DEF PageReload, Request
    <2>3. Stored'
      BY <2>1, <2>2 DEF StayInv, Stored
    <2>4. \A r \in Requests : Arriving(r)'
      BY <2>1, <2>2 DEF Arriving
    <2>5. \A r \in Requests : Due(r)' => Kept(r)'
      BY <1>0, <2>1, <2>2 DEF Courses, Due, Settled, Kept
    <2> QED
      BY <2>3, <2>4, <2>5 DEF StayInv
  <1> QED
    BY <1>2, <1>3, <1>4, <1>5, <1>6, <1>7, <1>8 DEF User

\* An answer is stored: the replies under way count as older, and a conversation of
\* its own is new to the browser.
LEMMA StoreStay ==
    ASSUME BaseInv, StayInv, NEW r \in Requests, StoreTurn(r)
    PROVE  StayInv'
  <1>0. StoreTypes /\ Courses /\ KnownConvs /\ Stored
    BY DEF BaseInv, StayInv
  <1>1. PICK c \in Convs :
          /\ \/ req[r].key = NewChat /\ server[c] = "unborn"
             \/ req[r].key = c /\ server[c] = "there"
          /\ server' = [server EXCEPT ![c] = "there"]
          /\ turns' = [turns EXCEPT ![c] = @ \cup {r}]
          /\ req' = [req EXCEPT ![r].srv = "stored", ![r].conv = c]
          /\ overlapped' = IF Underway(c) THEN overlapped \cup {r} ELSE overlapped
    BY DEF StoreTurn
  <1>2. /\ req[r].srv = "working" /\ req[r] \in Request /\ req[r].pc \notin {"done", "reload"}
        /\ UNCHANGED <<call, cache, shown>>
    BY <1>0 DEF StoreTurn, StoreTypes, Stored, Courses, pane, lrucache
  <1>3. /\ req'[r].srv = "stored" /\ req'[r].conv = c /\ req'[r].key = req[r].key
        /\ req'[r].pc = req[r].pc /\ req'[r].reply = req[r].reply
        /\ \A q \in Requests \ {r} : req'[q] = req[q]
    BY <1>0, <1>1, <1>2 DEF StoreTypes, Request
  <1>4. /\ turns'[c] = turns[c] \cup {r}
        /\ \A d \in Convs \ {c} : turns'[d] = turns[d] /\ server'[d] = server[d]
    BY <1>0, <1>1 DEF StoreTypes
  <1>5. Stored'
    <2>1. ASSUME NEW q \in Requests \ {r}, req[q].srv = "stored",
                 server'[req[q].conv] = "there"
          PROVE  q \in turns'[req[q].conv]
      <3>1. req[q].conv \in Convs /\ server[req[q].conv] # "unborn"
        BY <1>0, <2>1 DEF Courses, KnownConvs, Born
      <3>2. server[req[q].conv] = "there"
        BY <1>1, <1>4, <2>1, <3>1
      <3>3. q \in turns[req[q].conv]
        BY <1>0, <2>1, <3>2 DEF Stored
      <3> QED
        BY <1>4, <3>1, <3>3
    <2>2. r \in turns'[req'[r].conv]
      BY <1>3, <1>4
    <2>3. req'[r].key \in {NewChat, c}
      BY <1>1, <1>3
    <2> QED
      BY <1>0, <1>2, <1>3, <2>1, <2>2, <2>3 DEF Stored
  <1>6. \A q \in Requests \ {r} : /\ Settled(q)' => Settled(q)
                                  /\ Due(q)' => Due(q)
    BY <1>1, <1>3 DEF Settled, Due
  <1>7. ASSUME NEW q \in Requests \ {r}, Settled(q)' PROVE Arriving(q)'
    <2>1. Arriving(q)
      BY <1>6, <1>7 DEF StayInv
    <2> QED
      BY <1>2, <1>3, <2>1 DEF Arriving, Loads
  <1>8. ASSUME Settled(r)' PROVE Arriving(r)'
    <2>1. ~Underway(c)
      BY <1>1, <1>8 DEF Settled
    <2>2. \A k \in Calls : Loads(k) /\ call[k].conv = c => call[k].reply = Nothing
      BY <2>1 DEF Underway
    <2>3. \A q \in Requests : req[q].pc = "reload" /\ req[q].conv = c => req[q].reply = Nothing
      BY <2>1 DEF Underway
    <2> QED
      BY <1>2, <1>3, <2>2, <2>3 DEF Arriving, Loads
  <1>9. ASSUME NEW q \in Requests \ {r}, Due(q)' PROVE Kept(q)'
    <2>1. Kept(q)
      BY <1>6, <1>9 DEF StayInv
    <2> QED
      BY <1>2, <1>3, <2>1 DEF Kept
  <1>10. ASSUME Due(r)' PROVE Kept(r)'
    <2>1. server[c] = "unborn"
      BY <1>1, <1>2, <1>3, <1>10 DEF Due
    <2>2. cache[c] = Nothing /\ (shown # Nothing => shown.conv # c)
      BY <1>0, <2>1 DEF KnownConvs, Born
    <2> QED
      BY <1>2, <1>3, <2>2 DEF Kept
  <1> QED
    BY <1>5, <1>7, <1>8, <1>9, <1>10 DEF StayInv

\* The other steps of the server: a reply holds every turn that is there.
LEMMA ServeStay == BaseInv /\ StayInv /\ Serve => StayInv'
  <1> SUFFICES ASSUME BaseInv, StayInv, Serve PROVE StayInv'
    OBVIOUS
  <1> USE DEF backend, pane, waiting, lrucache
  <1>0. StoreTypes /\ Courses /\ Stored
    BY DEF BaseInv, StayInv
  <1>1. ASSUME NEW r \in Requests, RefuseTurn(r) PROVE StayInv'
    <2>1. req[r] \in Request /\ req[r].srv = "working"
          /\ UNCHANGED <<server, turns, overlapped, call, cache, shown>>
      BY <1>0, <1>1 DEF RefuseTurn, StoreTypes
    <2>2. /\ req'[r].srv = "refused" /\ req'[r].conv = req[r].conv /\ req'[r].key = req[r].key
          /\ req'[r].pc = req[r].pc /\ req'[r].reply = req[r].reply
          /\ \A q \in Requests \ {r} : req'[q] = req[q]
      BY <1>0, <1>1, <2>1 DEF RefuseTurn, StoreTypes, Request
    <2>3. Stored'
      BY <1>0, <2>1, <2>2 DEF Stored
    <2>4. \A q \in Requests : /\ Settled(q)' => Settled(q) /\ q # r
                              /\ Due(q)' => Due(q) /\ q # r
      BY <2>1, <2>2 DEF Settled, Due
    <2>5. \A q \in Requests \ {r} : Arriving(q) => Arriving(q)'
      BY <2>1, <2>2 DEF Arriving, Loads
    <2>6. \A q \in Requests \ {r} : Kept(q) => Kept(q)'
      BY <2>1, <2>2 DEF Kept
    <2> QED
      BY <2>3, <2>4, <2>5, <2>6 DEF StayInv
  <1>2. ASSUME NEW r \in Requests, ServeReload(r) PROVE StayInv'
    <2> DEFINE c == req[r].conv
    <2>1. req[r] \in Request /\ req[r].srv = "stored" /\ req[r].pc = "reload"
          /\ c \in Convs /\ server[c] = "there" /\ turns[c] \in Data
          /\ UNCHANGED <<server, turns, overlapped, call, cache, shown>>
      BY <1>0, <1>2 DEF ServeReload, StoreTypes, Courses
    <2>2. /\ req'[r].srv = req[r].srv /\ req'[r].conv = c /\ req'[r].key = req[r].key
          /\ req'[r].pc = "reload" /\ req'[r].reply = turns[c]
          /\ \A q \in Requests \ {r} : req'[q] = req[q]
      BY <1>0, <1>2, <2>1 DEF ServeReload, StoreTypes, Request
    <2> HIDE DEF c
    <2>3. \A q \in Requests : /\ req'[q].srv = req[q].srv /\ req'[q].pc = req[q].pc
                              /\ req'[q].conv = req[q].conv /\ req'[q].key = req[q].key
      BY <2>1, <2>2 DEF c
    <2>4. Stored'
      BY <1>0, <2>1, <2>2, <2>3 DEF Stored
    <2>5. \A q \in Requests : /\ Settled(q)' => Settled(q)
                              /\ Due(q)' => Due(q)
      BY <2>1, <2>3 DEF Settled, Due
    <2>6. ASSUME NEW q \in Requests, Settled(q) PROVE Arriving(q)'
      <3>1. Arriving(q)
        BY <2>6 DEF StayInv
      <3>2. req[q].conv = c => q \in turns[c]
        BY <1>0, <2>1, <2>6 DEF Settled, Stored
      <3> QED
        BY <2>1, <2>2, <2>3, <3>1, <3>2 DEF Arriving, Loads
    <2>7. \A q \in Requests : Kept(q) => Kept(q)'
      BY <2>1, <2>3 DEF Kept
    <2> QED
      BY <2>4, <2>5, <2>6, <2>7 DEF StayInv
  <1>3. ASSUME NEW k \in Calls, ServeCall(k) PROVE StayInv'
    <2> DEFINE c == call[k].conv
    <2>1. call[k] \in Call /\ c \in Convs /\ server[c] = "there" /\ turns[c] \in Data
          /\ UNCHANGED <<req, overlapped, cache, shown>>
      BY <1>0, <1>3 DEF ServeCall, StoreTypes, Courses
    <2>2. /\ call'[k].kind = call[k].kind /\ call'[k].conv = c /\ call'[k].reply = turns[c]
          /\ \A l \in Calls \ {k} : call'[l] = call[l]
      BY <1>0, <1>3, <2>1 DEF ServeCall, StoreTypes, Call
    <2>3. \A d \in Convs : server'[d] = "there" => server[d] = "there" /\ turns'[d] = turns[d]
      BY <1>0, <1>3, <2>1 DEF ServeCall, StoreTypes
    <2> HIDE DEF c
    <2>4. Stored'
      BY <1>0, <2>1, <2>3 DEF Stored, Courses
    <2>5. \A q \in Requests : /\ Settled(q)' => Settled(q)
                              /\ Due(q)' => Due(q)
      BY <2>1 DEF Settled, Due
    <2>6. ASSUME NEW q \in Requests, Settled(q) PROVE Arriving(q)'
      <3>1. Arriving(q)
        BY <2>6 DEF StayInv
      <3>2. req[q].conv = c => q \in turns[c]
        BY <1>0, <2>1, <2>6 DEF Settled, Stored
      <3> QED
        BY <2>1, <2>2, <3>1, <3>2 DEF Arriving, Loads, c
    <2>7. \A q \in Requests : Kept(q) => Kept(q)'
      BY <2>1 DEF Kept
    <2> QED
      BY <2>4, <2>5, <2>6, <2>7 DEF StayInv
  <1> QED
    BY <1>1, <1>2, <1>3, StoreStay DEF Serve

\* The end of a handler: a reply replaces what the browser has by what is newer.
LEMMA ReplyStay == BaseInv /\ PaneIsRight /\ StayInv /\ Reply => StayInv'
  <1> SUFFICES ASSUME BaseInv, PaneIsRight, StayInv, Reply PROVE StayInv'
    OBVIOUS
  <1> USE DEF backend, pane, waiting, lrucache
  <1>0. StoreTypes /\ Courses /\ Stored
    BY DEF BaseInv, StayInv
  <1>1. ASSUME NEW k \in Calls, EndCall(k), UNCHANGED <<server, turns, req, overlapped>>,
               \A r \in Requests : Due(r) /\ Kept(r) => Kept(r)'
        PROVE  StayInv'
    <2>1. Over.reply = Nothing
      BY DEF Over, Idle
    <2>2. \A l \in Calls : call'[l] = call[l] \/ call'[l].reply = Nothing
      BY <1>0, <1>1, <2>1, CallEnded
    <2> QED
      BY <1>1, <2>2, QuestionsLeft
  <1>2. ASSUME NEW k \in Calls, Loaded(k) PROVE StayInv'
    <2> DEFINE c == call[k].conv
               data == call[k].reply
    <2>1. /\ c \in Convs /\ data \in Data /\ data # Nothing /\ Loads(k)
          /\ EndCall(k) /\ UNCHANGED <<server, turns, req, overlapped>>
          /\ SetCached(c, data)
          /\ Display(c, data) \/ shown' = shown
      BY <1>2, ReplyTypes DEF Loaded, Loads, Kinds
    <2>2. ASSUME NEW r \in Requests, Due(r), Kept(r) PROVE Kept(r)'
      <3>1. req[r].srv = "stored" /\ (req[r].conv = c => r \in data)
        BY <2>1, <2>2 DEF Due, Settled, StayInv, Arriving
      <3> HIDE DEF c, data
      <3>2. cache'[req[r].conv] # Nothing => r \in cache'[req[r].conv]
        BY <2>1, <2>2, <3>1, CacheKeeps DEF Kept
      <3>3. shown' # Nothing /\ shown'.conv = req[r].conv => r \in shown'.turns
        BY <2>1, <2>2, <3>1, Displayed DEF Kept
      <3> QED
        BY <2>1, <3>2, <3>3 DEF Kept
    <2> QED
      BY <1>1, <2>1, <2>2
  <1>3. ASSUME NEW k \in Calls, Deleted(k) \/ CallFails(k) PROVE StayInv'
    <2>1. /\ EndCall(k) /\ UNCHANGED <<server, turns, req, overlapped, cache>>
          /\ shown' \in {shown, Nothing}
      BY <1>3 DEF Deleted, CallFails
    <2>2. \A r \in Requests : Due(r) /\ Kept(r) => Kept(r)'
      BY <2>1 DEF Kept
    <2> QED
      BY <1>1, <2>1, <2>2
  <1>4. ASSUME NEW k \in Calls, Rated(k) PROVE StayInv'
    <2>1. /\ EndCall(k) /\ UNCHANGED <<server, turns, req, overlapped, shown>>
          /\ IF shown = Nothing THEN UNCHANGED cache ELSE SetCached(shown.conv, shown.turns)
      BY <1>4 DEF Rated
    <2>2. shown # Nothing => shown.conv \in Convs /\ shown.turns \in Data
      BY <1>0 DEF StoreTypes, Shown
    <2>3. ASSUME NEW r \in Requests, Due(r), Kept(r) PROVE Kept(r)'
      <3>1. CASE shown = Nothing
        BY <2>1, <2>3, <3>1 DEF Kept
      <3>2. CASE shown # Nothing
        <4>1. req[r].srv = "stored" /\ (req[r].conv = shown.conv => r \in shown.turns)
          BY <2>3, <3>2 DEF Due, Settled, Kept
        <4>2. cache'[req[r].conv] # Nothing => r \in cache'[req[r].conv]
          BY <2>1, <2>2, <2>3, <3>2, <4>1, CacheKeeps DEF Kept
        <4> QED
          BY <2>1, <2>3, <4>2 DEF Kept
      <3> QED
        BY <3>1, <3>2
    <2> QED
      BY <1>1, <2>1, <2>3
  <1>5. ASSUME NEW r \in Requests, Answered(r) PROVE StayInv'
    <2>1. /\ req[r] \in Request /\ req[r].srv = "stored" /\ req[r].pc = "sent"
          /\ req[r].reply = Nothing
          /\ UNCHANGED <<server, turns, overlapped, call, cache, shown>>
      BY <1>0, <1>5 DEF Answered, StoreTypes, Stored
    <2>2. /\ req'[r].srv = req[r].srv /\ req'[r].conv = req[r].conv /\ req'[r].key = req[r].key
          /\ req'[r].pc = "reload" /\ req'[r].reply = Nothing
          /\ \A q \in Requests \ {r} : req'[q] = req[q]
      BY <1>0, <1>5, <2>1 DEF Answered, StoreTypes, Request
    <2>3. Stored'
      BY <1>0, <2>1, <2>2 DEF Stored
    <2>4. \A q \in Requests : /\ Settled(q)' => Settled(q)
                              /\ Due(q)' => Due(q)
      BY <2>1, <2>2 DEF Settled, Due
    <2>5. \A q \in Requests : /\ Arriving(q) => Arriving(q)'
                              /\ Kept(q) => Kept(q)'
      BY <2>1, <2>2 DEF Arriving, Loads, Kept
    <2> QED
      BY <2>3, <2>4, <2>5 DEF StayInv
  <1>6. ASSUME NEW r \in Requests, Reloaded(r) PROVE StayInv'
    <2> DEFINE c == req[r].conv
               data == req[r].reply
    <2>1. /\ c \in Convs /\ data \in Data /\ data # Nothing
          /\ req[r].pc = "reload" /\ req[r].srv = "stored"
          /\ UNCHANGED <<server, turns, overlapped, call>>
          /\ SetCached(c, data)
          /\ IF active = req[r].key THEN Display(c, data) ELSE UNCHANGED shown
          /\ req' = [req EXCEPT ![r].pc = "done", ![r].reply = Nothing]
      BY <1>0, <1>6, ReplyTypes DEF Reloaded, CachesAnswer, Courses
    <2>2. /\ req'[r].srv = req[r].srv /\ req'[r].conv = c /\ req'[r].key = req[r].key
          /\ req'[r].pc = "done" /\ req'[r].reply = Nothing
          /\ \A q \in Requests \ {r} : req'[q] = req[q]
      BY <2>1, QuestionEnds
    <2>k. \A q \in Requests :
             /\ req'[q].srv = req[q].srv /\ req'[q].conv = req[q].conv /\ req'[q].key = req[q].key
             /\ \/ req'[q].pc = "done" /\ q = r /\ req'[q].reply = Nothing
                \/ req'[q].pc = req[q].pc /\ req'[q].reply = req[q].reply
      BY <2>2
    <2>3. ASSUME NEW q \in Requests, Settled(q), req[q].conv = c PROVE q \in data
      BY <2>1, <2>3 DEF StayInv, Arriving
    <2>4. Stored'
      <3>1. UNCHANGED <<server, turns>> /\ req[r].srv = "stored"
        BY <2>1
      <3> QED
        BY <1>0, <2>k, <3>1 DEF Stored
    <2>5. \A q \in Requests : Settled(q)' => Settled(q)
      BY <2>1, <2>2 DEF Settled
    <2>6. \A q \in Requests : Arriving(q) => Arriving(q)'
      <3>1. UNCHANGED call
        BY <2>1
      <3> QED
        BY <2>k, <3>1 DEF Arriving, Loads
    <2>7. ASSUME NEW q \in Requests, Due(q)' PROVE Kept(q)'
      <3>1. Settled(q) /\ req[q].srv = "stored" /\ req'[q].conv = req[q].conv
        BY <2>2, <2>5, <2>7 DEF Due, Settled
      <3>2. CASE Due(q)
        <4>1. Kept(q)
          BY <3>2 DEF StayInv
        <4> HIDE DEF c, data
        <4>2. cache'[req[q].conv] # Nothing => q \in cache'[req[q].conv]
          BY <2>1, <2>3, <3>1, <4>1, CacheKeeps DEF Kept
        <4>3. shown' # Nothing /\ shown'.conv = req[q].conv => q \in shown'.turns
          BY <2>1, <2>3, <3>1, <4>1, Displayed DEF Kept
        <4> QED
          BY <3>1, <4>2, <4>3 DEF Kept
      <3>3. CASE ~Due(q)
        <4>1. q = r /\ req[r].key = c
          BY <1>0, <2>1, <2>2, <2>7, <3>1, <3>3 DEF Due, Settled, Stored
        <4>2. r \in data
          BY <2>3, <3>1, <4>1
        <4> HIDE DEF c, data
        <4>3. cache'[c] = data
          BY <1>0, <2>1, CachedData
        <4>4. shown' # Nothing /\ shown'.conv = c => r \in shown'.turns
          BY <2>1, <4>1, <4>2, Displayed DEF PaneIsRight
        <4> QED
          BY <2>2, <4>1, <4>2, <4>3, <4>4 DEF Kept
      <3> QED
        BY <3>2, <3>3
    <2> QED
      BY <2>4, <2>5, <2>6, <2>7 DEF StayInv
  <1>7. ASSUME NEW r \in Requests, SendFails(r) PROVE StayInv'
    <2>1. /\ UNCHANGED <<server, turns, overlapped, call, cache, shown>>
          /\ req' = [req EXCEPT ![r].pc = "failed", ![r].reply = Nothing]
      BY <1>7 DEF SendFails
    <2>2. /\ req'[r].srv = req[r].srv /\ req'[r].conv = req[r].conv /\ req'[r].key = req[r].key
          /\ req'[r].pc = "failed" /\ req'[r].reply = Nothing
          /\ \A q \in Requests \ {r} : req'[q] = req[q]
      BY <2>1, QuestionEnds
    <2>k. \A q \in Requests :
             /\ req'[q].srv = req[q].srv /\ req'[q].conv = req[q].conv /\ req'[q].key = req[q].key
             /\ \/ req'[q].pc = "failed" /\ req'[q].reply = Nothing
                \/ req'[q].pc = req[q].pc /\ req'[q].reply = req[q].reply
      BY <2>2
    <2>3. Stored'
      <3>1. UNCHANGED <<server, turns>>
        BY <2>1
      <3> QED
        BY <1>0, <2>k, <3>1 DEF Stored
    <2>4. \A q \in Requests : /\ Settled(q)' => Settled(q)
                              /\ Due(q)' => Due(q)
      BY <2>1, <2>2 DEF Settled, Due
    <2>5. \A q \in Requests : /\ Arriving(q) => Arriving(q)'
                              /\ Kept(q) => Kept(q)'
      BY <2>1, <2>2 DEF Arriving, Loads, Kept
    <2> QED
      BY <2>3, <2>4, <2>5 DEF StayInv
  <1> QED
    BY <1>2, <1>3, <1>4, <1>5, <1>6, <1>7 DEF Reply

\* An answer that has arrived stays in the cached and in the displayed conversation,
\* however many replies arrive in whatever order, unless an older reply was under way
\* when the answer was stored.
THEOREM AnswersAlwaysStay == Spec => []AnswersStay
  <1>1. Init => StayInv
    <2> SUFFICES ASSUME Init PROVE StayInv
      OBVIOUS
    <2>1. \A r \in Requests : /\ req[r].pc = "new" /\ req[r].reply = Nothing
                              /\ req[r].srv = "none"
      BY DEF Init
    <2> QED
      BY <2>1 DEF StayInv, Stored, Settled, Due
  <1>2. BaseInv /\ PaneIsRight /\ StayInv /\ [Next]_vars => StayInv'
    <2> SUFFICES ASSUME BaseInv, PaneIsRight, StayInv, [Next]_vars PROVE StayInv'
      OBVIOUS
    <2>1. CASE Next
      BY <2>1, UserStay, ServeStay, ReplyStay DEF Next
    <2>2. CASE UNCHANGED vars
      <3>1. UNCHANGED <<server, turns, req, overlapped, call, cache, shown>>
        BY <2>2 DEF vars
      <3>2. \A r \in Requests : Kept(r) => Kept(r)'
        BY <3>1 DEF Kept
      <3> QED
        BY <3>1, <3>2, QuestionsLeft
    <2> QED
      BY <2>1, <2>2
  <1>3. StayInv => AnswersStay
    BY DEF StayInv, Stored, Due, Settled, Kept, AnswersStay
  <1> QED
    BY <1>1, <1>2, <1>3, BaseAlways, PaneAlwaysRight, PTL DEF Spec

-----------------------------------------------------------------------------
(* The order of the cache names what is cached, once each.                 *)

\* An entry is written: the oldest makes room for a new one, if there is none.
LEMMA WrittenToCache ==
    ASSUME StoreTypes, LruMatchesCache, NEW c \in Convs, NEW data \in Data, SetCached(c, data)
    PROVE  LruMatchesCache'
  <1> DEFINE rest == IF Full(c) THEN Tail(lru) ELSE lru
  <1>0. /\ lru \in Seq(Convs) /\ Distinct(lru) /\ Len(lru) <= MaxCacheSize /\ Len(lru) \in Nat
        /\ Named(lru) = {d \in Convs : cache[d] # Nothing}
        /\ MaxCacheSize \in Nat \ {0} /\ data # Nothing
    BY CacheAssumption DEF LruMatchesCache, Distinct, Named
  <1>1. /\ rest \in Seq(Convs) /\ Distinct(rest) /\ Len(rest) \in Nat
        /\ c \notin Named(rest) => Len(rest) < MaxCacheSize
        /\ c \in Named(rest) => Len(rest) <= MaxCacheSize
        /\ Named(rest) \ {c} = {d \in Convs \ {c} : cache'[d] # Nothing}
    <2>1. CASE Full(c)
      <3>1. lru # <<>> /\ c \notin Named(lru) /\ rest = Tail(lru)
        BY <1>0, <2>1 DEF Full
      <3>2. /\ rest \in Seq(Convs) /\ Len(rest) = Len(lru) - 1
            /\ Named(rest) = Named(lru) \ {Head(lru)} /\ Distinct(rest)
            /\ Head(lru) \in Named(lru)
        BY <1>0, <3>1, ShiftedOne
      <3>3. \A d \in Convs \ {c} : cache'[d] = IF d = Head(lru) THEN Nothing ELSE cache[d]
        BY <2>1 DEF SetCached
      <3> HIDE DEF rest
      <3> QED
        BY <1>0, <3>1, <3>2, <3>3
    <2>2. CASE ~Full(c)
      <3>1. rest = lru /\ \A d \in Convs \ {c} : cache'[d] = cache[d]
        BY <2>2 DEF SetCached
      <3>2. c \in Named(lru) \/ Len(lru) < MaxCacheSize
        BY <1>0, <2>2 DEF Full
      <3> HIDE DEF rest
      <3> QED
        BY <1>0, <3>1, <3>2
    <2> QED
      BY <2>1, <2>2
  <1>2. lru' = Append(Removed(rest, c), c) /\ cache'[c] = data
    BY DEF SetCached, Touched
  <1> HIDE DEF rest
  <1>3. /\ Removed(rest, c) \in Seq(Convs) /\ Distinct(Removed(rest, c))
        /\ Named(Removed(rest, c)) = Named(rest) \ {c}
        /\ Len(Removed(rest, c)) < MaxCacheSize /\ Len(Removed(rest, c)) \in Nat
    <2>1. /\ Removed(rest, c) \in Seq(Convs) /\ Len(Removed(rest, c)) <= Len(rest)
          /\ c \in Named(rest) => Len(Removed(rest, c)) = Len(rest) - 1
          /\ Named(Removed(rest, c)) = Named(rest) \ {c}
          /\ Distinct(Removed(rest, c))
      BY <1>1, RemovedOne
    <2>2. Len(Removed(rest, c)) \in Nat
      BY <2>1
    <2> QED
      BY <1>0, <1>1, <2>1, <2>2
  <1>4. /\ lru' \in Seq(Convs) /\ Len(lru') = Len(Removed(rest, c)) + 1
        /\ Named(lru') = Named(Removed(rest, c)) \cup {c} /\ Distinct(lru')
    BY <1>2, <1>3, AppendedOne
  <1>5. Len(lru') <= MaxCacheSize
    BY <1>0, <1>3, <1>4
  <1>6. Named(lru') = {d \in Convs : cache'[d] # Nothing}
    BY <1>0, <1>1, <1>2, <1>3, <1>4
  <1> QED
    BY <1>4, <1>5, <1>6 DEF LruMatchesCache, Named, Distinct

\* Steps that leave the cache alone.
LEMMA CacheLeftAlone == LruMatchesCache /\ UNCHANGED lrucache => LruMatchesCache'
  BY DEF LruMatchesCache, lrucache

\* One step per action that touches the cache.
LEMMA LruStep == BaseInv /\ LruMatchesCache /\ [Next]_vars => LruMatchesCache'
  <1> SUFFICES ASSUME BaseInv, LruMatchesCache, [Next]_vars PROVE LruMatchesCache'
    OBVIOUS
  <1>0. /\ StoreTypes /\ lru \in Seq(Convs) /\ Distinct(lru) /\ Len(lru) <= MaxCacheSize
        /\ Len(lru) \in Nat /\ MaxCacheSize \in Nat \ {0}
        /\ Named(lru) = {d \in Convs : cache[d] # Nothing}
    BY CacheAssumption DEF BaseInv, LruMatchesCache, Distinct, Named
  <1>1. ASSUME NEW c \in Convs, SetActiveConversation(c) PROVE LruMatchesCache'
    <2>1. CASE cache[c] # Nothing /\ lru' = Touched(lru, c) /\ UNCHANGED cache
      <3>1. /\ Removed(lru, c) \in Seq(Convs) /\ Len(Removed(lru, c)) = Len(lru) - 1
            /\ Named(Removed(lru, c)) = Named(lru) \ {c} /\ Distinct(Removed(lru, c))
        BY <1>0, <2>1, RemovedOne
      <3>2. /\ lru' \in Seq(Convs) /\ Len(lru') = Len(Removed(lru, c)) + 1
            /\ Named(lru') = Named(Removed(lru, c)) \cup {c} /\ Distinct(lru')
        BY <2>1, <3>1, AppendedOne DEF Touched
      <3>3. Named(lru') = {d \in Convs : cache'[d] # Nothing} /\ Len(lru') <= MaxCacheSize
        BY <1>0, <2>1, <3>1, <3>2
      <3> QED
        BY <3>2, <3>3 DEF LruMatchesCache, Named, Distinct
    <2>2. CASE UNCHANGED lrucache
      BY <2>2, CacheLeftAlone
    <2> QED
      BY <1>1, <2>1, <2>2 DEF SetActiveConversation
  <1>2. ASSUME NEW c \in Convs, DeleteConversation(c) PROVE LruMatchesCache'
    <2>1. cache' = [cache EXCEPT ![c] = Nothing] /\ lru' = Removed(lru, c)
      BY <1>2 DEF DeleteConversation, EvictCached
    <2>2. /\ lru' \in Seq(Convs) /\ Len(lru') <= Len(lru)
          /\ Named(lru') = Named(lru) \ {c} /\ Distinct(lru')
      BY <1>0, <2>1, RemovedOne
    <2>3. Named(lru') = {d \in Convs : cache'[d] # Nothing}
      BY <1>0, <2>1, <2>2 DEF StoreTypes
    <2>4. Len(lru') <= MaxCacheSize
      BY <1>0, <2>2
    <2> QED
      BY <2>2, <2>3, <2>4 DEF LruMatchesCache, Named, Distinct
  <1>3. CASE PageReload
    <2>1. lru' = <<>> /\ \A c \in Convs : cache'[c] = Nothing
      BY <1>3 DEF PageReload
    <2>2. lru' \in Seq(Convs) /\ Len(lru') = 0 /\ DOMAIN lru' = {}
      BY <2>1
    <2> QED
      BY <1>0, <2>1, <2>2 DEF LruMatchesCache
  <1>4. ASSUME NEW k \in Calls, Loaded(k) PROVE LruMatchesCache'
    <2>1. call[k].conv \in Convs /\ call[k].reply \in Data
      BY <1>4, ReplyTypes DEF Loaded, Loads, Kinds
    <2> QED
      BY <1>0, <1>4, <2>1, WrittenToCache DEF Loaded
  <1>5. ASSUME NEW k \in Calls, Rated(k) PROVE LruMatchesCache'
    <2>1. CASE shown = Nothing
      BY <1>5, <2>1, CacheLeftAlone DEF Rated
    <2>2. CASE shown # Nothing
      <3>1. shown.conv \in Convs /\ shown.turns \in Data
        BY <1>0, <2>2 DEF StoreTypes, Shown
      <3> QED
        BY <1>0, <1>5, <2>2, <3>1, WrittenToCache DEF Rated
    <2> QED
      BY <2>1, <2>2
  <1>6. ASSUME NEW r \in Requests, Reloaded(r) PROVE LruMatchesCache'
    <2>1. req[r].conv \in Convs /\ req[r].reply \in Data
      BY <1>6, ReplyTypes DEF Reloaded
    <2> QED
      BY <1>0, <1>6, <2>1, WrittenToCache DEF Reloaded, CachesAnswer
  <1>7. CASE UNCHANGED lrucache
    BY <1>7, CacheLeftAlone
  <1>8. \/ \E c \in Convs : SetActiveConversation(c) \/ DeleteConversation(c)
        \/ PageReload \/ UNCHANGED lrucache
        \/ \E k \in Calls : Loaded(k) \/ Rated(k)
        \/ \E r \in Requests : Reloaded(r)
    BY DEF Next, vars, User, Serve, Reply, PrefetchConversation, SendMessage, StartNewChat,
           SubmitFeedback, ClearError, StoreTurn, RefuseTurn, ServeReload, ServeCall, Deleted,
           CallFails, Answered, SendFails, lrucache
  <1> QED
    BY <1>1, <1>2, <1>3, <1>4, <1>5, <1>6, <1>7, <1>8

\* Every variable keeps its type, and the order of the cache names the cached
\* conversations, each once, and never more of them than there is room for.
THEOREM TypeCorrect == Spec => []TypeOK
  <1> DEFINE Rest == overlapped \in SUBSET Requests /\ reloads \in Nat
  <1>1. Init => LruMatchesCache /\ Rest
    BY CacheAssumption DEF Init, LruMatchesCache
  <1>2. Rest /\ [Next]_vars => Rest'
    <2> SUFFICES ASSUME Rest, [Next]_vars PROVE Rest'
      OBVIOUS
    <2>1. \/ UNCHANGED overlapped
          \/ \E r \in Requests : overlapped' = overlapped \cup {r}
      BY DEF Next, vars, User, Serve, Reply, SetActiveConversation, DeleteConversation,
             PageReload, PrefetchConversation, SendMessage, StartNewChat, SubmitFeedback,
             ClearError, StoreTurn, RefuseTurn, ServeReload, ServeCall, Loaded, Deleted, Rated,
             CallFails, Answered, Reloaded, SendFails, backend
    <2>2. reloads' \in {reloads, reloads + 1}
      BY DEF Next, vars, User, Serve, Reply, SetActiveConversation, DeleteConversation,
             PageReload, PrefetchConversation, SendMessage, StartNewChat, SubmitFeedback,
             ClearError, StoreTurn, RefuseTurn, ServeReload, ServeCall, Loaded, Deleted, Rated,
             CallFails, Answered, Reloaded, SendFails, backend
    <2> QED
      BY <2>1, <2>2
  <1>3. BaseInv /\ LruMatchesCache /\ Rest => TypeOK
    BY DEF BaseInv, StoreTypes, TypeOK
  <1> QED
    BY <1>1, <1>2, <1>3, LruStep, BaseAlways, PTL DEF Spec
=============================================================================
