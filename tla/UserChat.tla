------------------------------ MODULE UserChat ------------------------------
(***************************************************************************)
(* The customer's chat page (pages/user-chat) with the server it talks to.   *)
(*                                                                         *)
(* The page has three sources for one list of messages: the answers to its   *)
(* requests, the snapshot it asks for once when a conversation opens, and    *)
(* the broadcasts of the session's topic.  What the customer types is shown  *)
(* at once as a local message, until the server's copy takes its place.      *)
(*                                                                         *)
(*   demo           messages are posted, the answer carries what was saved   *)
(*   authenticated  messages are sent over STOMP, only the topic answers     *)
(***************************************************************************)
EXTENDS MessageLists

CONSTANTS
  Names, NoName,
  Texts,
  MaxSessions,   \* bound: sessions the server creates
  MaxLog,        \* bound: messages of a session
  MaxTyped,      \* bound: messages the customer types
  MaxMishaps     \* bound: failures, losses, reloads and navigations

ASSUME ChatNamesAssumption == NoName \notin Names
ASSUME ChatTextsAssumption == Texts # {}
ASSUME ChatBoundsAssumption ==
  /\ MaxSessions \in Nat \ {0}
  /\ MaxLog \in Nat \ {0}
  /\ MaxTyped \in Nat
  /\ MaxMishaps \in Nat

VARIABLES
  mode,         \* UserChatPageMode
  log,          \* chat_message of each session, by seqNo
  owner,        \* the name a session was created for
  human,        \* sessions a counselor has taken
  generating,   \* sessions whose answer is being generated
  page,         \* the component's state and refs
  starts,       \* requests for a session
  sync,         \* the request for the messages of the open conversation
  sends,        \* posts (demo) and frames (authenticated) on their way
  wire,         \* broadcasts on their way to the page: the topic's messages by seqNo
  linked,       \* connectionStatus = "CONNECTED"
  storage,      \* localStorage, by name
  typed,        \* how many messages the customer typed into a session
  mishaps

chatServer == <<log, owner, human, generating>>
chatPage == <<page, storage, typed>>
chatNet == <<starts, sync, sends, wire, linked>>
userChatVars == <<mode, chatServer, chatPage, chatNet, mishaps>>

Sessions == 1..MaxSessions
NoSession == 0
Senders == {"USER", "BOT", "AGENT", "SYSTEM"}

\* A server message has its seqNo, a local one the number of its send.
ScreenMessage ==
  [session : Sessions, seq : 0..MaxLog, send : Nat, from : Senders, text : Texts]

IsLocal(m) == m.seq = 0

Saved(s, i) ==
  [session |-> s, seq |-> i, send |-> 0, from |-> log[s][i].from, text |-> log[s][i].text]

SavedUpTo(s, n) == {Saved(s, i) : i \in 1..n}

Created == {s \in Sessions : owner[s] # NoName}

-----------------------------------------------------------------------------
(* entities/chat/lib/chatMessageSync: seqNo first, a message without one is   *)
(* after all that have one; one message per id.                              *)

Before(m, n) ==
  \/ ~IsLocal(m) /\ (IsLocal(n) \/ m.seq < n.seq)
  \/ IsLocal(m) /\ IsLocal(n) /\ m.send < n.send

Sorted(S) ==
  [i \in 1..Cardinality(S) |-> CHOOSE m \in S : Cardinality({n \in S : Before(n, m)}) = i - 1]

\* Mutant: messages are appended in the order of their arrival.
MutMergeMessages(current, next) == current \o SelectSeq(next, LAMBDA m : ~Contains(current, m))

MergeMessages(current, next) == Sorted(ToSet(current) \cup ToSet(next))

Without(q, S) == Filter(q, ToSet(q) \ S)

\* Mutant: any message of the same text counts as the local copy.
MutLocalCopies(q, m) == {n \in ToSet(q) : n.from = "USER" /\ n.text = m.text}

LocalCopies(q, m) == {n \in ToSet(q) : IsLocal(n) /\ n.text = m.text}

\* Mutant: the echo is merged beside the local copy.
MutMergeRealtimeMessage(q, m) == MergeMessages(q, <<m>>)

\* The echo takes the place of the oldest local copy.
MergeRealtimeMessage(q, m) ==
  LET copies == LocalCopies(q, m)
      replaced == {n \in copies : m.from = "USER" /\ \A o \in copies : n.send <= o.send}
  IN  MergeMessages(Without(q, replaced), <<m>>)

\* The snapshot, and the local messages it has no copy of; copies are counted by text.
MergePersistedMessagesWithPending(persisted, q) ==
  LET copies(m) == {n \in ToSet(persisted) : n.from = "USER" /\ n.text = m.text}
      earlier(m) == {n \in LocalCopies(q, m) : n.send < m.send}
  IN  MergeMessages(persisted,
        Filter(q, {m \in ToSet(q) : IsLocal(m) /\ Cardinality(copies(m)) <= Cardinality(earlier(m))}))

\* messages.reduce: one after the other.
MergeRealtimeMessages(q, messages) ==
  LET merged[i \in 0..Len(messages)] ==
        IF i = 0 THEN q ELSE MergeRealtimeMessage(merged[i - 1], messages[i])
  IN  merged[Len(messages)]

-----------------------------------------------------------------------------
(* The page.  A conversation is open when it has a session; it is being       *)
(* opened while it has a name only.                                          *)

NoSync == [session |-> NoSession, since |-> 0]

Mishap == mishaps < MaxMishaps /\ mishaps' = mishaps + 1

\* The reset effect: whatever was under way is no longer waited for.
FreshPage(name, start, send) ==
  [name |-> name, start |-> start, session |-> NoSession, failed |-> FALSE, screen |-> <<>>,
   sending |-> FALSE, send |-> send, typing |-> FALSE, held |-> <<>>, timer |-> FALSE]

Opening == page.name # NoName /\ page.session = NoSession /\ ~page.failed

StopBotTyping(p) == [p EXCEPT !.typing = FALSE, !.held = <<>>, !.timer = FALSE]

\* Mutant: isCurrentConversation compares the name only.
MutIsCurrentConversation(session, name) == page.session # NoSession /\ page.name = name

IsCurrentConversation(session, name) == page.session = session /\ page.name = name

\* What localStorage holds for a name; only the demo reads it.
Store(name, session, screen) ==
  storage' = IF mode = "demo"
             THEN [storage EXCEPT ![name] =
                     [session |-> session, messages |-> Filter(screen, {m \in ToSet(screen) : ~IsLocal(m)})]]
             ELSE storage

\* The effects on a new session: the page sends for its messages and subscribes.
Opened(p, session, messages) ==
  /\ page' = [StopBotTyping(p) EXCEPT !.session = session, !.screen = messages,
                                      !.failed = FALSE, !.sending = FALSE]
  /\ sync' = [session |-> session, since |-> Len(log[session])]
  /\ wire' = {}

Left(p) ==
  /\ page' = [StopBotTyping(p) EXCEPT !.session = NoSession, !.screen = <<>>,
                                      !.failed = FALSE, !.sending = FALSE]
  /\ sync' = NoSync
  /\ wire' = {}

Asked(id, name, fresh) ==
  [id |-> id, name |-> name, fresh |-> fresh, session |-> NoSession, since |-> 0]

\* getOrCreateStoredSession: the demo goes on with the session it has stored.
StartSession(p, name, inFlight) ==
  LET id == p.start + 1
      q == [p EXCEPT !.name = name, !.start = id]
      kept == storage[name]
  IN  IF mode = "demo" /\ kept.messages # <<>>
      THEN Opened(q, kept.session, kept.messages) /\ starts' = inFlight
      ELSE Left(q) /\ starts' = inFlight \cup {Asked(id, name, FALSE)}

\* The requests of a document that is gone go on at the server.
Unheard(S) ==
  {[r EXCEPT !.waits = FALSE] : r \in {r \in S : r.stage \notin {"refused", "saved"}}}

\* The page is loaded with a name in its address, or the signed-in user's.
LoadPage(n) ==
  /\ Mishap
  /\ StartSession(FreshPage(NoName, 0, page.send), n, {})
  /\ sends' = Unheard(sends)
  /\ linked' = FALSE
  /\ UNCHANGED <<mode, chatServer, storage, typed>>

\* The address changes under the mounted page: the reset effect runs, what is
\* in flight stays in flight.
Navigate(n) ==
  /\ page.name # NoName
  /\ n # page.name
  /\ Mishap
  /\ StartSession(FreshPage(NoName, page.start + 1, page.send), n, starts)
  /\ UNCHANGED <<mode, chatServer, storage, typed, sends, linked>>

HandleNameSubmit(n) ==
  /\ page.name = NoName
  /\ StartSession(page, n, starts)
  /\ UNCHANGED <<mode, chatServer, storage, typed, sends, linked, mishaps>>

HandleStartNewSession ==
  /\ page.session # NoSession
  /\ Cardinality(Created) < MaxSessions
  /\ LET id == page.start + 1
     IN  /\ Left([page EXCEPT !.start = id])
         /\ starts' = starts \cup {Asked(id, page.name, TRUE)}
  /\ UNCHANGED <<mode, chatServer, storage, typed, sends, linked, mishaps>>

HandleResetToNameForm ==
  /\ page.failed
  /\ Left([page EXCEPT !.start = @ + 1, !.name = NoName])
  /\ UNCHANGED <<mode, chatServer, storage, typed, starts, sends, linked, mishaps>>

\* What a reading of the messages may bring: it is as old as its request or younger.
Snapshots(s, since) == {Sorted(SavedUpTo(s, n)) : n \in since..Len(log[s])}

\* registerDemoChatSession lists the messages of the session it has created.
\* The session is stored even when nobody waits for it any more.
SessionArrives(r) ==
  /\ r \in starts
  /\ r.session # NoSession
  /\ starts' = starts \ {r}
  /\ \E messages \in IF mode = "demo" THEN Snapshots(r.session, r.since) ELSE {<<>>} :
       /\ Store(r.name, r.session, messages)
       /\ IF r.id = page.start THEN Opened(page, r.session, messages)
                               ELSE UNCHANGED <<page, sync, wire>>
  /\ UNCHANGED <<mode, chatServer, typed, sends, linked, mishaps>>

StartFails(r) ==
  /\ r \in starts
  /\ starts' = starts \ {r}
  /\ page' = IF r.id = page.start THEN [page EXCEPT !.failed = TRUE] ELSE page
  /\ Mishap
  /\ UNCHANGED <<mode, chatServer, storage, typed, sync, sends, wire, linked>>

-----------------------------------------------------------------------------
(* Messages on the page.                                                     *)

\* appendRealtimeMessages: also what the stored session is kept up to date by.
AppendRealtimeMessages(p, messages) ==
  LET screen == MergeRealtimeMessages(p.screen, messages)
  IN  /\ page' = [p EXCEPT !.screen = screen]
      /\ IF messages = <<>> THEN UNCHANGED storage ELSE Store(p.name, p.session, screen)

FlushPendingBotMessages(p) == AppendRealtimeMessages(StopBotTyping(p), p.held)

\* Mutant: the message is held without a timer that will show it.
MutQueueBotMessage(p, m, late) ==
  LET held == IF Contains(p.held, m) THEN p.held ELSE Append(p.held, m)
  IN  IF p.typing /\ ~late
      THEN page' = [p EXCEPT !.held = held] /\ UNCHANGED storage
      ELSE FlushPendingBotMessages([p EXCEPT !.held = held])

\* An answer is held back until the typing indicator has been seen for a
\* second; late is whether that second is over.
QueueBotMessage(p, m, late) ==
  LET held == IF Contains(p.held, m) THEN p.held ELSE Append(p.held, m)
  IN  IF p.typing /\ ~late
      THEN page' = [p EXCEPT !.held = held, !.timer = TRUE] /\ UNCHANGED storage
      ELSE FlushPendingBotMessages([p EXCEPT !.held = held])

TypingTimeout ==
  /\ page.timer
  /\ FlushPendingBotMessages(page)
  /\ UNCHANGED <<mode, chatServer, typed, chatNet, mishaps>>

Local(session, send, text) ==
  [session |-> session, seq |-> 0, send |-> send, from |-> "USER", text |-> text]

HandleSendMessage(t) ==
  LET s == page.session
      id == page.send + 1
  IN  /\ s # NoSession
      /\ ~page.sending
      /\ mode = "demo" \/ linked
      /\ page.send < MaxTyped
      /\ typed' = [typed EXCEPT ![s] = Append(@, t)]
      /\ page' = [page EXCEPT !.send = id, !.sending = (mode = "demo"), !.typing = TRUE,
                              !.screen = MergeMessages(@, <<Local(s, id, t)>>)]
      /\ sends' = sends \cup {[id |-> id, session |-> s, name |-> page.name, text |-> t,
                               stage |-> "sent", from |-> 0, upTo |-> 0, waits |-> mode = "demo"]}
      /\ UNCHANGED <<mode, chatServer, storage, starts, sync, wire, linked, mishaps>>

\* finally: sending ends with the request that began it.
Settled(p, r) == IF p.send = r.id THEN [p EXCEPT !.sending = FALSE] ELSE p

\* The demo's answer: the customer's message and, unless a counselor is there,
\* the bot's.
SendAnswered(r) ==
  /\ r \in sends
  /\ r.stage = "saved"
  /\ sends' = sends \ {r}
  /\ IF IsCurrentConversation(r.session, r.name)
     THEN LET answer == Sorted({Saved(r.session, i) : i \in r.from..r.upTo})
              bots == Filter(answer, {m \in ToSet(answer) : m.from = "BOT"})
              others == Without(answer, ToSet(bots))
              p == Settled([page EXCEPT !.screen = MergeRealtimeMessages(@, others)], r)
          IN  IF bots = <<>>
              THEN page' = StopBotTyping(p) /\ Store(p.name, p.session, p.screen)
              ELSE \E late \in BOOLEAN : QueueBotMessage(p, Head(bots), late)
     ELSE UNCHANGED <<page, storage>>
  /\ UNCHANGED <<mode, chatServer, typed, starts, sync, wire, linked, mishaps>>

WithoutFailed(r) == Without(page.screen, {Local(r.session, r.id, r.text)})

\* Refused, or no answer: whether the server has saved it is not known.
SendFails(r) ==
  /\ r \in sends
  /\ r.waits
  /\ sends' = IF r.stage \in {"refused", "saved"} THEN sends \ {r}
              ELSE (sends \ {r}) \cup {[r EXCEPT !.waits = FALSE]}
  /\ IF r.stage = "refused" THEN UNCHANGED mishaps ELSE Mishap
  /\ page' = IF IsCurrentConversation(r.session, r.name)
             THEN Settled(StopBotTyping([page EXCEPT !.screen = WithoutFailed(r)]), r)
             ELSE page
  /\ UNCHANGED <<mode, chatServer, storage, typed, starts, sync, wire, linked>>

\* The snapshot may be older than what the topic has brought since.
SnapshotArrives ==
  /\ sync # NoSync
  /\ sync' = NoSync
  /\ \E persisted \in Snapshots(sync.session, sync.since) :
       /\ page' = [page EXCEPT !.screen = MergePersistedMessagesWithPending(persisted, @)]
       /\ Store(page.name, page.session, persisted)
  /\ UNCHANGED <<mode, chatServer, typed, starts, sends, wire, linked, mishaps>>

SnapshotFails ==
  /\ sync # NoSync
  /\ sync' = NoSync
  /\ Mishap
  /\ UNCHANGED <<mode, chatServer, chatPage, starts, sends, wire, linked>>

\* The subscription's callback; a message of a counselor or of the system ends
\* the typing indicator and with it what is held back.
Deliver(i) ==
  /\ i \in wire
  /\ wire' = wire \ {i}
  /\ LET m == Saved(page.session, i)
         stops == m.from \in {"AGENT", "SYSTEM"}
     IN  IF m.from = "BOT" /\ page.typing
         THEN \E late \in BOOLEAN : QueueBotMessage(page, m, late)
         ELSE AppendRealtimeMessages(IF stops THEN StopBotTyping(page) ELSE page, <<m>>)
  /\ UNCHANGED <<mode, chatServer, typed, starts, sync, sends, linked, mishaps>>

StompConnects ==
  /\ ~linked
  /\ linked' = TRUE
  /\ UNCHANGED <<mode, chatServer, chatPage, starts, sync, sends, wire, mishaps>>

\* Broadcasts and frames on the way are lost.  What a socket loses that closes
\* and connects again unnoticed is lost in Broadcast and HandleFrame.
StompDisconnects ==
  /\ linked
  /\ linked' = FALSE
  /\ wire' = {}
  /\ sends' = {r \in sends : mode = "demo"}
  /\ Mishap
  /\ UNCHANGED <<mode, chatServer, chatPage, starts, sync>>

-----------------------------------------------------------------------------
(* The server.                                                              *)

\* A broadcast reaches the page when it is subscribed, unless it is lost.
Broadcast(s, seqs) ==
  \/ /\ wire' = IF linked /\ page.session = s THEN wire \cup seqs ELSE wire
     /\ UNCHANGED mishaps
  \/ linked /\ page.session = s /\ Mishap /\ UNCHANGED wire

SaveMessages(s, froms, text) ==
  /\ Len(log[s]) + Len(froms) <= MaxLog
  /\ log' = [log EXCEPT ![s] =
       @ \o [i \in 1..Len(froms) |-> [from |-> froms[i], text |-> text]]]
  /\ Broadcast(s, Len(log[s]) + 1 .. Len(log[s]) + Len(froms))

\* The demo greets the customer; "current" is the customer's latest session.
CreateSession(r) ==
  /\ r \in starts
  /\ r.session = NoSession
  /\ LET new == Cardinality(Created) + 1
         reuse == mode = "authenticated" /\ ~r.fresh /\ Created # {}
         s == IF reuse THEN Cardinality(Created) ELSE new
     IN  /\ s \in Sessions
         /\ IF reuse
            THEN UNCHANGED <<owner, log>>
            ELSE /\ owner' = [owner EXCEPT ![s] = r.name]
                 /\ log' = [log EXCEPT ![s] =
                      IF mode = "demo" THEN <<[from |-> "BOT", text |-> CHOOSE t \in Texts : TRUE]>>
                                       ELSE <<>>]
         /\ starts' = (starts \ {r}) \cup {[r EXCEPT !.session = s, !.since = Len(log'[s])]}
  /\ UNCHANGED <<mode, human, generating, chatPage, sync, sends, wire, linked, mishaps>>

\* The demo's transaction holds the session's row while the answer is generated.
RowIsFree(s) == ~(mode = "demo" /\ generating[s])

\* Mutant: the answer begins one message too early.
MutStageSaved(r, n) ==
  sends' = (sends \ {r}) \cup
    {[q EXCEPT !.stage = "saved", !.from = Len(log[q.session]), !.upTo = Len(log[q.session]) + n] :
       q \in {q \in {r} : q.waits}}

\* The answer of a request: the messages it has saved.
StageSaved(r, n) ==
  sends' = (sends \ {r}) \cup
    {[q EXCEPT !.stage = "saved", !.from = Len(log[q.session]) + 1, !.upTo = Len(log[q.session]) + n] :
       q \in {q \in {r} : q.waits}}

\* appendMessage: one generation per session, a counselor's session is not answered.
AppendMessage(r) ==
  /\ mode = "demo"
  /\ r \in sends
  /\ r.stage = "sent"
  /\ LET s == r.session
     IN  \/ /\ generating[s]
            /\ sends' = (sends \ {r}) \cup {[q EXCEPT !.stage = "refused"] : q \in {q \in {r} : q.waits}}
            /\ UNCHANGED <<log, generating, wire, mishaps>>
         \/ /\ ~generating[s]
            /\ ~human[s]
            /\ sends' = (sends \ {r}) \cup {[r EXCEPT !.stage = "generating"]}
            /\ generating' = [generating EXCEPT ![s] = TRUE]
            /\ UNCHANGED <<log, wire, mishaps>>
         \/ /\ ~generating[s]
            /\ human[s]
            /\ SaveMessages(s, <<"USER">>, r.text)
            /\ StageSaved(r, 1)
            /\ UNCHANGED generating
  /\ UNCHANGED <<mode, owner, human, chatPage, starts, sync, linked>>

AppendAnswer(r) ==
  /\ r \in sends
  /\ r.stage = "generating"
  /\ SaveMessages(r.session, <<"USER", "BOT">>, r.text)
  /\ StageSaved(r, 2)
  /\ generating' = [generating EXCEPT ![r.session] = FALSE]
  /\ UNCHANGED <<mode, owner, human, chatPage, starts, sync, linked>>

\* The answer cannot be made or saved: the customer's message is rolled back with it.
AppendRollsBack(r) ==
  /\ r \in sends
  /\ r.stage = "generating"
  /\ Mishap
  /\ sends' = (sends \ {r}) \cup {[q EXCEPT !.stage = "refused"] : q \in {q \in {r} : q.waits}}
  /\ generating' = [generating EXCEPT ![r.session] = FALSE]
  /\ UNCHANGED <<mode, log, owner, human, chatPage, starts, sync, wire, linked>>

\* saveAndBroadcast, or the refusal nobody shows; then the answer's generation
\* begins unless one is under way.
HandleFrame(r) ==
  /\ mode = "authenticated"
  /\ r \in sends
  /\ sends' = sends \ {r}
  /\ \/ /\ SaveMessages(r.session, <<"USER">>, r.text)
        /\ generating' = [generating EXCEPT ![r.session] = @ \/ ~human[r.session]]
     \/ /\ Mishap
        /\ UNCHANGED <<log, wire, generating>>
  /\ UNCHANGED <<mode, owner, human, chatPage, starts, sync, linked>>

\* LlmResponseHandler: an answer is saved unless a counselor has come in, or it fails.
GenerateAndSendResponse(s) ==
  /\ mode = "authenticated"
  /\ generating[s]
  /\ generating' = [generating EXCEPT ![s] = FALSE]
  /\ \/ ~human[s] /\ \E t \in Texts : SaveMessages(s, <<"BOT">>, t)
     \/ UNCHANGED <<log, wire, mishaps>>
  /\ UNCHANGED <<mode, owner, human, chatPage, starts, sync, sends, linked>>

\* The counselor's side: the assignment's system message, then the counselor's own
\* messages and notes.  sendCounselorMessage broadcasts both to the session's topic; the
\* page knows no NOTE and takes it for the BOT's (toSenderType).
CounselorSpeaks(s) ==
  /\ s \in Created
  /\ RowIsFree(s)
  /\ human' = [human EXCEPT ![s] = TRUE]
  /\ \E t \in Texts, from \in IF human[s] THEN {"AGENT", "BOT"} ELSE {"SYSTEM"} :
       SaveMessages(s, <<from>>, t)
  /\ UNCHANGED <<mode, owner, generating, chatPage, starts, sync, sends, linked>>

-----------------------------------------------------------------------------
UserChatInit ==
  /\ mode \in {"demo", "authenticated"}
  /\ log = [s \in Sessions |-> <<>>]
  /\ owner = [s \in Sessions |-> NoName]
  /\ human = [s \in Sessions |-> FALSE]
  /\ generating = [s \in Sessions |-> FALSE]
  /\ page = FreshPage(NoName, 0, 0)
  /\ starts = {}
  /\ sync = NoSync
  /\ sends = {}
  /\ wire = {}
  /\ linked = FALSE
  /\ storage = [n \in Names |-> [session |-> NoSession, messages |-> <<>>]]
  /\ typed = [s \in Sessions |-> <<>>]
  /\ mishaps = 0

UserChatNext ==
  \/ \E n \in Names : LoadPage(n) \/ Navigate(n) \/ HandleNameSubmit(n)
  \/ HandleStartNewSession
  \/ HandleResetToNameForm
  \/ \E r \in starts : SessionArrives(r) \/ StartFails(r) \/ CreateSession(r)
  \/ \E t \in Texts : HandleSendMessage(t)
  \/ \E r \in sends :
       \/ SendAnswered(r) \/ SendFails(r)
       \/ AppendMessage(r) \/ AppendAnswer(r) \/ AppendRollsBack(r) \/ HandleFrame(r)
  \/ TypingTimeout
  \/ SnapshotArrives
  \/ SnapshotFails
  \/ \E i \in 1..MaxLog : Deliver(i)
  \/ StompConnects
  \/ StompDisconnects
  \/ \E s \in Sessions : GenerateAndSendResponse(s) \/ CounselorSpeaks(s)

UserChatSpec == UserChatInit /\ [][UserChatNext]_userChatVars

-----------------------------------------------------------------------------
(* Properties.                                                              *)

\* Every variable has the form its declaration names; an answer begins
\* with the message it was asked to save.
ChatTypeOK ==
  /\ mode \in {"demo", "authenticated"}
  /\ log \in [Sessions -> Seq([from : Senders, text : Texts])]
  /\ owner \in [Sessions -> Names \cup {NoName}]
  /\ human \in [Sessions -> BOOLEAN]
  /\ generating \in [Sessions -> BOOLEAN]
  /\ page \in [name : Names \cup {NoName}, start : Nat, session : {NoSession} \cup Sessions,
               failed : BOOLEAN, screen : Seq(ScreenMessage), sending : BOOLEAN, send : 0..MaxTyped,
               typing : BOOLEAN, held : Seq(ScreenMessage), timer : BOOLEAN]
  /\ \A r \in starts : r.name \in Names /\ r.session \in {NoSession} \cup Created
  /\ sync.session \in {NoSession, page.session}
  /\ \A r \in sends :
       /\ r.id \in 1..MaxTyped /\ r.session \in Created /\ r.text \in Texts
       /\ r.stage = "saved" =>
            /\ 1 <= r.from /\ r.from <= r.upTo /\ r.upTo <= Len(log[r.session])
            /\ log[r.session][r.from] = [from |-> "USER", text |-> r.text]
  /\ page.session # NoSession => wire \subseteq 1..Len(log[page.session])
  /\ linked \in BOOLEAN
  /\ \A n \in Names : ToSet(storage[n].messages) \subseteq ScreenMessage
  /\ typed \in [Sessions -> Seq(Texts)]
  /\ mishaps \in 0..MaxMishaps

\* The server's messages are on the screen once each and in the order of their
\* numbers, the ones not saved yet behind them, in whatever order broadcasts,
\* answers and snapshots have come in (chatMessageSync.ts compareMessageOrder).
ScreenInOrder ==
  \A i, j \in 1..Len(page.screen) : i < j => Before(page.screen[i], page.screen[j])

\* A message the customer typed is never on the screen twice, neither as a
\* local message beside its echo nor as two copies of the echo
\* (mergeRealtimeMessage, mergePersistedMessagesWithPending).
TypedShownOnce ==
  \A t \in Texts :
    Cardinality({i \in 1..Len(page.screen) : page.screen[i].from = "USER" /\ page.screen[i].text = t})
      <= IF page.session = NoSession THEN 0
         ELSE Cardinality({i \in 1..Len(typed[page.session]) : typed[page.session][i] = t})

\* Answers, snapshots and held messages of a conversation the customer has
\* left never get into the one that is open, and a demo conversation is the
\* one of the name it is shown under (isCurrentConversation, nameRequestIdRef).
OwnConversationOnly ==
  /\ \A m \in ToSet(page.screen) \cup ToSet(page.held) : m.session = page.session
  /\ page.session # NoSession /\ mode = "demo" => owner[page.session] = page.name

\* In the demo the typing indicator always has an end to wait for: an answer
\* under way or the timer that shows what is held back.
TypingIndicatorEnds ==
  mode = "demo" /\ page.typing =>
    \/ page.timer
    \/ \E r \in sends : r.waits /\ IsCurrentConversation(r.session, r.name)

\* A saved message leaves the screen of an open conversation only by the
\* snapshot: no echo of another message of the same text takes its place.
SavedStaysOnScreen ==
  [][\A m \in ToSet(page.screen) :
       ~IsLocal(m) /\ page'.session = page.session /\ sync' = sync /\ mishaps' = mishaps
         => m \in ToSet(page'.screen)]_userChatVars

=============================================================================
