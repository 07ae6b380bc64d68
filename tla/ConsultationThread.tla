------------------------- MODULE ConsultationThread -------------------------
(***************************************************************************)
(* The messages of the conversation a counselor has open (pages/consultation).*)
(*                                                                         *)
(* The latest page of messages is loaded when the conversation opens, older   *)
(* ones on request, new ones are broadcast.  What the counselor sends is      *)
(* shown as "sending" until its broadcast comes back; the broadcast names no  *)
(* sender's id, so it is matched by its text.  A timer of eight seconds and   *)
(* the error queue, which names no message at all, turn it into "failed".     *)
(*                                                                         *)
(* Every frame, broadcast and answer may be lost or come late, which is all   *)
(* this page notices of a lost connection.                                   *)
(***************************************************************************)
EXTENDS ConsultationChats, MessageLists

CONSTANTS
  Replies,        \* what a counselor writes; a note differs from a message by its role
  PageSize,
  MaxSaid,       \* bound: messages of a conversation
  MaxSent,      \* bound: messages the counselor writes
  MaxLoads,     \* bound: requests for messages under way
  MaxFailures   \* bound: refused frames and failed requests

ASSUME ThreadBoundsAssumption ==
  /\ PageSize \in Nat \ {0}
  /\ MaxSaid \in Nat
  /\ 2 * PageSize + 1 <= MaxSaid
  /\ MaxSent \in Nat
  /\ MaxLoads \in Nat \ {0}
  /\ MaxFailures \in Nat

VARIABLES
  said,       \* chat_message of each conversation by seqNo: the counselor's text or the customer's
  thread,     \* the page's state
  pendings,   \* pendingMessagesRef, by createdAt; each has its timer running
  loads,      \* requests for pages under way
  frames,     \* the counselor's frames under way
  echoes,     \* broadcasts of the open conversation under way
  errors,     \* frames of the error queue under way
  sent,       \* tempCounterRef
  failures,
  flaws       \* history: why the thread need not be complete or in order

threadServer == <<said, frames, echoes, errors>>
threadVars == <<threadServer, thread, pendings, loads, sent, failures, flaws>>

Flaws == {"missed", "echo dropped", "late page", "ahead of echoes"}

FromCustomer == "customer"

ThreadMessage == [chat : Chats, seq : 0..MaxSaid, id : 0..MaxSent, text : Replies \cup {FromCustomer},
            state : {"sent", "sending", "failed"}]

Stored(c, i) == [chat |-> c, seq |-> i, id |-> 0, text |-> said[c][i], state |-> "sent"]

IsStored(m) == m.seq # 0

Shows(messages, i) == \E m \in ToSet(messages) : m.seq = i

\* sortMessagesByServerOrder: what has no seqNo stays behind, in the order it has.
SortMessagesByServerOrder(messages) ==
  SortedBy(messages,
    [i \in DOMAIN messages |-> IF IsStored(messages[i]) THEN messages[i].seq ELSE MaxSaid + 1])

Failure == failures < MaxFailures /\ failures' = failures + 1

-----------------------------------------------------------------------------
(* Opening a conversation.                                                   *)

EmptyThread(c) ==
  [active |-> c, of |-> NoChat, messages |-> <<>>, next |-> 0, total |-> 0, busy |-> FALSE]

Load(c, page) ==
  [chat |-> c, page |-> page, read |-> FALSE, upTo |-> 0, late |-> FALSE]

\* The load effect: the first page's answer is cancelled with the effect, the
\* older pages' answers are not, nor are they marked as an earlier visit's.
LeftBehind == {[l EXCEPT !.late = TRUE] : l \in {l \in loads : l.page # 0}}

\* Mutant: what was being sent is still waited for after the conversation is left.
MutClearPendingMessages == pendings

ClearPendingMessages == <<>>

Open(c) ==
  /\ c # thread.active
  /\ Cardinality(LeftBehind) < MaxLoads
  /\ thread' = EmptyThread(c)
  /\ pendings' = ClearPendingMessages
  /\ loads' = LeftBehind \cup (IF c = NoChat THEN {} ELSE {Load(c, 0)})
  /\ echoes' = {}
  /\ flaws' = {}
  /\ UNCHANGED <<said, frames, errors, sent, failures>>

\* The server's pages count from the latest message.
PageOf(c, page, upTo) ==
  {i \in 1..upTo : page * PageSize <= upTo - i /\ upTo - i < (page + 1) * PageSize}

TotalPages(upTo) == (upTo + PageSize - 1) \div PageSize

GetMessagePage(l) ==
  /\ l \in loads
  /\ ~l.read
  /\ loads' = (loads \ {l}) \cup {[l EXCEPT !.read = TRUE, !.upTo = Len(said[l.chat])]}
  /\ UNCHANGED <<threadServer, thread, pendings, sent, failures, flaws>>

\* The messages of a page the thread does not show yet, in their order.
PageMessages(l, shown) ==
  Filter([i \in 1..l.upTo |-> Stored(l.chat, i)],
         {Stored(l.chat, i) : i \in {i \in PageOf(l.chat, l.page, l.upTo) : ~Shows(shown, i)}})

Paged(messages, l) ==
  [thread EXCEPT !.messages = messages, !.of = l.chat,
                 !.next = l.page + 1, !.total = TotalPages(l.upTo), !.busy = FALSE]

\* Mutant: the page takes the place of what the broadcasts have brought before it.
MutMergeMessagesById(messages, l) ==
  PageMessages(l, <<>>) \o Filter(messages, {m \in ToSet(messages) : ~IsStored(m)})

\* mergeMessagesById.
MergeMessagesById(messages, l) == SortMessagesByServerOrder(messages \o PageMessages(l, messages))

FirstPageArrives(l) ==
  /\ l \in loads
  /\ l.page = 0
  /\ l.read
  /\ loads' = loads \ {l}
  /\ thread' = Paged(MergeMessagesById(thread.messages, l), l)
  /\ UNCHANGED <<threadServer, pendings, sent, failures, flaws>>

FirstPageFails(l) ==
  /\ l \in loads
  /\ l.page = 0
  /\ Failure
  /\ loads' = loads \ {l}
  /\ UNCHANGED <<threadServer, thread, pendings, sent, flaws>>

HandleLoadPreviousMessages ==
  /\ thread.active # NoChat
  /\ thread.of = thread.active
  /\ ~thread.busy
  /\ thread.next < thread.total
  /\ Cardinality(loads) < MaxLoads
  /\ thread' = [thread EXCEPT !.busy = TRUE]
  /\ loads' = loads \cup {Load(thread.active, thread.next)}
  /\ UNCHANGED <<threadServer, pendings, sent, failures, flaws>>

\* Mutant: an older page is shown in whatever conversation is open by then.
MutIsStillOpen(c) == thread.active # NoChat

IsStillOpen(c) == thread.active = c

\* dedupePrependMessages: put in front, not sorted.
PreviousPageArrives(l) ==
  /\ l \in loads
  /\ l.page # 0
  /\ l.read
  /\ loads' = loads \ {l}
  /\ IF IsStillOpen(l.chat)
     THEN /\ thread' = Paged(PageMessages(l, thread.messages) \o thread.messages, l)
          /\ flaws' = flaws \cup (IF l.late THEN {"late page"} ELSE {})
               \cup (IF PageOf(l.chat, l.page, l.upTo) \cap echoes # {} THEN {"ahead of echoes"} ELSE {})
     ELSE UNCHANGED <<thread, flaws>>
  /\ UNCHANGED <<threadServer, pendings, sent, failures>>

\* Whichever conversation is open may ask again.
PreviousPageFails(l) ==
  /\ l \in loads
  /\ l.page # 0
  /\ Failure
  /\ loads' = loads \ {l}
  /\ thread' = [thread EXCEPT !.busy = FALSE]
  /\ UNCHANGED <<threadServer, pendings, sent, flaws>>

-----------------------------------------------------------------------------
(* The server.                                                              *)

\* A message is saved and broadcast; the open conversation's is on its way or
\* missed: lost, or sent before the subscription.
SaveAndBroadcastTo(c, text) ==
  LET i == Len(said[c]) + 1
  IN  /\ i <= MaxSaid
      /\ said' = [said EXCEPT ![c] = Append(@, text)]
      /\ \/ c = thread.active /\ echoes' = echoes \cup {i} /\ UNCHANGED flaws
         \/ /\ UNCHANGED echoes
            /\ flaws' = IF c = thread.active THEN flaws \cup {"missed"} ELSE flaws

\* The customer, the assistant or the system.
CustomerSpeaks(c) ==
  /\ SaveAndBroadcastTo(c, FromCustomer)
  /\ UNCHANGED <<thread, pendings, loads, frames, errors, sent, failures>>

\* CounselorService.sendCounselorMessage, or its refusal.
ServeCounselorFrame(f) ==
  /\ f \in frames
  /\ frames' = frames \ {f}
  /\ \/ SaveAndBroadcastTo(f.chat, f.text) /\ UNCHANGED <<errors, failures>>
     \/ Failure /\ errors' \in {errors, errors + 1} /\ UNCHANGED <<said, echoes, flaws>>
  /\ UNCHANGED <<thread, pendings, loads, sent>>

-----------------------------------------------------------------------------
(* Sending.                                                                 *)

Pending(id, c, text) == [id |-> id, chat |-> c, text |-> text]

WithoutPending(id) == Filter(pendings, {p \in ToSet(pendings) : p.id # id})

RegisterPendingMessage(id, c, text) ==
  /\ pendings' = Append(WithoutPending(id), Pending(id, c, text))
  /\ frames' = frames \cup {Pending(id, c, text)}

Marked(id, state) ==
  [i \in DOMAIN thread.messages |->
    IF thread.messages[i].id = id THEN [thread.messages[i] EXCEPT !.state = state]
    ELSE thread.messages[i]]

HandleCounselorSend(text) ==
  LET id == sent + 1
      c == thread.active
  IN  /\ c # NoChat
      /\ sent < MaxSent
      /\ sent' = id
      /\ thread' = [thread EXCEPT !.of = c,
           !.messages = Append(@, [chat |-> c, seq |-> 0, id |-> id, text |-> text, state |-> "sending"])]
      /\ RegisterPendingMessage(id, c, text)
      /\ UNCHANGED <<said, loads, echoes, errors, failures, flaws>>

\* Bound: a message is not sent again while its first frame is under way.
HandleRetryMessage ==
  /\ \E m \in ToSet(thread.messages) :
       /\ m.state = "failed"
       /\ Pending(m.id, m.chat, m.text) \notin frames
       /\ thread' = [thread EXCEPT !.messages = Marked(m.id, "sending")]
       /\ RegisterPendingMessage(m.id, m.chat, m.text)
  /\ Failure
  /\ UNCHANGED <<said, loads, echoes, errors, sent, flaws>>

\* Mutant: the error marks the message and leaves its timer running.
MutForgetPending(id) == pendings

ForgetPending(id) == WithoutPending(id)

FailPendingMessage(p) ==
  /\ pendings' = ForgetPending(p.id)
  /\ thread' = [thread EXCEPT !.messages = Marked(p.id, "failed")]

AckTimeout ==
  /\ \E p \in ToSet(pendings) : FailPendingMessage(p)
  /\ UNCHANGED <<threadServer, loads, sent, failures, flaws>>

\* The error does not say which message it is about: the oldest one fails.
HandleServerError ==
  /\ errors > 0
  /\ errors' = errors - 1
  /\ IF pendings = <<>> THEN UNCHANGED <<thread, pendings>> ELSE FailPendingMessage(Head(pendings))
  /\ UNCHANGED <<said, frames, echoes, loads, sent, failures, flaws>>

\* findPendingEchoMatch: the oldest of the same text.
Matches(i) == Filter(pendings, {p \in ToSet(pendings) : p.text = said[thread.active][i]})

\* handleChatMessage with reconcileCounselorEchoMessage: an echo nobody waits
\* for is not shown.
HandleChatMessage(i) ==
  LET m == Stored(thread.active, i)
      shown == thread.messages
      known == Shows(shown, i)
      matched == IF Matches(i) = <<>> THEN 0 ELSE Head(Matches(i)).id
  IN  /\ i \in echoes
      /\ echoes' = echoes \ {i}
      /\ \/ /\ known
            /\ thread' = [thread EXCEPT !.of = thread.active]
            /\ UNCHANGED <<pendings, flaws>>
         \/ /\ ~known
            /\ m.text = FromCustomer
            /\ thread' = [thread EXCEPT !.of = thread.active,
                                        !.messages = SortMessagesByServerOrder(Append(shown, m))]
            /\ UNCHANGED <<pendings, flaws>>
         \/ /\ ~known
            /\ m.text # FromCustomer
            /\ matched # 0
            /\ pendings' = WithoutPending(matched)
            /\ thread' = [thread EXCEPT !.of = thread.active,
                 !.messages = SortMessagesByServerOrder(
                   [j \in DOMAIN shown |-> IF shown[j].id = matched THEN m ELSE shown[j]])]
            /\ UNCHANGED flaws
         \/ /\ ~known
            /\ m.text # FromCustomer
            /\ matched = 0
            /\ thread' = [thread EXCEPT !.of = thread.active]
            /\ flaws' = flaws \cup {"echo dropped"}
            /\ UNCHANGED pendings
  /\ UNCHANGED <<said, frames, errors, loads, sent, failures>>

-----------------------------------------------------------------------------
ThreadInit ==
  /\ said \in [Chats -> {<<>>, [i \in 1..(2 * PageSize + 1) |-> FromCustomer]}]
  /\ thread = EmptyThread(NoChat)
  /\ pendings = <<>>
  /\ loads = {}
  /\ frames = {}
  /\ echoes = {}
  /\ errors = 0
  /\ sent = 0
  /\ failures = 0
  /\ flaws = {}

ThreadNext ==
  \/ \E c \in Chats \cup {NoChat} : Open(c)
  \/ \E l \in loads :
       \/ GetMessagePage(l) \/ FirstPageArrives(l) \/ FirstPageFails(l)
       \/ PreviousPageArrives(l) \/ PreviousPageFails(l)
  \/ HandleLoadPreviousMessages
  \/ \E c \in Chats : CustomerSpeaks(c)
  \/ \E f \in frames : ServeCounselorFrame(f)
  \/ \E t \in Replies : HandleCounselorSend(t)
  \/ HandleRetryMessage
  \/ AckTimeout
  \/ HandleServerError
  \/ \E i \in 1..MaxSaid : HandleChatMessage(i)

ThreadSpec == ThreadInit /\ [][ThreadNext]_threadVars

-----------------------------------------------------------------------------
(* Properties.                                                              *)

Visible == IF thread.of = thread.active THEN thread.messages ELSE <<>>

\* Every variable has the form its declaration names.
ThreadTypeOK ==
  /\ said \in [Chats -> Seq(Replies \cup {FromCustomer})]
  /\ thread \in [active : Chats \cup {NoChat}, of : Chats \cup {NoChat},
                 messages : Seq(ThreadMessage), next : Nat, total : Nat, busy : BOOLEAN]
  /\ pendings \in Seq([id : 1..MaxSent, chat : Chats, text : Replies])
  /\ Cardinality(loads) <= MaxLoads
  /\ \A l \in loads : l.chat \in Chats /\ l.page \in Nat /\ l.upTo <= Len(said[l.chat])
  /\ frames \subseteq [id : 1..MaxSent, chat : Chats, text : Replies]
  /\ thread.active # NoChat => \A i \in echoes : i <= Len(said[thread.active])
  /\ errors \in Nat
  /\ sent \in 0..MaxSent
  /\ failures \in 0..MaxFailures
  /\ flaws \subseteq Flaws

\* A message shown as being sent has a timer that will end it, and a timer runs
\* only for such a message: echoes matched by text, errors that name no message,
\* retries and left conversations never leave one "sending" for good.
SendingIsWatched ==
  {m.id : m \in {m \in ToSet(thread.messages) : m.state = "sending"}}
    = {p.id : p \in ToSet(pendings)}

\* Whatever answers come in late, the messages shown are the open conversation's,
\* each once.
ThreadIsOfActive ==
  /\ \A m \in ToSet(Visible) : m.chat = thread.active
  /\ \A i, j \in 1..Len(Visible) :
       i # j /\ IsStored(Visible[i]) => Visible[i].seq # Visible[j].seq

InOrder ==
  \A i, j \in 1..Len(Visible) :
    i < j /\ IsStored(Visible[j]) => IsStored(Visible[i]) /\ Visible[i].seq < Visible[j].seq

\* The saved messages shown are in the order of their numbers (messageOrder.ts),
\* ahead of what is not saved yet, and when nothing is under way they are the latest ones without a gap:
\* unless a broadcast was missed, an echo was not recognised, an older page of an
\* earlier visit came in, or one that had moved on by more messages than the
\* broadcasts had brought.
ThreadIsComplete ==
  flaws = {} /\ thread.active # NoChat =>
    /\ InOrder
    /\ loads = {} /\ echoes = {} =>
         \A i \in 1..Len(said[thread.active]) :
           Shows(Visible, i) => i = Len(said[thread.active]) \/ Shows(Visible, i + 1)

=============================================================================
