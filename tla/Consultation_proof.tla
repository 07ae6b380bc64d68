------------------------- MODULE Consultation_proof -------------------------
(***************************************************************************)
(* Proofs about the counselor's page, for any conversations, texts and bounds:*)
(* about ConsultationQueue and about ConsultationThread.                     *)
(***************************************************************************)
EXTENDS ConsultationQueue, ConsultationThread, MessageLists_proof

-----------------------------------------------------------------------------
(***************************************************************************)
(* Proofs about ConsultationQueue.                                           *)
(*                                                                           *)
(* The queue agrees with the rows because news is not lost unnoticed: what the*)
(* page was told of a row is something the row once was (Informed), it shows  *)
(* what it was told last (TruthListed), and a row it does not know is in an   *)
(* event on its way or in a load (NewsComes).                                *)
(***************************************************************************)

(* Types *)

\* The forms of what the page and the server keep.
Desk ==
  [queue : [Chats -> Customer], active : Chats \cup {NoChat}, route : Chats \cup {NoChat},
   loading : BOOLEAN, loaded : BOOLEAN, error : BOOLEAN, claiming : Chats \cup {NoChat},
   modal : Modal]

ReadingForm ==
  [kind : {"load", "claim"}, target : Chats \cup {NoChat}, read : BOOLEAN,
   rows : {<<>>} \cup [Chats -> Row], sound : BOOLEAN]

ClaimForm ==
  [chat : Chats \cup {NoChat}, answer : {"none", "ok", "refused"}, row : {NotListed} \cup Row]

CloseForm ==
  [kind : {"none", "end", "release"}, chat : Chats \cup {NoChat},
   answer : {"none", "saving", "ok", "refused"}, row : {NotListed} \cup Row]

SaveForm ==
  [chat : Chats \cup {NoChat}, row : Row, type : {"none", "upserted", "removed", "silent"}]

\* An event is typed, and tells only finished conversations off the queue.
EventTyped(e) ==
  /\ e.chat \in Chats /\ e.row \in Row /\ e.type \in {"upserted", "removed"}
  /\ e.type = "removed" => e.row.status \in Finished

\* Rows and events hold rows.
RowsTyped ==
  /\ sessionRow \in [Chats -> Row]
  /\ changes \in 0..MaxChanges
  /\ \A e \in events : EventTyped(e)

\* A row that is about to be written was read, and goes with its event.
SavingTyped ==
  /\ saving \in [Unlocked -> SaveForm]
  /\ \A u \in Unlocked : saving[u] # NoSave =>
       /\ saving[u].chat \in Chats /\ saving[u].row.status # "absent" /\ saving[u].type # "none"
       /\ saving[u].type = "removed" => saving[u].row.status \in Finished

\* A dialog is about a conversation.
DialogTyped(modal) ==
  /\ modal.kind = "none" => modal = NoModal
  /\ modal.kind # "none" => modal.chat # NoChat

\* A reading for a claim has a conversation, and holds rows once it is read.
ReadingTyped(r) ==
  /\ r \in ReadingForm
  /\ r.kind = "claim" => r.target # NoChat
  /\ r.read => r.rows \in [Chats -> Row]

\* There are finitely many readings, within their bound.
ReadingsTyped ==
  /\ IsFiniteSet(readings)
  /\ Cardinality(readings) <= MaxReadings
  /\ \A r \in readings : ReadingTyped(r)

\* No claim is under way without a conversation, and a granted one has its row.
ClaimTyped ==
  /\ claim \in ClaimForm
  /\ claim.chat = NoChat => claim = NoClaim
  /\ claim.answer = "ok" => claim.row \in Row

\* An end or a release under way has a conversation, a granted one its row.
CloseTyped ==
  /\ close \in CloseForm
  /\ close.kind = "none" => close = NoClose
  /\ close.kind # "none" => close.chat # NoChat
  /\ close.answer \in {"saving", "ok"} => close.row \in Row
  /\ close.answer = "saving" => close.kind = "end"
  /\ close.answer \in {"saving", "ok"} /\ close.kind = "end" => close.row.status \in Finished

\* What the page has seen of the rows, the troubles it had and what they excuse.
HistoryTyped ==
  /\ online \in BOOLEAN
  /\ troubles \in 0..MaxTroubles
  /\ seen \in [Chats -> 0..MaxChanges]
  /\ excuses \subseteq
       {"overtaken", "load failed", "not read again", "first connection", "written silently"}

\* All of it: stronger than the type, for the forms of requests and answers.
QueueTyped ==
  /\ RowsTyped
  /\ SavingTyped
  /\ desk \in Desk
  /\ DialogTyped(desk.modal)
  /\ ReadingsTyped
  /\ ClaimTyped
  /\ CloseTyped
  /\ HistoryTyped

\* What is typed in this way has its type.
LEMMA TypedHasType == QueueTyped => QueueTypeOK
BY DEF QueueTyped, QueueTypeOK, RowsTyped, EventTyped, SavingTyped, SaveForm, Desk, ReadingsTyped,
       ReadingTyped, ReadingForm, ClaimTyped, ClaimForm, CloseTyped, CloseForm, HistoryTyped

\* The bounds are numbers.
LEMMA Bounded == MaxChanges \in Nat /\ MaxReadings \in Nat \ {0} /\ MaxTroubles \in Nat
BY QueueBoundsAssumption

\* Two entries that list a conversation in the same way, or not at all; whether
\* it is unread is left out.
SameEntry(p, q) ==
  /\ q.listed = p.listed
  /\ p.listed => q.status = p.status /\ q.counselor = p.counselor /\ q.said = p.said

\* Two desks that list the same conversations in the same way.
SameQueue(d, e) == \A c \in Chats : SameEntry(d.queue[c], e.queue[c])

\* Two desks that load, have loaded and failed alike.
SameLoading(d, e) ==
  e.loading = d.loading /\ e.loaded = d.loaded /\ e.error = d.error /\ e.claiming = d.claiming

\* Without a dialog nothing is submitted.
LEMMA NoModalForm == NoModal \in Modal /\ NoModal.kind = "none" /\ ~NoModal.submitting
BY DEF NoModal, Modal

\* Activating a conversation only makes it the active one and read.
LEMMA ActivateChanges ==
  ASSUME NEW d \in Desk, NEW c \in Chats
  PROVE  LET e == ActivateCustomer(d, c)
         IN  /\ e \in Desk /\ e.active = c /\ e.route = d.route /\ e.modal = d.modal
             /\ SameQueue(d, e) /\ SameLoading(d, e)
<1> DEFINE e == ActivateCustomer(d, c)
<1>1. e = [d EXCEPT !.active = c, !.queue = [d.queue EXCEPT ![c].unread = FALSE]]
  BY DEF ActivateCustomer, Desk
<1>2. [d.queue EXCEPT ![c].unread = FALSE] \in [Chats -> Customer]
  BY DEF Desk, Customer
<1>3. e \in Desk /\ e.active = c /\ e.route = d.route /\ e.modal = d.modal /\ SameLoading(d, e)
  BY <1>1, <1>2 DEF Desk, SameLoading
<1>4. e.queue = [d.queue EXCEPT ![c].unread = FALSE]
  BY <1>1 DEF Desk
<1>5. SameQueue(d, e)
  BY <1>4 DEF Desk, Customer, SameQueue, SameEntry
<1> QED
  BY <1>3, <1>5

\* Clearing leaves the rest alone.
LEMMA ClearChanges ==
  ASSUME NEW d \in Desk
  PROVE  LET e == ClearActiveConversation(d)
         IN  /\ e \in Desk /\ e.active = NoChat /\ e.route = d.route /\ e.modal = NoModal
             /\ e.queue = d.queue /\ SameQueue(d, e) /\ SameLoading(d, e)
BY NoModalForm DEF ClearActiveConversation, Desk, SameQueue, SameEntry, SameLoading

\* Going to the root changes the address alone.
LEMMA RootChanges ==
  ASSUME NEW d \in Desk
  PROVE  LET e == ToRoot(d)
         IN  /\ e \in Desk /\ e.active = d.active /\ e.route = NoChat /\ e.modal = d.modal
             /\ e.queue = d.queue /\ SameQueue(d, e) /\ SameLoading(d, e)
BY DEF ToRoot, Desk, SameQueue, SameEntry, SameLoading

\* The conversation that is open is the one the address names.
Follows(d) ==
  d.loaded /\ ~d.loading /\ ~d.error =>
    d.active = IF d.route = NoChat \/ ~d.queue[d.route].listed THEN NoChat ELSE d.route

\* The effect leaves the queue and its loading alone and opens what the address names.
LEMMA RouteEffectChanges ==
  ASSUME NEW d \in Desk
  PROVE  LET e == RouteEffect(d)
         IN  /\ e \in Desk /\ e.route = d.route /\ e.modal \in {d.modal, NoModal}
             /\ SameQueue(d, e) /\ SameLoading(d, e) /\ Follows(e)
<1> DEFINE e == RouteEffect(d)
<1>1. d.route \in Chats \cup {NoChat} /\ d.active \in Chats \cup {NoChat}
  BY DEF Desk
<1>2. SameQueue(d, d) /\ SameLoading(d, d)
  BY DEF SameQueue, SameEntry, SameLoading
<1>3. CASE e = d /\ ((d.route = NoChat /\ d.active = NoChat) \/ (d.route # NoChat /\ (~d.loaded \/ d.loading \/ d.error)))
  BY <1>2, <1>3 DEF Follows
<1>4. CASE e = ClearActiveConversation(d) /\ d.route = NoChat
  <2>1. e \in Desk /\ e.active = NoChat /\ e.route = d.route /\ e.modal = NoModal
        /\ SameQueue(d, e) /\ SameLoading(d, e)
    BY <1>4, ClearChanges
  <2> QED
    BY <2>1, <1>4 DEF Follows
<1>5. CASE e = ClearActiveConversation(d) /\ d.route # NoChat /\ ~d.queue[d.route].listed
  <2>1. e \in Desk /\ e.active = NoChat /\ e.route = d.route /\ e.modal = NoModal
        /\ SameQueue(d, e) /\ SameLoading(d, e)
    BY <1>5, ClearChanges
  <2>2. ~e.queue[e.route].listed
    BY <2>1, <1>5, <1>1 DEF SameQueue, SameEntry, Desk, Customer
  <2> QED
    BY <2>1, <2>2 DEF Follows
<1>6. CASE e = ActivateCustomer(d, d.route) /\ d.route # NoChat /\ d.queue[d.route].listed
  <2>0. d.route \in Chats
    BY <1>1, <1>6
  <2>1. e \in Desk /\ e.active = d.route /\ e.route = d.route /\ e.modal = d.modal
        /\ SameQueue(d, e) /\ SameLoading(d, e)
    BY <1>6, <2>0, ActivateChanges
  <2>2. e.queue[e.route].listed
    BY <2>1, <1>6, <2>0 DEF SameQueue, SameEntry
  <2> QED
    BY <2>1, <2>2, <1>6 DEF Follows
<1> QED
  <2> HIDE DEF e
  <2>1. e = RouteEffect(d)
    BY DEF e
  <2>2. \/ e = d /\ ((d.route = NoChat /\ d.active = NoChat) \/ (d.route # NoChat /\ (~d.loaded \/ d.loading \/ d.error)))
        \/ e = ClearActiveConversation(d) /\ d.route = NoChat
        \/ e = ClearActiveConversation(d) /\ d.route # NoChat /\ ~d.queue[d.route].listed
        \/ e = ActivateCustomer(d, d.route) /\ d.route # NoChat /\ d.queue[d.route].listed
    BY <2>1 DEF RouteEffect
  <2> QED
    BY <1>3, <1>4, <1>5, <1>6, <2>2 DEF e

-----------------------------------------------------------------------------
(* What the steps change *)

\* A row is changed.
RowsMoved(c) ==
  /\ changes < MaxChanges
  /\ changes' = changes + 1
  /\ sessionRow' = [sessionRow EXCEPT ![c] = sessionRow'[c]]
  /\ sessionRow'[c] \in Row
  /\ sessionRow'[c].at = changes + 1
  /\ sessionRow'[c].status # "absent"

\* The change is broadcast.
EventSent(c, type) ==
  events' = IF online THEN events \cup {Event(c, sessionRow'[c], type)} ELSE events

\* A change of a row is committed and broadcast.
RowMoved(c) ==
  /\ RowsMoved(c)
  /\ \E type \in {"upserted", "removed"} :
       EventSent(c, type) /\ (type = "removed" => sessionRow'[c].status \in Finished)

\* One is not: the page has an excuse, and so has every reading that was served.
RowLost(c) ==
  /\ RowsMoved(c)
  /\ UNCHANGED events
  /\ readings' = Doubted
  /\ "written silently" \in excuses'

\* The assistant has answered.
RowAnswered(c) ==
  /\ sessionRow' = [sessionRow EXCEPT ![c].said = FALSE]
  /\ UNCHANGED <<changes, events>>

\* What Change does.
LEMMA ChangeMoves ==
  ASSUME QueueTyped, NEW c \in Chats, NEW r \in Row, NEW type \in {"upserted", "removed"},
         Change(c, r, type), r.status # "absent", type = "removed" => r.status \in Finished
  PROVE  RowMoved(c) /\ sessionRow'[c].status = r.status
<1>1. sessionRow \in [Chats -> Row] /\ changes \in 0..MaxChanges /\ changes < MaxChanges
  BY DEF QueueTyped, RowsTyped, Change
<1>2. changes + 1 \in 0..MaxChanges
  BY <1>1, Bounded
<1>3. [r EXCEPT !.at = changes + 1] \in Row /\ [r EXCEPT !.at = changes + 1].status = r.status
      /\ [r EXCEPT !.at = changes + 1].at = changes + 1
  BY <1>2 DEF Row
<1>4. sessionRow'[c] = [r EXCEPT !.at = changes + 1]
  BY <1>1 DEF Change
<1> QED
  BY <1>1, <1>3, <1>4 DEF RowMoved, RowsMoved, EventSent, Change

\* It keeps rows rows.
LEMMA MovedRowsTyped ==
  ASSUME QueueTyped, NEW c \in Chats, RowMoved(c) \/ RowLost(c) \/ RowAnswered(c)
  PROVE  RowsTyped'
<1>0. sessionRow \in [Chats -> Row] /\ changes \in 0..MaxChanges /\ \A e \in events : EventTyped(e)
  BY DEF QueueTyped, RowsTyped
<1>1. sessionRow' \in [Chats -> Row] /\ changes' \in 0..MaxChanges
  <2>1. CASE RowsMoved(c)
    BY <1>0, <2>1, Bounded DEF RowsMoved
  <2>2. CASE RowAnswered(c)
    BY <1>0, <2>2 DEF RowAnswered, Row
  <2> QED
    BY <2>1, <2>2 DEF RowMoved, RowLost
<1>2. \A e \in events' : EventTyped(e)
  <2>1. CASE RowMoved(c)
    <3>1. PICK type \in {"upserted", "removed"} :
            EventSent(c, type) /\ (type = "removed" => sessionRow'[c].status \in Finished)
      BY <2>1 DEF RowMoved
    <3>2. EventTyped(Event(c, sessionRow'[c], type))
      BY <1>1, <3>1 DEF EventTyped, Event
    <3> QED
      BY <1>0, <3>1, <3>2 DEF EventSent
  <2> QED
    BY <1>0, <2>1 DEF RowLost, RowAnswered
<1> QED
  BY <1>1, <1>2 DEF RowsTyped

\* The changed rows are rows.
LEMMA AssignedRow ==
  ASSUME NEW r \in Row, NEW who \in {Me, Colleague, Nobody}
  PROVE  Assigned(r, who) \in Row /\ Assigned(r, who).status = "ACTIVE"
BY DEF Row, QueueStatuses, Operational, Assigned

\* A released conversation is open.
LEMMA ReleasedRow == ASSUME NEW r \in Row PROVE Released(r) \in Row /\ Released(r).status = "OPEN"
BY DEF Row, QueueStatuses, Operational, Released

\* One whose status is set has it.
LEMMA BecomeRow ==
  ASSUME NEW r \in Row, NEW status \in Operational \cup Finished
  PROVE  Become(r, status) \in Row /\ Become(r, status).status = status
BY DEF Row, QueueStatuses, Operational, Finished, Become

\* A conversation that starts is open; a message changes no status.
LEMMA WrittenRow ==
  ASSUME NEW r \in Row, NEW byCustomer \in BOOLEAN
  PROVE  /\ [r EXCEPT !.status = "OPEN"] \in Row /\ [r EXCEPT !.status = "OPEN"].status = "OPEN"
         /\ [r EXCEPT !.said = byCustomer] \in Row /\ [r EXCEPT !.said = byCustomer].status = r.status
BY DEF Row, QueueStatuses, Operational

\* What others do is a change of one row, or an answer of the assistant.
LEMMA OthersMove ==
  ASSUME QueueTyped, OthersChange
  PROVE  \E c \in Chats : RowMoved(c) \/ RowAnswered(c)
<1>0. PICK c \in Chats :
        ChatStarts(c) \/ MessageSaved(c) \/ ColleagueClaims(c) \/ ColleagueReleases(c) \/ AssistantAnswers(c)
  BY DEF OthersChange
<1>1. sessionRow[c] \in Row
  BY DEF QueueTyped, RowsTyped
<1> DEFINE r == sessionRow[c]
<1>2. CASE ChatStarts(c)
  <2>1. Change(c, [r EXCEPT !.status = "OPEN"], "upserted")
    BY <1>2 DEF ChatStarts
  <2> QED
    BY <1>1, <2>1, WrittenRow, ChangeMoves
<1>3. CASE MessageSaved(c)
  <2>1. PICK byCustomer \in BOOLEAN : Change(c, [r EXCEPT !.said = byCustomer], "upserted")
    BY <1>3 DEF MessageSaved
  <2>2. r.status # "absent"
    BY <1>3 DEF MessageSaved
  <2> QED
    BY <1>1, <2>1, <2>2, WrittenRow, ChangeMoves
<1>4. CASE ColleagueClaims(c)
  <2>1. Change(c, Assigned(r, Colleague), "upserted")
    BY <1>4 DEF ColleagueClaims
  <2> QED
    BY <1>1, <2>1, AssignedRow, ChangeMoves
<1>5. CASE ColleagueReleases(c)
  <2>1. Change(c, Released(r), "upserted")
    BY <1>5 DEF ColleagueReleases
  <2> QED
    BY <1>1, <2>1, ReleasedRow, ChangeMoves
<1>6. CASE AssistantAnswers(c)
  BY <1>6 DEF AssistantAnswers, RowAnswered
<1> QED
  BY <1>0, <1>2, <1>3, <1>4, <1>5, <1>6

\* What is written back is a change with its event, one without, or none.
LEMMA SaveMoves ==
  ASSUME QueueTyped, NEW u \in Unlocked, Save(u)
  PROVE  /\ \/ (\E c \in Chats : RowMoved(c)) /\ UNCHANGED <<readings, excuses>>
            \/ \E c \in Chats : RowLost(c)
            \/ UNCHANGED <<sessionRow, changes, events, readings, excuses>>
         /\ excuses \subseteq excuses' /\ excuses' \subseteq excuses \cup {"written silently"}
         /\ SavingTyped'
<1> DEFINE s == saving[u]
           now == [s.row EXCEPT !.at = changes + 1]
<1>1. /\ s.chat \in Chats /\ s.row \in Row /\ s.row.status # "absent"
      /\ s.type \in {"upserted", "removed", "silent"}
      /\ s.type = "removed" => s.row.status \in Finished
  BY DEF QueueTyped, SavingTyped, SaveForm, Save
<1>2. /\ sessionRow \in [Chats -> Row] /\ changes \in 0..MaxChanges /\ MaxChanges \in Nat
      /\ saving \in [Unlocked -> SaveForm]
  BY Bounded DEF QueueTyped, RowsTyped, SavingTyped
<1>3. \/ s.type # "silent" /\ Change(s.chat, s.row, s.type) /\ UNCHANGED <<readings, excuses>>
      \/ /\ changes < MaxChanges
         /\ changes' = changes + 1
         /\ sessionRow' = [sessionRow EXCEPT ![s.chat] = now]
         /\ readings' = Doubted
         /\ excuses' = excuses \cup {"written silently"}
         /\ UNCHANGED events
      \/ UNCHANGED <<sessionRow, changes, events, readings, excuses>>
  BY DEF Save
<1>4. SavingTyped'
  <2>1. saving' = [saving EXCEPT ![u] = NoSave]
    BY DEF Save
  <2>2. FirstRow \in Row
    BY <1>2 DEF FirstRow, Row, QueueStatuses
  <2>3. NoSave \in SaveForm
    BY <2>2 DEF NoSave, SaveForm
  <2>4. saving' \in [Unlocked -> SaveForm] /\ saving'[u] = NoSave
        /\ \A x \in Unlocked \ {u} : saving'[x] = saving[x]
    BY <1>2, <2>1, <2>3
  <2> QED
    BY <2>4 DEF QueueTyped, SavingTyped
<1> HIDE DEF s
<1>5. ASSUME s.type # "silent", Change(s.chat, s.row, s.type) PROVE RowMoved(s.chat)
  BY <1>1, <1>5, ChangeMoves
<1>6. ASSUME changes < MaxChanges, changes' = changes + 1, UNCHANGED events, readings' = Doubted,
             sessionRow' = [sessionRow EXCEPT ![s.chat] = now], excuses' = excuses \cup {"written silently"}
      PROVE  RowLost(s.chat)
  <2>1. changes + 1 \in 0..MaxChanges
    <3>1. changes \in 0..MaxChanges /\ MaxChanges \in Nat /\ changes < MaxChanges
      BY <1>2, <1>6
    <3> QED
      BY <3>1
  <2>2. now \in Row /\ now.status = s.row.status /\ now.at = changes + 1
    BY <1>1, <2>1 DEF Row
  <2>3. sessionRow'[s.chat] = now
    BY <1>1, <1>2, <1>6
  <2> QED
    BY <1>1, <1>6, <2>2, <2>3 DEF RowLost, RowsMoved
<1> QED
  BY <1>1, <1>3, <1>4, <1>5, <1>6

\* What has been read to be written is what it is to become.
LEMMA ReadToSaveTyped ==
  ASSUME QueueTyped, NEW u \in Unlocked, NEW c \in Chats, ReadToSave(u, c)
  PROVE  SavingTyped'
<1> DEFINE r == sessionRow[c]
<1>0. r \in Row /\ r.status # "absent"
  BY DEF QueueTyped, RowsTyped, ReadToSave
<1>1. PICK row, type : saving' = [saving EXCEPT ![u] = [chat |-> c, row |-> row, type |-> type]]
                       /\ \/ \E status \in Operational \cup Finished :
                               row = Become(r, status) /\ type = QueueEventTypeFor(status)
                          \/ row = r /\ type \in {"upserted", "silent"}
  BY DEF ReadToSave
<1>2. /\ row \in Row /\ row.status # "absent" /\ type \in {"upserted", "removed", "silent"}
      /\ type = "removed" => row.status \in Finished
  <2>1. ASSUME NEW status \in Operational \cup Finished,
               row = Become(r, status), type = QueueEventTypeFor(status)
        PROVE  /\ row \in Row /\ row.status # "absent" /\ type \in {"upserted", "removed", "silent"}
               /\ type = "removed" => row.status \in Finished
    BY <1>0, <2>1, BecomeRow DEF QueueEventTypeFor, Operational, Finished
  <2> QED
    BY <1>0, <1>1, <2>1
<1>3. [chat |-> c, row |-> row, type |-> type] \in SaveForm
  BY <1>2 DEF SaveForm
<1> QED
  BY <1>1, <1>2, <1>3 DEF QueueTyped, SavingTyped

\* An answer to a claim: the row is assigned, or nothing happens to it.
LEMMA ServeClaimMoves ==
  ASSUME QueueTyped, ServeClaim
  PROVE  /\ claim.chat \in Chats
         /\ claim'.chat = claim.chat
         /\ \/ /\ RowMoved(claim.chat)
               /\ claim'.answer = "ok" /\ claim'.row = sessionRow'[claim.chat]
            \/ UNCHANGED <<queueServer, events>> /\ claim'.answer = "refused"
         /\ ClaimTyped'
<1> DEFINE c == claim.chat
<1>0. claim \in ClaimForm /\ c \in Chats /\ sessionRow[c] \in Row
  BY DEF QueueTyped, RowsTyped, ClaimTyped, ClaimForm, ServeClaim
<1>1. CASE /\ Change(c, Assigned(sessionRow[c], Me), "upserted")
           /\ claim' = [claim EXCEPT !.answer = "ok", !.row = sessionRow'[c]]
  <2>1. RowMoved(c)
    BY <1>0, <1>1, AssignedRow, ChangeMoves
  <2>2. sessionRow'[c] \in Row
    BY <2>1 DEF RowMoved, RowsMoved
  <2>3. claim' \in ClaimForm /\ claim'.chat = c /\ claim'.answer = "ok" /\ claim'.row = sessionRow'[c]
    BY <1>0, <1>1, <2>2 DEF ClaimForm
  <2> QED
    BY <1>0, <2>1, <2>2, <2>3, ChatsAssumption DEF ClaimTyped
<1>2. CASE /\ claim' = [claim EXCEPT !.answer = "refused"]
           /\ UNCHANGED <<queueServer, events>>
  <2>1. claim' \in ClaimForm /\ claim'.chat = c /\ claim'.answer = "refused"
    BY <1>0, <1>2 DEF ClaimForm
  <2> QED
    BY <1>0, <1>2, <2>1, ChatsAssumption DEF ClaimTyped
<1> QED
  BY <1>1, <1>2 DEF ServeClaim

\* An answer to an end or a release, in the same way; an end is read before it is
\* written.
LEMMA CloseServedMoves ==
  ASSUME QueueTyped, CloseServed
  PROVE  /\ close.chat \in Chats /\ close.kind # "none"
         /\ close'.chat = close.chat /\ close'.kind = close.kind
         /\ \/ /\ RowMoved(close.chat)
               /\ close'.answer = "ok" /\ close'.row = sessionRow'[close.chat]
            \/ UNCHANGED <<queueServer, events>> /\ close'.answer \in {"refused", "saving"}
         /\ CloseTyped'
<1> DEFINE c == close.chat
           r == sessionRow[c]
<1>0. /\ close \in CloseForm /\ close.kind # "none" /\ c \in Chats /\ r \in Row
      /\ close.answer = "saving" => /\ close.row \in Row /\ close.kind = "end"
                                   /\ close.row.status \in Finished
  BY DEF QueueTyped, RowsTyped, CloseTyped, CloseForm, CloseServed
<1>1. CASE close.kind = "release" /\ Change(c, Released(r), "upserted")
           /\ close' = [close EXCEPT !.answer = "ok", !.row = sessionRow'[c]]
  <2>1. RowMoved(c)
    BY <1>0, <1>1, ReleasedRow, ChangeMoves
  <2>2. sessionRow'[c] \in Row
    BY <2>1 DEF RowMoved, RowsMoved
  <2>3. close' \in CloseForm /\ close'.chat = c /\ close'.kind = close.kind
        /\ close'.answer = "ok" /\ close'.row = sessionRow'[c]
    BY <1>0, <1>1, <2>2 DEF CloseForm
  <2> QED
    BY <1>0, <1>1, <2>1, <2>2, <2>3, ChatsAssumption DEF CloseTyped
<1>2. ASSUME NEW status \in Finished, close.kind = "end",
             close' = [close EXCEPT !.answer = "saving", !.row = Become(r, status)]
      PROVE  /\ close'.chat = c /\ close'.kind = close.kind /\ close'.answer = "saving"
             /\ CloseTyped'
  <2>1. Become(r, status) \in Row /\ Become(r, status).status = status
    BY <1>0, BecomeRow
  <2>2. close' \in CloseForm /\ close'.chat = c /\ close'.kind = close.kind
        /\ close'.answer = "saving" /\ close'.row = Become(r, status)
    BY <1>0, <1>2, <2>1 DEF CloseForm
  <2> QED
    BY <1>0, <1>2, <2>1, <2>2, ChatsAssumption DEF CloseTyped
<1>3. CASE close.answer = "saving" /\ Change(c, close.row, "removed")
           /\ close' = [close EXCEPT !.answer = "ok", !.row = sessionRow'[c]]
  <2>1. RowMoved(c) /\ sessionRow'[c].status = close.row.status
    BY <1>0, <1>3, ChangeMoves DEF Finished
  <2>2. sessionRow'[c] \in Row /\ sessionRow'[c].status \in Finished
    BY <1>0, <1>3, <2>1 DEF RowMoved, RowsMoved
  <2>3. close' \in CloseForm /\ close'.chat = c /\ close'.kind = close.kind
        /\ close'.answer = "ok" /\ close'.row = sessionRow'[c]
    BY <1>0, <1>3, <2>2 DEF CloseForm
  <2> QED
    BY <1>0, <1>3, <2>1, <2>2, <2>3, ChatsAssumption DEF CloseTyped
<1>4. CASE /\ close' = [close EXCEPT !.answer = "refused"]
           /\ UNCHANGED <<queueServer, events>>
  <2>1. close' \in CloseForm /\ close'.chat = c /\ close'.kind = close.kind /\ close'.answer = "refused"
    BY <1>0, <1>4 DEF CloseForm
  <2> QED
    BY <1>0, <1>4, <2>1, ChatsAssumption DEF CloseTyped
<1>5. \/ /\ close.kind = "release" /\ Change(c, Released(r), "upserted")
         /\ close' = [close EXCEPT !.answer = "ok", !.row = sessionRow'[c]]
      \/ \E status \in Finished :
           /\ close.kind = "end"
           /\ close' = [close EXCEPT !.answer = "saving", !.row = Become(r, status)]
           /\ UNCHANGED <<queueServer, events>>
      \/ /\ close.answer = "saving" /\ Change(c, close.row, "removed")
         /\ close' = [close EXCEPT !.answer = "ok", !.row = sessionRow'[c]]
      \/ close' = [close EXCEPT !.answer = "refused"] /\ UNCHANGED <<queueServer, events>>
  BY DEF CloseServed
<1> QED
  BY <1>0, <1>1, <1>2, <1>3, <1>4, <1>5

\* What the page is told of one row.
LEMMA ToldOfOne ==
  ASSUME HistoryTyped, NEW c \in Chats, NEW r \in Row, ToldOf(c, r)
  PROVE  /\ seen' \in [Chats -> 0..MaxChanges]
         /\ \A x \in Chats \ {c} : seen'[x] = seen[x]
         /\ seen'[c] >= seen[c] /\ seen'[c] >= r.at /\ seen'[c] \in {seen[c], r.at}
         /\ excuses \subseteq excuses' /\ excuses' \subseteq excuses \cup {"overtaken"}
         /\ "overtaken" \notin excuses' => seen'[c] = r.at
<1> DEFINE at == [seen EXCEPT ![c] = r.at]
<1>1. seen \in [Chats -> 0..MaxChanges] /\ r.at \in 0..MaxChanges
  BY DEF HistoryTyped, Row
<1>2. seen' = [x \in Chats |-> IF at[x] > seen[x] THEN at[x] ELSE seen[x]]
  BY DEF ToldOf, Told
<1>3. excuses' = excuses \cup (IF \E x \in Chats : at[x] < seen[x] THEN {"overtaken"} ELSE {})
  BY DEF ToldOf, Told
<1>4. at[c] = r.at /\ \A x \in Chats \ {c} : at[x] = seen[x]
  BY <1>1
<1>5. at \in [Chats -> 0..MaxChanges]
  BY <1>1
<1> HIDE DEF at
<1>6. seen' \in [Chats -> 0..MaxChanges]
  BY <1>1, <1>2, <1>5
<1>7. \A x \in Chats \ {c} : seen'[x] = seen[x]
  BY <1>2, <1>4
<1>8. seen'[c] = IF r.at > seen[c] THEN r.at ELSE seen[c]
  BY <1>2, <1>4
<1>9. seen'[c] >= seen[c] /\ seen'[c] >= r.at /\ seen'[c] \in {seen[c], r.at}
  BY <1>1, <1>8, Bounded
<1>10. excuses \subseteq excuses' /\ excuses' \subseteq excuses \cup {"overtaken"}
  BY <1>3
<1>11. ASSUME "overtaken" \notin excuses' PROVE seen'[c] = r.at
  <2>1. ~(r.at < seen[c])
    BY <1>3, <1>4, <1>11
  <2> QED
    BY <2>1, <1>1, <1>8, Bounded
<1> QED
  BY <1>6, <1>7, <1>9, <1>10, <1>11

\* What the page is told by a reading of the whole queue.
LEMMA ToldByReading ==
  ASSUME HistoryTyped, NEW r, r.rows \in [Chats -> Row], ToldOfAll(r)
  PROVE  /\ seen' \in [Chats -> 0..MaxChanges]
         /\ \A x \in Chats : seen'[x] >= seen[x] /\ seen'[x] >= r.rows[x].at /\ seen'[x] \in {seen[x], r.rows[x].at}
         /\ excuses' \subseteq excuses \cup {"overtaken"}
         /\ "overtaken" \notin excuses' =>
              /\ \A x \in Chats : seen'[x] = r.rows[x].at
              /\ r.sound \/ excuses' = excuses
<1> DEFINE at == [x \in Chats |-> r.rows[x].at]
           overtaken == \E x \in Chats : at[x] < seen[x]
<1>1. seen \in [Chats -> 0..MaxChanges] /\ at \in [Chats -> 0..MaxChanges]
      /\ \A x \in Chats : at[x] = r.rows[x].at
  BY DEF HistoryTyped, Row
<1>2. seen' = [x \in Chats |-> IF overtaken /\ at[x] < seen[x] THEN seen[x] ELSE at[x]]
  BY DEF ToldOfAll
<1>3. excuses' = IF overtaken THEN excuses \cup {"overtaken"} ELSE IF r.sound THEN {} ELSE excuses
  BY DEF ToldOfAll
<1> HIDE DEF at
<1>4. \A x \in Chats : /\ seen'[x] \in 0..MaxChanges
                       /\ seen'[x] >= seen[x] /\ seen'[x] >= r.rows[x].at
                       /\ seen'[x] \in {seen[x], r.rows[x].at}
  <2> SUFFICES ASSUME NEW x \in Chats
               PROVE  /\ seen'[x] \in 0..MaxChanges
                      /\ seen'[x] >= seen[x] /\ seen'[x] >= r.rows[x].at
                       /\ seen'[x] \in {seen[x], r.rows[x].at}
    OBVIOUS
  <2>1. seen[x] \in Nat /\ at[x] \in Nat /\ seen[x] \in 0..MaxChanges /\ at[x] \in 0..MaxChanges
    BY <1>1, Bounded
  <2>2. seen'[x] = IF overtaken /\ at[x] < seen[x] THEN seen[x] ELSE at[x]
    BY <1>2
  <2>3. ~(at[x] < seen[x]) => at[x] >= seen[x]
    BY <2>1
  <2>4. at[x] < seen[x] => overtaken
    OBVIOUS
  <2> QED
    BY <1>1, <2>1, <2>2, <2>3, <2>4
<1>5. seen' \in [Chats -> 0..MaxChanges]
  BY <1>2, <1>4
<1>6. ASSUME "overtaken" \notin excuses'
      PROVE  /\ \A x \in Chats : seen'[x] = r.rows[x].at
             /\ r.sound \/ excuses' = excuses
  <2>1. ~overtaken
    BY <1>3, <1>6
  <2> QED
    BY <2>1, <1>1, <1>2, <1>3
<1>7. excuses' \subseteq excuses \cup {"overtaken"}
  BY <1>3
<1> QED
  BY <1>4, <1>5, <1>6, <1>7

-----------------------------------------------------------------------------
(* What the steps of the page do to its desk *)

\* What is listed for a row is an entry of the queue.
LEMMA ListedIsTyped ==
  ASSUME NEW rows \in [Chats -> Row]
  PROVE  Listed(rows) \in [Chats -> Customer]
<1> SUFFICES ASSUME NEW c \in Chats PROVE Listed(rows)[c] \in Customer
  BY DEF Listed
<1>1. rows[c] \in Row
  OBVIOUS
<1> QED
  BY <1>1 DEF Listed, ToQueueCustomer, NotListed, Customer, Row, QueueStatuses

\* The queue a reading brings.
LEMMA ShownChanges ==
  ASSUME NEW d \in Desk, NEW rows \in [Chats -> Row]
  PROVE  LET e == Shown(d, rows)
         IN  /\ e \in Desk /\ e.route = d.route /\ e.active = d.active /\ e.modal = d.modal
             /\ e.loading = d.loading /\ e.claiming = d.claiming /\ e.queue = Listed(rows)
BY ListedIsTyped DEF Shown, Desk

\* A settled claim leaves the queue alone.
LEMMA SettledChanges ==
  ASSUME NEW d \in Desk
  PROVE  LET e == ClaimSettled(d)
         IN  /\ e \in Desk /\ e.route = d.route /\ e.active = d.active /\ e.modal = d.modal
             /\ e.loading = d.loading /\ e.claiming = NoChat /\ e.queue = d.queue
BY DEF ClaimSettled, Desk

\* The desk shows what a reading told of.
ShowsRows(d, rows) == \A c \in Chats : SameEntry(Listed(rows)[c], d.queue[c])

\* What a page-load's reading does.
LEMMA LoadArrivesMoves ==
  ASSUME QueueTyped, NEW r \in readings, LoadArrives(r)
  PROVE  /\ desk' \in Desk /\ Follows(desk') /\ ShowsRows(desk', r.rows)
         /\ ~desk'.loading /\ desk'.claiming = desk.claiming /\ desk'.modal \in {desk.modal, NoModal}
<1>1. desk \in Desk /\ r.rows \in [Chats -> Row]
  BY DEF QueueTyped, LoadArrives, ReadingsTyped, ReadingTyped
<1> DEFINE s == Shown(desk, r.rows)
           d == [s EXCEPT !.loading = FALSE]
<1>2. s \in Desk /\ s.claiming = desk.claiming /\ s.modal = desk.modal /\ s.queue = Listed(r.rows)
  BY <1>1, ShownChanges
<1> HIDE DEF s
<1>3. d \in Desk /\ d.claiming = desk.claiming /\ d.modal = desk.modal /\ d.queue = Listed(r.rows)
      /\ ~d.loading
  BY <1>2 DEF Desk
<1>4. desk' = RouteEffect(d)
  BY DEF LoadArrives, s
<1> HIDE DEF d
<1>5. /\ desk' \in Desk /\ desk'.modal \in {d.modal, NoModal}
      /\ SameQueue(d, desk') /\ SameLoading(d, desk') /\ Follows(desk')
  BY <1>3, <1>4, RouteEffectChanges
<1> QED
  BY <1>3, <1>5 DEF SameQueue, SameLoading, ShowsRows

\* What the reading after a failed claim does when it finds it granted.
LEMMA SynchronizedMoves ==
  ASSUME QueueTyped, NEW r \in readings, SynchronizedAfterClaim(r)
  PROVE  /\ desk' \in Desk /\ Follows(desk') /\ ShowsRows(desk', r.rows)
         /\ desk'.loading = desk.loading /\ desk'.claiming = NoChat
         /\ desk'.modal \in {desk.modal, NoModal}
<1>1. desk \in Desk /\ r.rows \in [Chats -> Row]
  BY DEF QueueTyped, SynchronizedAfterClaim, ReadingsTyped, ReadingTyped
<1> DEFINE s == Shown(desk, r.rows)
           d == ClaimSettled(s)
           gone == ClearActiveConversation(d)
           root == ToRoot(gone)
<1>2. s \in Desk /\ s.loading = desk.loading /\ s.modal = desk.modal /\ s.queue = Listed(r.rows)
  BY <1>1, ShownChanges
<1> HIDE DEF s
<1>3. d \in Desk /\ d.claiming = NoChat /\ d.loading = desk.loading /\ d.modal = desk.modal
      /\ d.queue = Listed(r.rows)
  BY <1>2, SettledChanges
<1>4. \E e \in {d, root} : desk' = RouteEffect(e)
  BY DEF SynchronizedAfterClaim, s
<1> HIDE DEF d
<1>5. gone \in Desk /\ gone.claiming = NoChat /\ gone.loading = desk.loading
      /\ gone.modal = NoModal /\ gone.queue = Listed(r.rows)
  BY <1>3, ClearChanges DEF SameLoading
<1> HIDE DEF gone
<1>6. root \in Desk /\ root.claiming = NoChat /\ root.loading = desk.loading
      /\ root.modal = NoModal /\ root.queue = Listed(r.rows)
  BY <1>5, RootChanges DEF SameLoading
<1> HIDE DEF root
<1>7. PICK e \in {d, root} : desk' = RouteEffect(e)
  BY <1>4
<1>8. e \in Desk /\ e.claiming = NoChat /\ e.loading = desk.loading
      /\ e.modal \in {desk.modal, NoModal} /\ e.queue = Listed(r.rows)
  BY <1>3, <1>6, <1>7
<1>9. /\ desk' \in Desk /\ desk'.modal \in {e.modal, NoModal}
      /\ SameQueue(e, desk') /\ SameLoading(e, desk') /\ Follows(desk')
  BY <1>7, <1>8, RouteEffectChanges
<1> QED
  BY <1>8, <1>9 DEF SameQueue, SameLoading, ShowsRows

\* The entry of one conversation is replaced.
LEMMA EntryChanges ==
  ASSUME NEW d \in Desk, NEW c \in Chats, NEW q \in Customer
  PROVE  LET e == [d EXCEPT !.queue[c] = q]
         IN  /\ e \in Desk /\ e.route = d.route /\ e.active = d.active /\ e.modal = d.modal
             /\ SameLoading(d, e) /\ e.queue[c] = q
             /\ \A x \in Chats \ {c} : e.queue[x] = d.queue[x]
BY DEF Desk, SameLoading

\* The queue keeps its form.
LEMMA EntryTyped ==
  ASSUME NEW r \in Row, NEW unread \in BOOLEAN
  PROVE  ToQueueCustomer(r, unread) \in Customer
BY DEF ToQueueCustomer, Row, Customer, QueueStatuses

\* An entry that is not listed is an entry.
LEMMA NotListedTyped == NotListed \in Customer /\ ~NotListed.listed
BY DEF NotListed, Customer, QueueStatuses

\* The desk lists a conversation as its row is.
ShowsRow(d, c, row) ==
  /\ d.queue[c].listed /\ d.queue[c].status = row.status
  /\ d.queue[c].counselor = row.counselor /\ d.queue[c].said = row.said

\* The other conversations are listed as before.
SameElsewhere(d, e, c) == \A x \in Chats \ {c} : SameEntry(d.queue[x], e.queue[x])

\* What an event of the queue does.
LEMMA EventMoves ==
  ASSUME QueueTyped, NEW e \in events, HandleQueueEvent(e)
  PROVE  /\ desk' \in Desk /\ Follows(desk') /\ SameElsewhere(desk, desk', e.chat)
         /\ IF e.type = "upserted" THEN ShowsRow(desk', e.chat, e.row)
                                   ELSE ~desk'.queue[e.chat].listed
         /\ desk'.loading = desk.loading /\ desk'.claiming = desk.claiming
         /\ desk'.modal \in {desk.modal, NoModal}
<1> DEFINE c == e.chat
           d == [desk EXCEPT !.error = FALSE]
           unread == desk.active # c /\ (e.row.said \/ desk.queue[c].unread)
           shown == [d EXCEPT !.queue[c] = ToQueueCustomer(e.row, unread)]
           gone == [d EXCEPT !.queue[c] = NotListed]
           clear == ClearActiveConversation(gone)
           root == ToRoot(clear)
<1>1. desk \in Desk /\ c \in Chats /\ e.row \in Row
  BY DEF QueueTyped, RowsTyped, EventTyped
<1>2. /\ d \in Desk /\ d.modal = desk.modal /\ d.queue = desk.queue
      /\ d.loading = desk.loading /\ d.claiming = desk.claiming
  BY <1>1 DEF Desk
<1>3. unread \in BOOLEAN
  BY <1>1 DEF Desk, Customer, Row
<1>4. \/ e.type = "upserted" /\ desk' = RouteEffect(shown)
      \/ e.type # "upserted" /\ \E f \in {gone, root} : desk' = RouteEffect(f)
  BY DEF HandleQueueEvent
<1> HIDE DEF d, unread
<1>5. ToQueueCustomer(e.row, unread) \in Customer
  BY <1>1, <1>3, EntryTyped
<1>6. CASE e.type = "upserted" /\ desk' = RouteEffect(shown)
  <2>1. /\ shown \in Desk /\ shown.modal = desk.modal /\ SameLoading(d, shown)
        /\ shown.queue[c] = ToQueueCustomer(e.row, unread)
        /\ \A x \in Chats \ {c} : shown.queue[x] = desk.queue[x]
    BY <1>1, <1>2, <1>5, EntryChanges
  <2> HIDE DEF shown
  <2>2. ShowsRow(shown, c, e.row)
    BY <2>1 DEF ShowsRow, ToQueueCustomer
  <2>3. /\ desk' \in Desk /\ desk'.modal \in {shown.modal, NoModal}
        /\ SameQueue(shown, desk') /\ SameLoading(shown, desk') /\ Follows(desk')
    BY <1>6, <2>1, RouteEffectChanges
  <2>4. ShowsRow(desk', c, e.row) /\ SameElsewhere(desk, desk', c)
    BY <1>1, <2>1, <2>2, <2>3 DEF SameQueue, SameEntry, ShowsRow, SameElsewhere
  <2> QED
    BY <1>2, <1>6, <2>1, <2>3, <2>4 DEF SameLoading
<1>7. CASE e.type # "upserted" /\ \E f \in {gone, root} : desk' = RouteEffect(f)
  <2>1. /\ gone \in Desk /\ gone.modal = desk.modal /\ SameLoading(d, gone)
        /\ ~gone.queue[c].listed
        /\ \A x \in Chats \ {c} : gone.queue[x] = desk.queue[x]
    BY <1>1, <1>2, NotListedTyped, EntryChanges
  <2> HIDE DEF gone
  <2>2. clear \in Desk /\ clear.modal = NoModal /\ SameLoading(gone, clear) /\ clear.queue = gone.queue
    BY <2>1, ClearChanges
  <2> HIDE DEF clear
  <2>3. root \in Desk /\ root.modal = NoModal /\ SameLoading(clear, root) /\ root.queue = clear.queue
    BY <2>2, RootChanges
  <2> HIDE DEF root
  <2>4. PICK f \in {gone, root} : desk' = RouteEffect(f)
    BY <1>7
  <2>5. /\ f \in Desk /\ f.modal \in {desk.modal, NoModal} /\ SameLoading(d, f)
        /\ f.queue = gone.queue
    BY <2>1, <2>2, <2>3, <2>4 DEF SameLoading
  <2>6. /\ desk' \in Desk /\ desk'.modal \in {f.modal, NoModal}
        /\ SameQueue(f, desk') /\ SameLoading(f, desk') /\ Follows(desk')
    BY <2>4, <2>5, RouteEffectChanges
  <2>7. ~desk'.queue[c].listed /\ SameElsewhere(desk, desk', c)
    BY <1>1, <2>1, <2>5, <2>6 DEF SameQueue, SameEntry, SameElsewhere
  <2> QED
    BY <1>2, <1>7, <2>5, <2>6, <2>7 DEF SameLoading
<1> QED
  BY <1>4, <1>6, <1>7

\* What a granted claim does.
LEMMA ClaimSucceedsMoves ==
  ASSUME QueueTyped, ClaimSucceeds
  PROVE  /\ claim.chat \in Chats /\ claim.row \in Row
         /\ desk' \in Desk /\ Follows(desk') /\ SameElsewhere(desk, desk', claim.chat)
         /\ IF desk.queue[claim.chat].listed THEN ShowsRow(desk', claim.chat, claim.row)
                                             ELSE ~desk'.queue[claim.chat].listed
         /\ desk'.loading = desk.loading /\ desk'.claiming = NoChat
         /\ desk'.modal \in {desk.modal, NoModal}
<1> DEFINE c == claim.chat
           q == IF desk.queue[c].listed THEN ToQueueCustomer(claim.row, desk.queue[c].unread)
                ELSE desk.queue[c]
           b == [desk EXCEPT !.claiming = NoChat]
           d == [b EXCEPT !.queue[c] = q]
<1>1. desk \in Desk /\ c \in Chats /\ claim.row \in Row
  BY DEF QueueTyped, ClaimTyped, ClaimForm, ClaimSucceeds, NoClaim
<1>2. desk.queue[c] \in Customer /\ desk.queue[c].unread \in BOOLEAN
  BY <1>1 DEF Desk, Customer
<1>3. q \in Customer
  BY <1>1, <1>2, EntryTyped
<1>4. /\ b \in Desk /\ b.modal = desk.modal /\ b.queue = desk.queue
      /\ b.loading = desk.loading /\ b.claiming = NoChat
  BY <1>1 DEF Desk
<1>5. desk' = RouteEffect([desk EXCEPT !.claiming = NoChat,
                                       !.queue[c] = IF @.listed THEN ToQueueCustomer(claim.row, desk.queue[c].unread) ELSE @])
  BY DEF ClaimSucceeds
<1>6. desk' = RouteEffect(d)
  BY <1>1, <1>5 DEF Desk
<1>7. /\ q.listed = desk.queue[c].listed
      /\ q.listed => /\ q.status = claim.row.status /\ q.counselor = claim.row.counselor
                     /\ q.said = claim.row.said
  BY <1>2 DEF ToQueueCustomer, Customer
<1> HIDE DEF b, q
<1>8. /\ d \in Desk /\ d.modal = desk.modal /\ SameLoading(b, d) /\ d.queue[c] = q
      /\ \A x \in Chats \ {c} : d.queue[x] = desk.queue[x]
  BY <1>1, <1>3, <1>4, EntryChanges
<1> HIDE DEF d
<1>9. /\ desk' \in Desk /\ desk'.modal \in {d.modal, NoModal}
      /\ SameQueue(d, desk') /\ SameLoading(d, desk') /\ Follows(desk')
  BY <1>6, <1>8, RouteEffectChanges
<1>10. /\ IF desk.queue[c].listed THEN ShowsRow(desk', c, claim.row) ELSE ~desk'.queue[c].listed
       /\ SameElsewhere(desk, desk', c)
  BY <1>1, <1>2, <1>7, <1>8, <1>9 DEF SameQueue, SameEntry, ShowsRow, SameElsewhere, Customer
<1> QED
  BY <1>1, <1>4, <1>8, <1>9, <1>10 DEF SameLoading

\* What an end or a release that was granted does.
LEMMA CloseSucceedsMoves ==
  ASSUME QueueTyped, CloseSucceeds
  PROVE  /\ close.chat \in Chats /\ close.row \in Row /\ close.kind # "none"
         /\ desk' \in Desk /\ Follows(desk') /\ SameElsewhere(desk, desk', close.chat)
         /\ IF close.kind = "end" \/ ~desk.queue[close.chat].listed
            THEN ~desk'.queue[close.chat].listed
            ELSE ShowsRow(desk', close.chat, close.row)
         /\ desk'.loading = desk.loading /\ desk'.claiming = desk.claiming
         /\ desk'.modal = NoModal
<1> DEFINE c == close.chat
           q == IF close.kind = "end" \/ ~desk.queue[c].listed THEN NotListed
                ELSE ToQueueCustomer(close.row, desk.queue[c].unread)
           d == [desk EXCEPT !.queue[c] = q]
           clear == ClearActiveConversation(d)
           root == ToRoot(clear)
<1>1. desk \in Desk /\ c \in Chats /\ close.row \in Row /\ close.kind # "none"
  BY DEF QueueTyped, CloseTyped, CloseForm, CloseSucceeds, NoClose
<1>2. desk.queue[c] \in Customer /\ desk.queue[c].unread \in BOOLEAN
  BY <1>1 DEF Desk, Customer
<1>3. q \in Customer
  BY <1>1, <1>2, EntryTyped, NotListedTyped
<1>4. desk' = RouteEffect(root)
  BY DEF CloseSucceeds
<1>5. IF close.kind = "end" \/ ~desk.queue[c].listed THEN ~q.listed
      ELSE /\ q.listed /\ q.status = close.row.status /\ q.counselor = close.row.counselor
           /\ q.said = close.row.said
  BY NotListedTyped DEF ToQueueCustomer
<1> HIDE DEF q
<1>6. /\ d \in Desk /\ d.modal = desk.modal /\ SameLoading(desk, d) /\ d.queue[c] = q
      /\ \A x \in Chats \ {c} : d.queue[x] = desk.queue[x]
  BY <1>1, <1>3, EntryChanges
<1> HIDE DEF d
<1>7. clear \in Desk /\ clear.modal = NoModal /\ SameLoading(d, clear) /\ clear.queue = d.queue
  BY <1>6, ClearChanges
<1> HIDE DEF clear
<1>8. root \in Desk /\ root.modal = NoModal /\ SameLoading(clear, root) /\ root.queue = clear.queue
  BY <1>7, RootChanges
<1> HIDE DEF root
<1>9. /\ desk' \in Desk /\ desk'.modal \in {root.modal, NoModal}
      /\ SameQueue(root, desk') /\ SameLoading(root, desk') /\ Follows(desk')
  BY <1>4, <1>8, RouteEffectChanges
<1>10. /\ IF close.kind = "end" \/ ~desk.queue[c].listed
          THEN ~desk'.queue[c].listed ELSE ShowsRow(desk', c, close.row)
       /\ SameElsewhere(desk, desk', c)
  BY <1>1, <1>2, <1>5, <1>6, <1>7, <1>8, <1>9 DEF SameQueue, SameEntry, ShowsRow, SameElsewhere
<1> QED
  BY <1>1, <1>6, <1>7, <1>8, <1>9, <1>10 DEF SameLoading

\* The effect after a change that lists no conversation in another way.
LEMMA QuietEffect ==
  ASSUME NEW d \in Desk, SameQueue(desk, d), desk' = RouteEffect(d)
  PROVE  /\ desk' \in Desk /\ Follows(desk') /\ SameQueue(desk, desk')
         /\ desk'.modal \in {d.modal, NoModal}
         /\ desk'.loading = d.loading /\ desk'.claiming = d.claiming
BY RouteEffectChanges DEF SameQueue, SameEntry, SameLoading

\* A failed load only tells that it failed.
LEMMA LoadFailsMoves ==
  ASSUME QueueTyped, NEW r \in readings, LoadFails(r)
  PROVE  /\ desk' \in Desk /\ Follows(desk') /\ SameQueue(desk, desk')
         /\ desk'.modal \in {desk.modal, NoModal}
         /\ ~desk'.loading /\ desk'.claiming = desk.claiming
<1> DEFINE d == [desk EXCEPT !.error = TRUE, !.loaded = TRUE, !.loading = FALSE]
<1>1. /\ d \in Desk /\ d.queue = desk.queue /\ d.modal = desk.modal
      /\ ~d.loading /\ d.claiming = desk.claiming
  BY DEF QueueTyped, Desk
<1>2. desk' = RouteEffect(d)
  BY DEF LoadFails
<1> HIDE DEF d
<1>3. SameQueue(desk, d)
  BY <1>1 DEF SameQueue, SameEntry
<1> QED
  BY <1>1, <1>2, <1>3, QuietEffect

\* What the reading after a failed claim does when it finds it refused.
LEMMA NotSynchronizedMoves ==
  ASSUME QueueTyped, NEW r \in readings, NotSynchronizedAfterClaim(r)
  PROVE  /\ desk' \in Desk /\ Follows(desk') /\ SameQueue(desk, desk')
         /\ desk'.modal \in {desk.modal, NoModal}
         /\ desk'.loading = desk.loading /\ desk'.claiming = NoChat
<1> DEFINE b == [desk EXCEPT !.error = TRUE]
           d == ClaimSettled(b)
<1>1. b \in Desk /\ b.queue = desk.queue /\ b.modal = desk.modal /\ b.loading = desk.loading
  BY DEF QueueTyped, Desk
<1>2. desk' = RouteEffect(d)
  BY DEF NotSynchronizedAfterClaim
<1> HIDE DEF b
<1>3. /\ d \in Desk /\ d.queue = desk.queue /\ d.modal = desk.modal
      /\ d.loading = desk.loading /\ d.claiming = NoChat
  BY <1>1, SettledChanges
<1> HIDE DEF d
<1>4. SameQueue(desk, d)
  BY <1>3 DEF SameQueue, SameEntry
<1> QED
  BY <1>2, <1>3, <1>4, QuietEffect

\* Selecting a conversation opens it.
LEMMA SelectMoves ==
  ASSUME QueueTyped, NEW c \in Chats, HandleSelectCustomer(c)
  PROVE  /\ desk' \in Desk /\ Follows(desk') /\ SameQueue(desk, desk')
         /\ desk'.modal \in {desk.modal, NoModal}
         /\ desk'.loading = desk.loading /\ desk'.claiming = desk.claiming
<1> DEFINE b == [desk EXCEPT !.route = c]
           d == ActivateCustomer(b, c)
<1>1. /\ b \in Desk /\ b.queue = desk.queue /\ b.modal = desk.modal
      /\ b.loading = desk.loading /\ b.claiming = desk.claiming
  BY DEF QueueTyped, Desk
<1>2. desk' = RouteEffect(d)
  BY DEF HandleSelectCustomer
<1> HIDE DEF b
<1>3. d \in Desk /\ d.modal = b.modal /\ SameQueue(b, d) /\ SameLoading(b, d)
  BY <1>1, ActivateChanges
<1> HIDE DEF d
<1>4. SameQueue(desk, d)
  BY <1>1, <1>3 DEF SameQueue, SameEntry
<1> QED
  BY <1>1, <1>2, <1>3, <1>4, QuietEffect DEF SameLoading

\* A new address opens what it names.
LEMMA RouteMoves ==
  ASSUME QueueTyped, RouteChanges
  PROVE  /\ desk' \in Desk /\ Follows(desk') /\ SameQueue(desk, desk')
         /\ desk'.modal \in {desk.modal, NoModal}
         /\ desk'.loading = desk.loading /\ desk'.claiming = desk.claiming
<1>1. PICK c \in Chats \cup {NoChat} : desk' = RouteEffect([desk EXCEPT !.route = c])
  BY DEF RouteChanges
<1> DEFINE d == [desk EXCEPT !.route = c]
<1>2. /\ d \in Desk /\ d.queue = desk.queue /\ d.modal = desk.modal
      /\ d.loading = desk.loading /\ d.claiming = desk.claiming
  BY DEF QueueTyped, Desk
<1> HIDE DEF d
<1>3. SameQueue(desk, d) /\ desk' = RouteEffect(d)
  BY <1>1, <1>2 DEF SameQueue, SameEntry, d
<1> QED
  BY <1>2, <1>3, QuietEffect

\* What the address, the queue and the open conversation are.
Standing(d) == <<d.queue, d.active, d.route, d.loading, d.loaded, d.error>>

\* The steps of the dialogs and the buttons.
LEMMA ClaimBegins ==
  ASSUME QueueTyped, HandleClaimSession
  PROVE  /\ desk' \in Desk /\ Standing(desk') = Standing(desk) /\ desk'.modal = desk.modal
         /\ desk'.claiming = desk.active /\ desk.active \in Chats
         /\ claim'.chat = desk.active /\ claim'.answer = "none" /\ ClaimTyped'
<1>1. desk \in Desk /\ desk.active \in Chats /\ desk' = [desk EXCEPT !.claiming = desk.active]
      /\ claim' = [NoClaim EXCEPT !.chat = desk.active]
  BY DEF QueueTyped, Desk, HandleClaimSession
<1>2. /\ desk' \in Desk /\ Standing(desk') = Standing(desk) /\ desk'.modal = desk.modal
      /\ desk'.claiming = desk.active
  BY <1>1 DEF Desk, Standing
<1>3. claim' \in ClaimForm /\ claim'.chat = desk.active /\ claim'.answer = "none"
  BY <1>1 DEF NoClaim, ClaimForm
<1> QED
  BY <1>1, <1>2, <1>3, ChatsAssumption DEF ClaimTyped

\* A dialog is opened.
LEMMA ModalOpens ==
  ASSUME QueueTyped, NEW kind \in {"end", "release"}, HandleOpenModal(kind)
  PROVE  /\ desk' \in Desk /\ Standing(desk') = Standing(desk) /\ desk'.claiming = desk.claiming
         /\ desk.active \in Chats /\ desk'.modal.kind = kind /\ desk'.modal.chat = desk.active
         /\ ~desk'.modal.submitting /\ DialogTyped(desk'.modal)
<1> DEFINE m == [kind |-> kind, chat |-> desk.active, submitting |-> FALSE]
<1>1. desk \in Desk /\ desk.active \in Chats /\ desk' = [desk EXCEPT !.modal = m]
  BY DEF QueueTyped, Desk, HandleOpenModal
<1>2. m \in Modal
  BY <1>1 DEF Modal
<1>3. /\ desk' \in Desk /\ Standing(desk') = Standing(desk) /\ desk'.claiming = desk.claiming
      /\ desk'.modal = m
  BY <1>1, <1>2 DEF Desk, Standing
<1> QED
  BY <1>1, <1>3, ChatsAssumption DEF DialogTyped

\* A dialog is cancelled.
LEMMA ModalCancels ==
  ASSUME QueueTyped, HandleCancelModal
  PROVE  /\ desk' \in Desk /\ Standing(desk') = Standing(desk) /\ desk'.claiming = desk.claiming
         /\ desk'.modal = NoModal
BY NoModalForm DEF QueueTyped, Desk, HandleCancelModal, Standing

\* A dialog is confirmed.
LEMMA CloseBegins ==
  ASSUME QueueTyped, HandleConfirm
  PROVE  /\ desk' \in Desk /\ Standing(desk') = Standing(desk) /\ desk'.claiming = desk.claiming
         /\ desk'.modal.kind = desk.modal.kind /\ desk'.modal.chat = desk.modal.chat
         /\ desk.modal.kind # "none" /\ DialogTyped(desk'.modal)
         /\ close'.kind = desk.modal.kind /\ close'.chat = desk.modal.chat
         /\ close'.answer = "none" /\ CloseTyped'
<1> DEFINE m == [desk.modal EXCEPT !.submitting = TRUE]
<1>1. /\ desk \in Desk /\ desk.modal \in Modal /\ desk.modal.kind # "none" /\ desk.modal.chat # NoChat
      /\ desk' = [desk EXCEPT !.modal.submitting = TRUE]
      /\ close' = [NoClose EXCEPT !.kind = desk.modal.kind, !.chat = desk.modal.chat]
  BY DEF QueueTyped, DialogTyped, Desk, HandleConfirm
<1>2. m \in Modal /\ m.kind = desk.modal.kind /\ m.chat = desk.modal.chat
  BY <1>1 DEF Modal
<1>3. desk' = [desk EXCEPT !.modal = m]
  BY <1>1 DEF Desk
<1> HIDE DEF m
<1>4. /\ desk' \in Desk /\ Standing(desk') = Standing(desk) /\ desk'.claiming = desk.claiming
      /\ desk'.modal = m
  BY <1>1, <1>2, <1>3 DEF Desk, Standing
<1>5. close' \in CloseForm /\ close'.kind = desk.modal.kind /\ close'.chat = desk.modal.chat
      /\ close'.answer = "none"
  BY <1>1 DEF NoClose, CloseForm, Modal
<1> QED
  BY <1>1, <1>2, <1>4, <1>5 DEF DialogTyped, CloseTyped

\* An end or a release fails.
LEMMA CloseFailsMoves ==
  ASSUME QueueTyped, CloseFails
  PROVE  /\ desk' \in Desk /\ Standing(desk') = Standing(desk) /\ desk'.claiming = desk.claiming
         /\ desk'.modal.kind = desk.modal.kind /\ desk'.modal.chat = desk.modal.chat
         /\ desk'.modal.submitting => desk.modal.submitting /\ desk.modal.kind # close.kind
         /\ DialogTyped(desk'.modal)
<1> DEFINE m == IF desk.modal.kind = close.kind THEN NotSubmitting(desk.modal) ELSE desk.modal
<1>1. /\ desk \in Desk /\ desk.modal \in Modal /\ DialogTyped(desk.modal)
      /\ close.kind # "none"
  BY DEF QueueTyped, CloseTyped, Desk, CloseFails
<1>2. m \in Modal /\ m.kind = desk.modal.kind /\ m.chat = desk.modal.chat
      /\ (m.submitting => desk.modal.submitting /\ desk.modal.kind # close.kind)
  BY <1>1 DEF Modal, NotSubmitting
<1>3. desk' = [desk EXCEPT !.modal = m]
  BY <1>1 DEF Desk, CloseFails
<1>4. desk.modal.kind = "none" => m = NoModal
  BY <1>1 DEF DialogTyped
<1>5. desk.modal.kind # "none" => desk.modal.chat # NoChat
  BY <1>1 DEF DialogTyped
<1> HIDE DEF m
<1>6. /\ desk' \in Desk /\ Standing(desk') = Standing(desk) /\ desk'.claiming = desk.claiming
      /\ desk'.modal = m
  BY <1>1, <1>2, <1>3 DEF Desk, Standing
<1> QED
  BY <1>2, <1>4, <1>5, <1>6 DEF DialogTyped

-----------------------------------------------------------------------------
(* Readings *)

\* A reading begun has its form.
LEMMA NewReading ==
  ASSUME NEW kind \in {"load", "claim"}, NEW target \in Chats \cup {NoChat},
         kind = "claim" => target # NoChat
  PROVE  LET r == Reading(kind, target)
         IN  ReadingTyped(r) /\ r.kind = kind /\ r.target = target /\ ~r.read /\ r.sound
BY DEF Reading, ReadingTyped, ReadingForm

\* A load is begun.
LEMMA LoadBegins ==
  ASSUME QueueTyped, NEW older, LoadQueue(older), IsFiniteSet(older),
         \A r \in older : ReadingTyped(r)
  PROVE  /\ desk' \in Desk /\ desk'.queue = desk.queue /\ desk'.active = desk.active
         /\ desk'.route = desk.route /\ desk'.modal = desk.modal
         /\ desk'.loading /\ desk'.claiming = desk.claiming
         /\ ReadingsTyped' /\ older \subseteq readings'
         /\ \E r \in readings' : /\ readings' = older \cup {r} /\ r = Reading("load", NoChat)
                                 /\ r.kind = "load" /\ ~r.read
<1> DEFINE new == Reading("load", NoChat)
<1>1. desk' = [desk EXCEPT !.loading = TRUE, !.error = FALSE, !.loaded = FALSE]
      /\ readings' = older \cup {new} /\ Cardinality(older) < MaxReadings
  BY DEF LoadQueue
<1>2. /\ desk' \in Desk /\ desk'.queue = desk.queue /\ desk'.active = desk.active
      /\ desk'.route = desk.route /\ desk'.modal = desk.modal
      /\ desk'.loading /\ desk'.claiming = desk.claiming
  BY <1>1 DEF QueueTyped, Desk
<1>3. ReadingTyped(new) /\ new.kind = "load" /\ ~new.read
  BY NewReading
<1>4. IsFiniteSet(readings') /\ Cardinality(readings') <= MaxReadings
  <2>1. Cardinality(older) \in Nat
    BY FS_CardinalityType
  <2> QED
    BY <1>1, <2>1, FS_AddElement, Bounded
<1> QED
  BY <1>1, <1>2, <1>3, <1>4 DEF ReadingsTyped

\* A reading ends.
LEMMA ReadingEnds ==
  ASSUME QueueTyped, NEW r \in readings, readings' = readings \ {r}
  PROVE  ReadingsTyped'
<1>1. IsFiniteSet(readings) /\ Cardinality(readings) <= MaxReadings /\ Cardinality(readings) \in Nat
  BY FS_CardinalityType DEF QueueTyped, ReadingsTyped
<1>2. IsFiniteSet(readings') /\ Cardinality(readings') = Cardinality(readings) - 1
  BY <1>1, FS_RemoveElement
<1>3. Cardinality(readings') <= MaxReadings
  BY <1>1, <1>2, Bounded
<1> QED
  BY <1>2, <1>3 DEF QueueTyped, ReadingsTyped

\* A reading is served.
LEMMA ReadingServed ==
  ASSUME QueueTyped, NEW r \in readings, GetActiveQueue(r)
  PROVE  /\ ReadingsTyped'
         /\ \E s \in readings' : /\ readings' = (readings \ {r}) \cup {s}
                                 /\ s.kind = r.kind /\ s.target = r.target /\ s.sound = r.sound
                                 /\ s.read /\ s.rows = sessionRow
<1> DEFINE s == [r EXCEPT !.read = TRUE, !.rows = sessionRow]
<1>1. /\ r \in ReadingForm /\ ReadingTyped(r) /\ sessionRow \in [Chats -> Row]
      /\ IsFiniteSet(readings) /\ Cardinality(readings) <= MaxReadings
      /\ Cardinality(readings) \in Nat
  BY FS_CardinalityType DEF QueueTyped, ReadingsTyped, ReadingTyped, RowsTyped
<1>2. /\ s \in ReadingForm /\ s.kind = r.kind /\ s.target = r.target /\ s.sound = r.sound
      /\ s.read /\ s.rows = sessionRow
  BY <1>1 DEF ReadingForm
<1>3. readings' = (readings \ {r}) \cup {s}
  BY DEF GetActiveQueue
<1> HIDE DEF s
<1>4. ReadingTyped(s)
  BY <1>1, <1>2 DEF ReadingTyped
<1>5. IsFiniteSet(readings \ {r}) /\ Cardinality(readings \ {r}) = Cardinality(readings) - 1
  BY <1>1, FS_RemoveElement
<1>6. IsFiniteSet(readings') /\ Cardinality(readings') <= Cardinality(readings)
  <2> DEFINE rest == readings \ {r}
  <2>0. Cardinality(rest) \in Nat
    BY <1>5, FS_CardinalityType
  <2>1. IsFiniteSet(readings') /\ Cardinality(readings') <= Cardinality(rest) + 1
    <3>1. IsFiniteSet(rest) /\ readings' = rest \cup {s}
      BY <1>3, <1>5
    <3> HIDE DEF rest
    <3>2. /\ IsFiniteSet(rest \cup {s})
          /\ Cardinality(rest \cup {s}) = IF s \in rest THEN Cardinality(rest) ELSE Cardinality(rest) + 1
      BY <3>1, FS_AddElement
    <3> QED
      BY <3>1, <3>2, <2>0
  <2> QED
    BY <2>0, <2>1, <1>1, <1>5
<1>7. Cardinality(readings') \in Nat
  BY <1>6, FS_CardinalityType
<1> QED
  BY <1>1, <1>2, <1>3, <1>4, <1>6, <1>7, Bounded DEF ReadingsTyped, QueueTyped

\* A failed claim has the queue read again.
LEMMA ClaimFailsReads ==
  ASSUME QueueTyped, ClaimFails
  PROVE  /\ ReadingsTyped'
         /\ \E s \in readings' : /\ readings' = readings \cup {s}
                                 /\ s.kind = "claim" /\ s.target = claim.chat /\ ~s.read
<1> DEFINE s == Reading("claim", claim.chat)
<1>1. /\ IsFiniteSet(readings) /\ Cardinality(readings) < MaxReadings
      /\ Cardinality(readings) \in Nat /\ readings' = readings \cup {s}
  BY FS_CardinalityType DEF QueueTyped, ReadingsTyped, ClaimFails
<1>2. ReadingTyped(s) /\ s.kind = "claim" /\ s.target = claim.chat /\ ~s.read
  BY NewReading DEF QueueTyped, ClaimTyped, ClaimForm, ClaimFails
<1>3. IsFiniteSet(readings') /\ Cardinality(readings') <= MaxReadings
  BY <1>1, FS_AddElement, Bounded
<1> QED
  BY <1>1, <1>2, <1>3 DEF ReadingsTyped, QueueTyped

\* The readings under way when something was lost.
Sounded(r) == [r EXCEPT !.sound = ~r.read]

\* They keep their form.
LEMMA SoundedReading ==
  ASSUME NEW r, ReadingTyped(r)
  PROVE  /\ ReadingTyped(Sounded(r)) /\ Sounded(r).sound = ~r.read
         /\ Sounded(r).kind = r.kind /\ Sounded(r).target = r.target
         /\ Sounded(r).read = r.read /\ Sounded(r).rows = r.rows
<1>1. r \in ReadingForm
  BY DEF ReadingTyped
<1>2. /\ Sounded(r) \in ReadingForm /\ Sounded(r).sound = ~r.read
      /\ Sounded(r).kind = r.kind /\ Sounded(r).target = r.target
      /\ Sounded(r).read = r.read /\ Sounded(r).rows = r.rows
  BY <1>1 DEF ReadingForm, Sounded
<1> QED
  BY <1>2 DEF ReadingTyped

\* This is what the model says of them.
LEMMA DoubtedSounded == Doubted = {Sounded(r) : r \in readings}
BY DEF Doubted, Sounded

\* They stay finitely many.
LEMMA DoubtedReadings ==
  ASSUME QueueTyped
  PROVE  /\ IsFiniteSet(Doubted) /\ Cardinality(Doubted) <= Cardinality(readings)
         /\ \A s \in Doubted : ReadingTyped(s)
         /\ readings' = Doubted => ReadingsTyped'
<1>1. IsFiniteSet(readings) /\ \A r \in readings : ReadingTyped(r)
  BY DEF QueueTyped, ReadingsTyped
<1> DEFINE f == [r \in readings |-> Sounded(r)]
<1>2. f \in Surjection(readings, Doubted)
  BY DoubtedSounded DEF Surjection
<1>3. IsFiniteSet(Doubted) /\ Cardinality(Doubted) <= Cardinality(readings)
  BY <1>1, <1>2, FS_Surjection
<1>4. \A s \in Doubted : ReadingTyped(s)
  BY <1>1, SoundedReading, DoubtedSounded
<1>5. Cardinality(Doubted) \in Nat /\ Cardinality(readings) \in Nat
  BY <1>1, <1>3, FS_CardinalityType
<1>6. Cardinality(Doubted) <= MaxReadings
  BY <1>3, <1>5, Bounded DEF QueueTyped, ReadingsTyped
<1> QED
  BY <1>3, <1>4, <1>6 DEF ReadingsTyped

\* The connection comes back with another load.
LEMMA ConnectMoves ==
  ASSUME QueueTyped, Connect
  PROVE  /\ online' /\ Doubted \subseteq readings' /\ ReadingsTyped'
         /\ \A s \in readings' : s \in Doubted \/ s = Reading("load", NoChat)
         /\ desk' \in Desk /\ desk'.queue = desk.queue /\ desk'.modal = desk.modal
         /\ desk'.claiming = desk.claiming
         /\ \/ /\ desk'.loading /\ UNCHANGED excuses
               /\ \E r \in readings' : r.kind = "load" /\ ~r.read
            \/ UNCHANGED desk /\ excuses' # {} /\ readings' = Doubted
         /\ excuses \subseteq excuses' /\ excuses' \subseteq excuses \cup {"not read again"}
<1>0. /\ IsFiniteSet(Doubted) /\ \A s \in Doubted : ReadingTyped(s)
      /\ readings' = Doubted => ReadingsTyped'
  BY DoubtedReadings
<1>2. CASE LoadQueue(Doubted) /\ UNCHANGED excuses
  <2>1. /\ desk' \in Desk /\ desk'.queue = desk.queue /\ desk'.modal = desk.modal
        /\ desk'.claiming = desk.claiming /\ desk'.loading
        /\ ReadingsTyped' /\ Doubted \subseteq readings'
        /\ \E r \in readings' : /\ readings' = Doubted \cup {r} /\ r = Reading("load", NoChat)
                                /\ r.kind = "load" /\ ~r.read
    BY <1>0, <1>2, LoadBegins
  <2> QED
    BY <1>2, <2>1 DEF Connect
<1>3. CASE /\ readings' = Doubted
           /\ excuses' = IF desk.loaded \/ "first connection" \in excuses THEN excuses
                         ELSE excuses \cup {"not read again"}
           /\ ~desk.loaded
           /\ UNCHANGED desk
  BY <1>0, <1>3 DEF Connect, QueueTyped
<1> QED
  BY <1>2, <1>3 DEF Connect, ReconnectReloads

-----------------------------------------------------------------------------
(* Every variable keeps its form *)

\* The page starts with one load.
LEMMA QueueInitType == QueueInit => QueueTyped
<1> SUFFICES ASSUME QueueInit PROVE QueueTyped
  OBVIOUS
<1>0. 0 \in 0..MaxChanges /\ 0 \in 0..MaxTroubles
  BY Bounded
<1>1. RowsTyped
  <2>1. FirstRow \in Row
    BY <1>0 DEF FirstRow, Row, QueueStatuses
  <2>2. sessionRow \in [Chats -> Row] /\ changes = 0 /\ events = {}
    BY <2>1 DEF QueueInit
  <2> QED
    BY <1>0, <2>2 DEF RowsTyped
<1>2. desk \in Desk /\ desk.modal = NoModal
  BY NotListedTyped, NoModalForm DEF QueueInit, Desk
<1>3. DialogTyped(desk.modal)
  BY <1>2, NoModalForm DEF DialogTyped
<1>4. ReadingsTyped
  <2>1. readings = {Reading("load", NoChat)}
    BY DEF QueueInit
  <2>2. IsFiniteSet(readings) /\ Cardinality(readings) = 1
    BY <2>1, FS_Singleton
  <2>3. ReadingTyped(Reading("load", NoChat))
    BY NewReading
  <2> QED
    BY <2>1, <2>2, <2>3, Bounded DEF ReadingsTyped
<1>5. ClaimTyped
  BY DEF QueueInit, ClaimTyped, ClaimForm, NoClaim
<1>6. CloseTyped
  BY DEF QueueInit, CloseTyped, CloseForm, NoClose
<1>7. HistoryTyped
  BY <1>0 DEF QueueInit, HistoryTyped
<1>8. SavingTyped
  <2>1. NoSave \in SaveForm
    BY <1>0 DEF NoSave, SaveForm, FirstRow, Row, QueueStatuses
  <2> QED
    BY <2>1 DEF QueueInit, SavingTyped
<1> QED
  BY <1>1, <1>2, <1>3, <1>4, <1>5, <1>6, <1>7, <1>8 DEF QueueTyped

\* What leaves a part alone keeps its form.
LEMMA PartsKept ==
  ASSUME QueueTyped
  PROVE  /\ UNCHANGED <<sessionRow, changes, events>> => RowsTyped'
         /\ UNCHANGED saving => SavingTyped'
         /\ UNCHANGED desk => desk' \in Desk /\ DialogTyped(desk'.modal)
         /\ UNCHANGED readings => ReadingsTyped'
         /\ UNCHANGED claim => ClaimTyped'
         /\ UNCHANGED close => CloseTyped'
         /\ UNCHANGED <<online, troubles, seen, excuses>> => HistoryTyped'
BY DEF QueueTyped, RowsTyped, EventTyped, SavingTyped, ReadingsTyped, ClaimTyped, CloseTyped, HistoryTyped

\* An unchanged dialog keeps its form.
LEMMA DialogKept ==
  ASSUME QueueTyped, desk'.modal \in {desk.modal, NoModal}
  PROVE  DialogTyped(desk'.modal)
BY NoModalForm DEF QueueTyped, DialogTyped

\* An event less is an event less.
LEMMA RowsFewerEvents ==
  ASSUME QueueTyped, UNCHANGED queueServer, events' \subseteq events
  PROVE  RowsTyped'
BY DEF QueueTyped, RowsTyped, queueServer

\* Troubles are counted within their bound.
LEMMA TroubleCounted ==
  ASSUME QueueTyped
  PROVE  Trouble \/ UNCHANGED troubles => troubles' \in 0..MaxTroubles
<1>1. troubles \in 0..MaxTroubles /\ MaxTroubles \in Nat
  BY Bounded DEF QueueTyped, HistoryTyped
<1>2. ASSUME Trouble PROVE troubles' \in 0..MaxTroubles
  BY <1>1, <1>2 DEF Trouble
<1> QED
  BY <1>1, <1>2

\* A settled claim, end or release leaves nothing under way.
LEMMA ClaimSettles == ASSUME claim' = NoClaim PROVE ClaimTyped'
BY DEF ClaimTyped, ClaimForm, NoClaim

\* (The same of an end or a release.)
LEMMA CloseSettles == ASSUME close' = NoClose PROVE CloseTyped'
BY DEF CloseTyped, CloseForm, NoClose

\* The steps keep the form of everything.
LEMMA QueueStepType ==
  ASSUME QueueTyped, [QueueNext]_queueVars
  PROVE  QueueTyped'
<1> USE DEF queueServer, queueNet
<1> DEFINE Typed == /\ RowsTyped' /\ SavingTyped' /\ desk' \in Desk /\ DialogTyped(desk'.modal) /\ ReadingsTyped'
                    /\ ClaimTyped' /\ CloseTyped' /\ HistoryTyped'
<1> SUFFICES Typed
  BY DEF QueueTyped
<1>0. HistoryTyped
  BY DEF QueueTyped
<1>1. CASE OthersChange
  <2>1. RowsTyped'
    BY <1>1, OthersMove, MovedRowsTyped
  <2> QED
    BY <1>1, <2>1, PartsKept DEF OthersChange
<1>2. CASE HandleQueueRetry
  <2>1. LoadQueue(readings) /\ IsFiniteSet(readings) /\ \A r \in readings : ReadingTyped(r)
    BY <1>2 DEF HandleQueueRetry, QueueTyped, ReadingsTyped
  <2>2. desk' \in Desk /\ desk'.modal = desk.modal /\ ReadingsTyped'
    BY <2>1, LoadBegins
  <2> QED
    BY <1>2, <2>2, PartsKept, DialogKept DEF HandleQueueRetry
<1>3. ASSUME NEW r \in readings, GetActiveQueue(r) PROVE Typed
  <2>1. ReadingsTyped'
    BY <1>3, ReadingServed
  <2> QED
    BY <1>3, <2>1, PartsKept DEF GetActiveQueue
<1>4. ASSUME NEW r \in readings, LoadArrives(r) PROVE Typed
  <2>1. desk' \in Desk /\ desk'.modal \in {desk.modal, NoModal}
    BY <1>4, LoadArrivesMoves
  <2>2. ReadingsTyped' /\ r.rows \in [Chats -> Row] /\ ToldOfAll(r)
    BY <1>4, ReadingEnds DEF LoadArrives, QueueTyped, ReadingsTyped, ReadingTyped
  <2>3. HistoryTyped'
    BY <1>0, <1>4, <2>2, ToldByReading DEF LoadArrives, HistoryTyped
  <2> QED
    BY <1>4, <2>1, <2>2, <2>3, PartsKept, DialogKept DEF LoadArrives
<1>5. ASSUME NEW r \in readings, LoadFails(r) PROVE Typed
  <2>1. desk' \in Desk /\ desk'.modal \in {desk.modal, NoModal}
    BY <1>5, LoadFailsMoves
  <2>2. ReadingsTyped'
    BY <1>5, ReadingEnds DEF LoadFails
  <2>3. HistoryTyped'
    BY <1>0, <1>5, TroubleCounted DEF LoadFails, HistoryTyped
  <2> QED
    BY <1>5, <2>1, <2>2, <2>3, PartsKept, DialogKept DEF LoadFails
<1>6. ASSUME NEW r \in readings, SynchronizedAfterClaim(r) PROVE Typed
  <2>1. desk' \in Desk /\ desk'.modal \in {desk.modal, NoModal}
    BY <1>6, SynchronizedMoves
  <2>2. ReadingsTyped' /\ r.rows \in [Chats -> Row] /\ ToldOfAll(r)
    BY <1>6, ReadingEnds DEF SynchronizedAfterClaim, QueueTyped, ReadingsTyped, ReadingTyped
  <2>3. HistoryTyped'
    BY <1>0, <1>6, <2>2, ToldByReading DEF SynchronizedAfterClaim, HistoryTyped
  <2> QED
    BY <1>6, <2>1, <2>2, <2>3, PartsKept, DialogKept DEF SynchronizedAfterClaim
<1>7. ASSUME NEW r \in readings, NotSynchronizedAfterClaim(r) PROVE Typed
  <2>1. desk' \in Desk /\ desk'.modal \in {desk.modal, NoModal}
    BY <1>7, NotSynchronizedMoves
  <2>2. ReadingsTyped'
    BY <1>7, ReadingEnds DEF NotSynchronizedAfterClaim
  <2>3. HistoryTyped'
    BY <1>0, <1>7, TroubleCounted DEF NotSynchronizedAfterClaim, HistoryTyped
  <2> QED
    BY <1>7, <2>1, <2>2, <2>3, PartsKept, DialogKept DEF NotSynchronizedAfterClaim
<1>8. ASSUME NEW e \in events, HandleQueueEvent(e) PROVE Typed
  <2>1. desk' \in Desk /\ desk'.modal \in {desk.modal, NoModal}
    BY <1>8, EventMoves
  <2>2. e.chat \in Chats /\ e.row \in Row /\ ToldOf(e.chat, e.row)
    BY <1>8 DEF HandleQueueEvent, QueueTyped, RowsTyped, EventTyped
  <2>3. HistoryTyped'
    BY <1>0, <1>8, <2>2, ToldOfOne DEF HandleQueueEvent, HistoryTyped
  <2>4. RowsTyped'
    BY <1>8, RowsFewerEvents DEF HandleQueueEvent
  <2> QED
    BY <1>8, <2>1, <2>3, <2>4, PartsKept, DialogKept DEF HandleQueueEvent
<1>9. CASE Connect
  <2>1. desk' \in Desk /\ desk'.modal = desk.modal /\ ReadingsTyped' /\ online'
        /\ excuses' \subseteq excuses \cup {"not read again"}
    BY <1>9, ConnectMoves
  <2>2. HistoryTyped'
    BY <1>0, <1>9, <2>1 DEF Connect, HistoryTyped
  <2> QED
    BY <1>9, <2>1, <2>2, PartsKept, DialogKept DEF Connect
<1>10. CASE ConnectionLost
  <2>1. HistoryTyped'
    BY <1>0, <1>10, TroubleCounted DEF ConnectionLost, HistoryTyped
  <2>2. RowsTyped'
    BY <1>10, RowsFewerEvents DEF ConnectionLost
  <2> QED
    BY <1>10, <2>1, <2>2, PartsKept DEF ConnectionLost
<1>11. ASSUME NEW c \in Chats, HandleSelectCustomer(c) PROVE Typed
  <2>1. desk' \in Desk /\ desk'.modal \in {desk.modal, NoModal}
    BY <1>11, SelectMoves
  <2> QED
    BY <1>11, <2>1, PartsKept, DialogKept DEF HandleSelectCustomer
<1>12. CASE RouteChanges
  <2>1. desk' \in Desk /\ desk'.modal \in {desk.modal, NoModal}
    BY <1>12, RouteMoves
  <2>2. HistoryTyped'
    BY <1>0, <1>12, TroubleCounted DEF RouteChanges, HistoryTyped
  <2> QED
    BY <1>12, <2>1, <2>2, PartsKept, DialogKept DEF RouteChanges
<1>13. CASE HandleClaimSession
  <2>1. desk' \in Desk /\ desk'.modal = desk.modal /\ ClaimTyped'
    BY <1>13, ClaimBegins
  <2> QED
    BY <1>13, <2>1, PartsKept, DialogKept DEF HandleClaimSession
<1>14. CASE ServeClaim
  <2>1. ClaimTyped' /\ RowsTyped'
    BY <1>14, ServeClaimMoves, MovedRowsTyped, PartsKept
  <2> QED
    BY <1>14, <2>1, PartsKept DEF ServeClaim
<1>15. CASE ClaimSucceeds
  <2>1. claim.chat \in Chats /\ claim.row \in Row /\ desk' \in Desk
        /\ desk'.modal \in {desk.modal, NoModal}
    BY <1>15, ClaimSucceedsMoves
  <2>2. HistoryTyped'
    <3>1. ToldOf(claim.chat, claim.row) \/ UNCHANGED <<seen, excuses>>
      BY <1>15 DEF ClaimSucceeds
    <3> QED
      BY <1>0, <1>15, <2>1, <3>1, ToldOfOne DEF ClaimSucceeds, HistoryTyped
  <2> QED
    BY <1>15, <2>1, <2>2, PartsKept, DialogKept, ClaimSettles DEF ClaimSucceeds
<1>16. CASE ClaimFails
  <2>1. ReadingsTyped'
    BY <1>16, ClaimFailsReads
  <2>2. HistoryTyped'
    BY <1>0, <1>16, TroubleCounted DEF ClaimFails, HistoryTyped
  <2> QED
    BY <1>16, <2>1, <2>2, PartsKept, ClaimSettles DEF ClaimFails
<1>17. ASSUME NEW kind \in {"end", "release"}, HandleOpenModal(kind) PROVE Typed
  <2>1. desk' \in Desk /\ DialogTyped(desk'.modal)
    BY <1>17, ModalOpens
  <2> QED
    BY <1>17, <2>1, PartsKept DEF HandleOpenModal
<1>18. CASE HandleCancelModal
  <2>1. desk' \in Desk /\ desk'.modal = NoModal
    BY <1>18, ModalCancels
  <2> QED
    BY <1>18, <2>1, PartsKept, DialogKept DEF HandleCancelModal
<1>19. CASE HandleConfirm
  <2>1. desk' \in Desk /\ DialogTyped(desk'.modal) /\ CloseTyped'
    BY <1>19, CloseBegins
  <2> QED
    BY <1>19, <2>1, PartsKept DEF HandleConfirm
<1>20. CASE CloseServed
  <2>1. CloseTyped' /\ RowsTyped'
    BY <1>20, CloseServedMoves, MovedRowsTyped, PartsKept
  <2> QED
    BY <1>20, <2>1, PartsKept DEF CloseServed
<1>21. CASE CloseSucceeds
  <2>1. close.chat \in Chats /\ close.row \in Row /\ desk' \in Desk /\ desk'.modal = NoModal
    BY <1>21, CloseSucceedsMoves
  <2>2. HistoryTyped'
    <3>1. ToldOf(close.chat, close.row) \/ UNCHANGED <<seen, excuses>>
      BY <1>21 DEF CloseSucceeds
    <3> QED
      BY <1>0, <1>21, <2>1, <3>1, ToldOfOne DEF CloseSucceeds, HistoryTyped
  <2> QED
    BY <1>21, <2>1, <2>2, PartsKept, DialogKept, CloseSettles DEF CloseSucceeds
<1>22. CASE CloseFails
  <2>1. desk' \in Desk /\ DialogTyped(desk'.modal)
    BY <1>22, CloseFailsMoves
  <2>2. HistoryTyped'
    BY <1>0, <1>22, TroubleCounted DEF CloseFails, HistoryTyped
  <2> QED
    BY <1>22, <2>1, <2>2, PartsKept, CloseSettles DEF CloseFails
<1>23. CASE UNCHANGED queueVars
  BY <1>23, PartsKept DEF queueVars
<1>24. ASSUME NEW u \in Unlocked, Save(u) PROVE Typed
  <2>1. SavingTyped' /\ excuses' \subseteq excuses \cup {"written silently"}
    BY <1>24, SaveMoves
  <2>2. RowsTyped' /\ ReadingsTyped'
    BY <1>24, SaveMoves, MovedRowsTyped, PartsKept, DoubtedReadings DEF RowLost
  <2>3. HistoryTyped'
    BY <1>0, <1>24, <2>1 DEF Save, HistoryTyped
  <2> QED
    BY <1>24, <2>1, <2>2, <2>3, PartsKept DEF Save
<1>25. ASSUME NEW u \in Unlocked, NEW c \in Chats, ReadToSave(u, c) PROVE Typed
  <2>1. SavingTyped'
    BY <1>25, ReadToSaveTyped
  <2> QED
    BY <1>25, <2>1, PartsKept DEF ReadToSave
<1> QED
  <2> HIDE DEF Typed
  <2> QED
    BY <1>1, <1>2, <1>3, <1>4, <1>5, <1>6, <1>7, <1>8, <1>9, <1>10, <1>11, <1>12, <1>13, <1>14,
       <1>15, <1>16, <1>17, <1>18, <1>19, <1>20, <1>21, <1>22, <1>23, <1>24, <1>25 DEF QueueNext

\* Every variable of the counselor's queue has the form its declaration names,
\* in every state: no order of events, answers and failures makes a desk, a
\* request or a row of another shape.
THEOREM QueueTypeCorrect == QueueSpec => []QueueTypeOK
<1>1. QueueTyped /\ [QueueNext]_queueVars => QueueTyped'
  BY QueueStepType
<1> QED
  BY <1>1, QueueInitType, TypedHasType, PTL DEF QueueSpec

-----------------------------------------------------------------------------
(* The open conversation is the one in the address *)

\* Whether a desk follows its address is seen from its standing.
LEMMA StandingFollows ==
  ASSUME NEW d, NEW e, Standing(e) = Standing(d), Follows(d)
  PROVE  Follows(e)
BY DEF Standing, Follows

\* Every step leaves a desk that follows its address, or goes to one.
LEMMA RouteStep ==
  ASSUME QueueTyped, RouteIsOpen, [QueueNext]_queueVars
  PROVE  RouteIsOpen'
<1> USE DEF queueServer, queueNet
<1>0. Follows(desk)
  BY DEF RouteIsOpen, Follows
<1> SUFFICES Follows(desk')
  BY DEF RouteIsOpen, Follows
<1>1. CASE UNCHANGED desk
  BY <1>0, <1>1
<1>2. CASE HandleQueueRetry
  BY <1>2, LoadBegins DEF HandleQueueRetry, QueueTyped, ReadingsTyped, Follows
<1>3. CASE Connect
  <2>1. desk'.loading \/ UNCHANGED desk
    BY <1>3, ConnectMoves
  <2> QED
    BY <1>1, <2>1 DEF Follows
<1>4. CASE \/ \E r \in readings :
                LoadArrives(r) \/ LoadFails(r) \/ SynchronizedAfterClaim(r) \/ NotSynchronizedAfterClaim(r)
           \/ \E e \in events : HandleQueueEvent(e)
           \/ \E c \in Chats : HandleSelectCustomer(c)
           \/ RouteChanges \/ ClaimSucceeds \/ CloseSucceeds
  BY <1>4, LoadArrivesMoves, LoadFailsMoves, SynchronizedMoves, NotSynchronizedMoves, EventMoves,
     SelectMoves, RouteMoves, ClaimSucceedsMoves, CloseSucceedsMoves
<1>5. CASE \/ HandleClaimSession \/ HandleCancelModal \/ HandleConfirm \/ CloseFails
           \/ \E kind \in {"end", "release"} : HandleOpenModal(kind)
  <2>1. Standing(desk') = Standing(desk)
    BY <1>5, ClaimBegins, ModalCancels, CloseBegins, CloseFailsMoves, ModalOpens
  <2> QED
    BY <1>0, <2>1, StandingFollows
<1>6. CASE \/ OthersChange \/ \E r \in readings : GetActiveQueue(r)
           \/ \E u \in Unlocked : Save(u) \/ \E c \in Chats : ReadToSave(u, c)
           \/ ConnectionLost \/ ServeClaim \/ ClaimFails \/ CloseServed
  BY <1>1, <1>6 DEF OthersChange, Save, ReadToSave, GetActiveQueue, ConnectionLost, ServeClaim,
                    ClaimFails, CloseServed
<1>7. CASE UNCHANGED queueVars
  BY <1>1, <1>7 DEF queueVars
<1> QED
  BY <1>2, <1>3, <1>4, <1>5, <1>6, <1>7 DEF QueueNext

\* Whatever events and answers removed, claimed or reloaded, a page that is
\* loaded has the conversation open that its address names, when the queue lists
\* it, and none otherwise.
THEOREM OpenFollowsRoute == QueueSpec => []RouteIsOpen
<1>1. QueueInit => RouteIsOpen
  BY DEF QueueInit, RouteIsOpen
<1>2. QueueTyped /\ [QueueNext]_queueVars => QueueTyped'
  BY QueueStepType
<1>3. QueueTyped /\ RouteIsOpen /\ [QueueNext]_queueVars => RouteIsOpen'
  BY RouteStep
<1> QED
  BY <1>1, <1>2, <1>3, QueueInitType, PTL DEF QueueSpec

-----------------------------------------------------------------------------
(* What is blocked waits for a request under way *)

\* One claim at a time: its request, or the reading that follows its failure.
OneClaim ==
  /\ claim.chat # NoChat => desk.claiming = claim.chat
  /\ \A r \in readings : r.kind = "claim" => r.target = desk.claiming /\ claim.chat = NoChat
  /\ \A r, s \in readings : r.kind = "claim" /\ s.kind = "claim" => r = s

\* What blocks the desk waits for a request that is under way.
LoadingAwaits(d, under) == d.loading => \E r \in under : r.kind = "load"

ClaimAwaits(d, request, under) ==
  d.claiming # NoChat =>
    \/ request.chat = d.claiming
    \/ \E r \in under : r.kind = "claim" /\ r.target = d.claiming

DialogAwaits(modal, request) ==
  modal.submitting => request.kind = modal.kind /\ request.chat = modal.chat

\* The property says this of the page as it is.
LEMMA BlockedInParts ==
  BlockedHasRequest <=> /\ LoadingAwaits(desk, readings)
                        /\ ClaimAwaits(desk, claim, readings)
                        /\ DialogAwaits(desk.modal, close)
BY DEF BlockedHasRequest, LoadingAwaits, ClaimAwaits, DialogAwaits

\* A claim under way has a conversation.
LEMMA TypedClaims ==
  ASSUME QueueTyped
  PROVE  /\ \A r \in readings : ReadingTyped(r)
         /\ claim.answer # "none" => claim.chat # NoChat
         /\ NoClaim.chat = NoChat /\ NoClaim.answer = "none"
         /\ close.kind = "none" => close = NoClose
BY DEF QueueTyped, ReadingsTyped, ClaimTyped, CloseTyped, NoClaim

\* Requests end together with what they block.
LEMMA BlockedStep ==
  ASSUME QueueTyped, OneClaim, BlockedHasRequest, [QueueNext]_queueVars
  PROVE  OneClaim' /\ BlockedHasRequest'
<1> USE DEF queueServer, queueNet
<1> DEFINE Blocked == /\ OneClaim' /\ LoadingAwaits(desk', readings')
                      /\ ClaimAwaits(desk', claim', readings') /\ DialogAwaits(desk'.modal, close')
<1> SUFFICES Blocked
  BY BlockedInParts DEF BlockedHasRequest, LoadingAwaits, ClaimAwaits, DialogAwaits
<1>0. /\ OneClaim /\ LoadingAwaits(desk, readings)
      /\ ClaimAwaits(desk, claim, readings) /\ DialogAwaits(desk.modal, close)
      /\ \A r \in readings : ReadingTyped(r)
      /\ NoClaim.chat = NoChat
  BY BlockedInParts, TypedClaims
\* The same dialog, or none, and the same request.
<1>a. ASSUME desk'.modal \in {desk.modal, NoModal}, UNCHANGED close
      PROVE  DialogAwaits(desk'.modal, close')
  BY <1>0, <1>a, NoModalForm DEF DialogAwaits
\* The same claim and the same readings of its failure.
<1>b. ASSUME desk'.claiming = desk.claiming, UNCHANGED claim,
             \A r \in readings : r.kind = "claim" => r \in readings',
             \A r \in readings' : r.kind = "claim" => r \in readings
      PROVE  OneClaim' /\ ClaimAwaits(desk', claim', readings')
  BY <1>0, <1>b DEF OneClaim, ClaimAwaits
<1>c. ASSUME desk'.loading = desk.loading,
             \A r \in readings : r.kind = "load" => r \in readings'
      PROVE  LoadingAwaits(desk', readings')
  BY <1>0, <1>c DEF LoadingAwaits
<1>1. CASE UNCHANGED <<desk, readings, claim, close>>
  BY <1>0, <1>1 DEF OneClaim, LoadingAwaits, ClaimAwaits, DialogAwaits
<1>2. CASE HandleQueueRetry
  <2>1. /\ desk'.modal = desk.modal /\ desk'.claiming = desk.claiming
        /\ \E r \in readings' : readings' = readings \cup {r} /\ r.kind = "load"
    BY <1>2, LoadBegins DEF HandleQueueRetry, QueueTyped, ReadingsTyped
  <2>2. LoadingAwaits(desk', readings')
    BY <2>1 DEF LoadingAwaits
  <2>3. UNCHANGED <<claim, close>>
    BY <1>2 DEF HandleQueueRetry
  <2> QED
    BY <1>a, <1>b, <2>1, <2>2, <2>3
<1>3. ASSUME NEW r \in readings, GetActiveQueue(r) PROVE Blocked
  <2>1. PICK s \in readings' : /\ readings' = (readings \ {r}) \cup {s}
                               /\ s.kind = r.kind /\ s.target = r.target
    BY <1>3, ReadingServed
  <2>2. UNCHANGED <<desk, claim, close>>
    BY <1>3 DEF GetActiveQueue
  <2>3. OneClaim'
    BY <1>0, <2>1, <2>2 DEF OneClaim
  <2>4. LoadingAwaits(desk', readings') /\ ClaimAwaits(desk', claim', readings')
    BY <1>0, <2>1, <2>2 DEF LoadingAwaits, ClaimAwaits
  <2> QED
    BY <1>a, <2>2, <2>3, <2>4
<1>4. ASSUME NEW r \in readings, LoadArrives(r) \/ LoadFails(r) PROVE Blocked
  <2>1. /\ desk'.modal \in {desk.modal, NoModal} /\ desk'.claiming = desk.claiming
        /\ ~desk'.loading
    BY <1>4, LoadArrivesMoves, LoadFailsMoves
  <2>2. UNCHANGED <<claim, close>> /\ readings' = readings \ {r} /\ r.kind = "load"
    BY <1>4 DEF LoadArrives, LoadFails
  <2>3. LoadingAwaits(desk', readings')
    BY <2>1 DEF LoadingAwaits
  <2> QED
    BY <1>a, <1>b, <2>1, <2>2, <2>3
<1>5. ASSUME NEW r \in readings, SynchronizedAfterClaim(r) \/ NotSynchronizedAfterClaim(r)
      PROVE  Blocked
  <2>1. /\ desk'.modal \in {desk.modal, NoModal} /\ desk'.claiming = NoChat
        /\ desk'.loading = desk.loading
    BY <1>5, SynchronizedMoves, NotSynchronizedMoves
  <2>2. UNCHANGED <<claim, close>> /\ readings' = readings \ {r} /\ r.kind = "claim"
    BY <1>5 DEF SynchronizedAfterClaim, NotSynchronizedAfterClaim
  <2>3. \A s \in readings' : s.kind # "claim"
    BY <1>0, <2>2 DEF OneClaim
  <2>4. claim.chat = NoChat
    BY <1>0, <2>2 DEF OneClaim
  <2>5. OneClaim' /\ ClaimAwaits(desk', claim', readings')
    BY <2>1, <2>2, <2>3, <2>4 DEF OneClaim, ClaimAwaits
  <2> QED
    BY <1>a, <1>c, <2>1, <2>2, <2>5
<1>6. ASSUME NEW e \in events, HandleQueueEvent(e) PROVE Blocked
  <2>1. /\ desk'.modal \in {desk.modal, NoModal} /\ desk'.claiming = desk.claiming
        /\ desk'.loading = desk.loading
    BY <1>6, EventMoves
  <2>2. UNCHANGED <<readings, claim, close>>
    BY <1>6 DEF HandleQueueEvent
  <2> QED
    BY <1>a, <1>b, <1>c, <2>1, <2>2
<1>7. CASE Connect
  <2>1. /\ desk'.modal = desk.modal /\ desk'.claiming = desk.claiming
        /\ Doubted \subseteq readings'
        /\ \A s \in readings' : s \in Doubted \/ s = Reading("load", NoChat)
        /\ \/ \E r \in readings' : r.kind = "load"
           \/ UNCHANGED desk
    BY <1>7, ConnectMoves
  <2>2. UNCHANGED <<claim, close>>
    BY <1>7 DEF Connect
  <2>3. \A s \in readings' : s.kind = "claim" => \E r \in readings : s = Sounded(r) /\ r.kind = "claim" /\ s.target = r.target
    BY <1>0, <2>1, SoundedReading, DoubtedSounded DEF Reading
  <2>4. \A r \in readings : Sounded(r) \in readings' /\ Sounded(r).kind = r.kind /\ Sounded(r).target = r.target
    BY <1>0, <2>1, SoundedReading, DoubtedSounded
  <2>5. OneClaim'
    BY <1>0, <2>1, <2>2, <2>3 DEF OneClaim
  <2>6. LoadingAwaits(desk', readings') /\ ClaimAwaits(desk', claim', readings')
    BY <1>0, <2>1, <2>2, <2>4 DEF LoadingAwaits, ClaimAwaits
  <2> QED
    BY <1>a, <2>1, <2>2, <2>5, <2>6
<1>8. ASSUME (\E c \in Chats : HandleSelectCustomer(c)) \/ RouteChanges PROVE Blocked
  <2>1. /\ desk'.modal \in {desk.modal, NoModal} /\ desk'.claiming = desk.claiming
        /\ desk'.loading = desk.loading
    BY <1>8, SelectMoves, RouteMoves
  <2>2. UNCHANGED <<readings, claim, close>>
    BY <1>8 DEF HandleSelectCustomer, RouteChanges
  <2> QED
    BY <1>a, <1>b, <1>c, <2>1, <2>2
<1>9. CASE HandleClaimSession
  <2>1. /\ desk'.modal = desk.modal /\ desk'.claiming = desk.active /\ desk.active \in Chats
        /\ desk'.loading = desk.loading /\ claim'.chat = desk.active
    BY <1>9, ClaimBegins DEF Standing
  <2>2. UNCHANGED <<readings, close>> /\ desk.claiming = NoChat
    BY <1>9 DEF HandleClaimSession
  <2>3. \A r \in readings : r.kind # "claim"
    BY <1>0, <2>2 DEF OneClaim, ReadingTyped
  <2>4. OneClaim' /\ ClaimAwaits(desk', claim', readings')
    BY <2>1, <2>2, <2>3 DEF OneClaim, ClaimAwaits
  <2> QED
    BY <1>a, <1>c, <2>1, <2>2, <2>4
<1>10. CASE ServeClaim
  <2>1. claim'.chat = claim.chat /\ UNCHANGED <<desk, readings, close>>
    BY <1>10, ServeClaimMoves DEF ServeClaim
  <2> QED
    BY <1>0, <2>1 DEF OneClaim, LoadingAwaits, ClaimAwaits, DialogAwaits
<1>11. CASE ClaimSucceeds
  <2>1. /\ desk'.modal \in {desk.modal, NoModal} /\ desk'.claiming = NoChat
        /\ desk'.loading = desk.loading /\ claim.chat \in Chats
    BY <1>11, ClaimSucceedsMoves
  <2>2. claim' = NoClaim /\ UNCHANGED <<readings, close>>
    BY <1>11 DEF ClaimSucceeds
  <2>3. \A r \in readings : r.kind # "claim"
    BY <1>0, <2>1, ChatsAssumption DEF OneClaim
  <2>4. OneClaim' /\ ClaimAwaits(desk', claim', readings')
    BY <1>0, <2>1, <2>2, <2>3 DEF OneClaim, ClaimAwaits
  <2> QED
    BY <1>a, <1>c, <2>1, <2>2, <2>4
<1>12. CASE ClaimFails
  <2>1. PICK s \in readings' : /\ readings' = readings \cup {s}
                               /\ s.kind = "claim" /\ s.target = claim.chat
    BY <1>12, ClaimFailsReads
  <2>2. claim' = NoClaim /\ claim.chat # NoChat /\ UNCHANGED <<desk, close>>
    BY <1>12 DEF ClaimFails
  <2>3. (\A r \in readings : r.kind # "claim") /\ desk.claiming = claim.chat
    BY <1>0, <2>2 DEF OneClaim
  <2>4. OneClaim' /\ ClaimAwaits(desk', claim', readings')
    BY <1>0, <2>1, <2>2, <2>3 DEF OneClaim, ClaimAwaits
  <2> QED
    BY <1>a, <1>c, <2>1, <2>2, <2>4
<1>13. ASSUME NEW kind \in {"end", "release"}, HandleOpenModal(kind) PROVE Blocked
  <2>1. ~desk'.modal.submitting /\ Standing(desk') = Standing(desk) /\ desk'.claiming = desk.claiming
    BY <1>13, ModalOpens
  <2>2. UNCHANGED <<readings, claim, close>> /\ desk'.loading = desk.loading
    BY <1>13, <2>1 DEF HandleOpenModal, Standing
  <2> QED
    BY <1>b, <1>c, <2>1, <2>2 DEF DialogAwaits
<1>14. CASE HandleCancelModal
  <2>1. desk'.modal = NoModal /\ Standing(desk') = Standing(desk) /\ desk'.claiming = desk.claiming
    BY <1>14, ModalCancels
  <2>2. UNCHANGED <<readings, claim, close>> /\ desk'.loading = desk.loading
    BY <1>14, <2>1 DEF HandleCancelModal, Standing
  <2> QED
    BY <1>a, <1>b, <1>c, <2>1, <2>2
<1>15. CASE HandleConfirm
  <2>1. /\ desk'.modal.kind = desk.modal.kind /\ desk'.modal.chat = desk.modal.chat
        /\ close'.kind = desk.modal.kind /\ close'.chat = desk.modal.chat
        /\ Standing(desk') = Standing(desk) /\ desk'.claiming = desk.claiming
    BY <1>15, CloseBegins
  <2>2. UNCHANGED <<readings, claim>> /\ desk'.loading = desk.loading
    BY <1>15, <2>1 DEF HandleConfirm, Standing
  <2> QED
    BY <1>b, <1>c, <2>1, <2>2 DEF DialogAwaits
<1>16. CASE CloseServed
  <2>1. /\ close'.kind = close.kind /\ close'.chat = close.chat
        /\ UNCHANGED <<desk, readings, claim>>
    BY <1>16, CloseServedMoves DEF CloseServed
  <2> QED
    BY <1>0, <2>1 DEF OneClaim, LoadingAwaits, ClaimAwaits, DialogAwaits
<1>17. CASE CloseSucceeds
  <2>1. /\ desk'.modal = NoModal /\ desk'.claiming = desk.claiming
        /\ desk'.loading = desk.loading
    BY <1>17, CloseSucceedsMoves
  <2>2. UNCHANGED <<readings, claim>>
    BY <1>17 DEF CloseSucceeds
  <2> QED
    BY <1>b, <1>c, <2>1, <2>2, NoModalForm DEF DialogAwaits
<1>18. CASE CloseFails
  <2>1. /\ desk'.modal.submitting => desk.modal.submitting /\ desk.modal.kind # close.kind
        /\ Standing(desk') = Standing(desk) /\ desk'.claiming = desk.claiming
    BY <1>18, CloseFailsMoves
  <2>2. UNCHANGED <<readings, claim>> /\ desk'.loading = desk.loading
    BY <1>18, <2>1 DEF CloseFails, Standing
  <2>3. ~desk'.modal.submitting
    BY <1>0, <2>1 DEF DialogAwaits
  <2> QED
    BY <1>b, <1>c, <2>1, <2>2, <2>3 DEF DialogAwaits
<1>19. CASE OthersChange \/ ConnectionLost
  BY <1>1, <1>19 DEF OthersChange, ConnectionLost
<1>20. CASE UNCHANGED queueVars
  BY <1>1, <1>20 DEF queueVars
<1>21. ASSUME NEW u \in Unlocked, Save(u) PROVE Blocked
  <2>1. UNCHANGED <<desk, claim, close>> /\ (UNCHANGED readings \/ readings' = Doubted)
    BY <1>21 DEF Save
  <2>2. CASE readings' = Doubted
    <3>1. \A s \in readings' : \E r \in readings : s = Sounded(r) /\ s.kind = r.kind /\ s.target = r.target
      BY <1>0, <2>2, SoundedReading, DoubtedSounded
    <3>2. \A r \in readings : Sounded(r) \in readings' /\ Sounded(r).kind = r.kind /\ Sounded(r).target = r.target
      BY <1>0, <2>2, SoundedReading, DoubtedSounded
    <3>3. OneClaim'
      BY <1>0, <2>1, <3>1 DEF OneClaim
    <3>4. LoadingAwaits(desk', readings') /\ ClaimAwaits(desk', claim', readings')
      BY <1>0, <2>1, <3>2 DEF LoadingAwaits, ClaimAwaits
    <3> QED
      BY <1>a, <2>1, <3>3, <3>4
  <2> QED
    BY <1>1, <2>1, <2>2
<1>22. ASSUME NEW u \in Unlocked, NEW c \in Chats, ReadToSave(u, c) PROVE Blocked
  BY <1>1, <1>22 DEF ReadToSave
<1> QED
  <2> HIDE DEF Blocked
  <2> QED
    BY <1>2, <1>3, <1>4, <1>5, <1>6, <1>7, <1>8, <1>9, <1>10, <1>11, <1>12, <1>13, <1>14, <1>15,
       <1>16, <1>17, <1>18, <1>19, <1>20, <1>21, <1>22 DEF QueueNext

\* A queue that is loading, a claim that is marked as being made and a dialog
\* that is submitting have their request under way in every state: no failure
\* and no late answer leaves the counselor blocked for good.
THEOREM NothingStaysBlocked == QueueSpec => []BlockedHasRequest
<1>1. QueueInit => OneClaim /\ BlockedHasRequest
  <2> SUFFICES ASSUME QueueInit PROVE OneClaim /\ BlockedHasRequest
    OBVIOUS
  <2>1. /\ desk.claiming = NoChat /\ desk.modal = NoModal /\ claim.chat = NoChat
        /\ readings = {Reading("load", NoChat)}
    BY DEF QueueInit, NoClaim
  <2>2. \A r \in readings : r.kind = "load"
    BY <2>1 DEF Reading
  <2> QED
    BY <2>1, <2>2, NoModalForm DEF OneClaim, BlockedHasRequest
<1>2. QueueTyped /\ [QueueNext]_queueVars => QueueTyped'
  BY QueueStepType
<1>3. QueueTyped /\ OneClaim /\ BlockedHasRequest /\ [QueueNext]_queueVars => OneClaim' /\ BlockedHasRequest'
  BY BlockedStep
<1> QED
  BY <1>1, <1>2, <1>3, QueueInitType, PTL DEF QueueSpec

-----------------------------------------------------------------------------
(* The queue mirrors the rows *)

\* What a row said at some time, now that it is another: an older change, or the
\* same one, after which the assistant may have answered.
Past(row, now) ==
  /\ row \in Row
  /\ row.at <= now.at
  /\ row.at = now.at => /\ row.status = now.status /\ row.counselor = now.counselor
                        /\ now.said => row.said

\* Rows and what is told of them.
Informed ==
  /\ \A c \in Chats : /\ Past(sessionRow[c], sessionRow[c])
                      /\ sessionRow[c].at <= changes
                      /\ seen[c] <= sessionRow[c].at
  /\ \A r \in readings : r.read => \A c \in Chats : Past(r.rows[c], sessionRow[c])
  /\ \A e \in events : Past(e.row, sessionRow[e.chat])
  /\ claim.answer = "ok" => Past(claim.row, sessionRow[claim.chat])
  /\ close.answer = "ok" => Past(close.row, sessionRow[close.chat])

\* What is typed counts in numbers.
LEMMA TypedNumbers ==
  ASSUME QueueTyped
  PROVE  /\ changes \in Nat /\ sessionRow \in [Chats -> Row] /\ seen \in [Chats -> 0..MaxChanges]
         /\ \A c \in Chats : seen[c] \in Nat /\ sessionRow[c] \in Row
         /\ \A row \in Row : row.at \in Nat
<1>1. MaxChanges \in Nat
  BY Bounded
<1>2. sessionRow \in [Chats -> Row] /\ changes \in 0..MaxChanges /\ seen \in [Chats -> 0..MaxChanges]
  BY DEF QueueTyped, RowsTyped, HistoryTyped
<1>3. \A row \in Row : row.at \in Nat
  BY <1>1 DEF Row
<1>4. \A c \in Chats : seen[c] \in 0..MaxChanges /\ sessionRow[c] \in Row
  BY <1>2
<1> QED
  BY <1>1, <1>2, <1>3, <1>4

\* A row changes by a step of the server alone, and one at a time.
LEMMA ServerSteps ==
  ASSUME QueueTyped, [QueueNext]_queueVars
  PROVE  \/ UNCHANGED <<sessionRow, changes>> /\ events' \subseteq events
         \/ \E c \in Chats : RowMoved(c) \/ RowLost(c) \/ RowAnswered(c)
<1> USE DEF queueServer, queueNet
<1>0. ASSUME NEW u \in Unlocked, Save(u) \/ \E c \in Chats : ReadToSave(u, c)
      PROVE  \/ UNCHANGED <<sessionRow, changes>> /\ events' \subseteq events
             \/ \E c \in Chats : RowMoved(c) \/ RowLost(c)
  BY <1>0, SaveMoves DEF ReadToSave
<1>1. CASE OthersChange
  BY <1>1, OthersMove
<1>2. CASE ServeClaim
  BY <1>2, ServeClaimMoves
<1>3. CASE CloseServed
  BY <1>3, CloseServedMoves
<1>4. CASE \/ HandleQueueRetry \/ Connect \/ ConnectionLost \/ RouteChanges
           \/ HandleClaimSession \/ ClaimSucceeds \/ ClaimFails \/ HandleCancelModal
           \/ HandleConfirm \/ CloseSucceeds \/ CloseFails
  BY <1>4 DEF HandleQueueRetry, Connect, ConnectionLost, RouteChanges, HandleClaimSession,
              ClaimSucceeds, ClaimFails, HandleCancelModal, HandleConfirm, CloseSucceeds, CloseFails
<1>5. CASE \/ \E r \in readings :
                \/ GetActiveQueue(r) \/ LoadArrives(r) \/ LoadFails(r)
                \/ SynchronizedAfterClaim(r) \/ NotSynchronizedAfterClaim(r)
           \/ \E e \in events : HandleQueueEvent(e)
           \/ \E c \in Chats : HandleSelectCustomer(c)
           \/ \E kind \in {"end", "release"} : HandleOpenModal(kind)
  BY <1>5 DEF GetActiveQueue, LoadArrives, LoadFails, SynchronizedAfterClaim,
              NotSynchronizedAfterClaim, HandleQueueEvent, HandleSelectCustomer, HandleOpenModal
<1>6. CASE UNCHANGED queueVars
  BY <1>6 DEF queueVars
<1> QED
  BY <1>0, <1>1, <1>2, <1>3, <1>4, <1>5, <1>6 DEF QueueNext

\* One row is changed at a time.
LEMMA RowSteps ==
  ASSUME QueueTyped, [QueueNext]_queueVars, NEW c \in Chats
  PROVE  \/ RowMoved(c) \/ RowLost(c)
         \/ RowAnswered(c)
         \/ sessionRow'[c] = sessionRow[c]
<1>1. sessionRow \in [Chats -> Row]
  BY DEF QueueTyped, RowsTyped
<1> QED
  BY <1>1, ServerSteps DEF RowMoved, RowLost, RowAnswered, RowsMoved

\* What was told of a row stays something it once was.
LEMMA PastLasts ==
  ASSUME QueueTyped, Informed, [QueueNext]_queueVars
  PROVE  /\ \A c \in Chats : /\ Past(sessionRow'[c], sessionRow'[c])
                             /\ sessionRow'[c].at <= changes'
                             /\ sessionRow[c].at <= sessionRow'[c].at
         /\ \A c \in Chats, row \in Row : Past(row, sessionRow[c]) => Past(row, sessionRow'[c])
<1>0. /\ changes \in Nat /\ sessionRow \in [Chats -> Row]
      /\ \A row \in Row : row.at \in Nat
  BY TypedNumbers
<1>1. changes' >= changes
  <2>1. changes' = changes \/ changes' = changes + 1
    BY ServerSteps DEF RowMoved, RowLost, RowAnswered, RowsMoved
  <2> QED
    BY <1>0, <2>1
<1>2. changes' \in Nat
  BY <1>0, ServerSteps DEF RowMoved, RowLost, RowAnswered, RowsMoved
<1> SUFFICES ASSUME NEW c \in Chats
             PROVE  /\ Past(sessionRow'[c], sessionRow'[c])
                    /\ sessionRow'[c].at <= changes'
                    /\ sessionRow[c].at <= sessionRow'[c].at
                    /\ \A row \in Row : Past(row, sessionRow[c]) => Past(row, sessionRow'[c])
  OBVIOUS
<1>3. Past(sessionRow[c], sessionRow[c]) /\ sessionRow[c].at <= changes /\ sessionRow[c] \in Row
      /\ sessionRow[c].at \in Nat
  BY <1>0 DEF Informed
<1>4. CASE sessionRow'[c] = sessionRow[c]
  BY <1>1, <1>2, <1>0, <1>3, <1>4
<1>5. CASE RowsMoved(c)
  <2>1. sessionRow'[c] \in Row /\ sessionRow'[c].at = changes + 1 /\ changes' = changes + 1
    BY <1>5 DEF RowsMoved
  <2>2. ASSUME NEW row \in Row, Past(row, sessionRow[c]) PROVE Past(row, sessionRow'[c])
    <3>1. row.at \in Nat /\ row.at <= sessionRow[c].at
      BY <1>0, <2>2 DEF Past
    <3>2. row.at <= sessionRow'[c].at /\ row.at # sessionRow'[c].at
      BY <1>0, <1>3, <2>1, <3>1
    <3> QED
      BY <3>2 DEF Past
  <2> QED
    BY <1>0, <1>3, <2>1, <2>2 DEF Past
<1>6. CASE RowAnswered(c)
  <2>1. /\ sessionRow'[c] \in Row /\ sessionRow'[c].at = sessionRow[c].at
        /\ sessionRow'[c].status = sessionRow[c].status
        /\ sessionRow'[c].counselor = sessionRow[c].counselor
        /\ sessionRow'[c].said = FALSE
    BY <1>0, <1>3, <1>6 DEF RowAnswered, Row
  <2> QED
    BY <1>0, <1>1, <1>2, <1>3, <2>1 DEF Past
<1> QED
  BY <1>4, <1>5, <1>6, RowSteps DEF RowMoved, RowLost

\* A reading that was served holds rows of that time, and is sound only if the
\* connection was there since.
LEMMA ReadingSteps ==
  ASSUME QueueTyped, [QueueNext]_queueVars, NEW s \in readings', s.read
  PROVE  \/ s.rows = sessionRow /\ UNCHANGED <<queueServer, events, online, seen>>
         \/ \E r \in readings : /\ r.read /\ s.rows = r.rows
                                /\ s.sound /\ online' => r.sound /\ online
<1> USE DEF queueServer, queueNet
<1>0. \A r \in readings : ReadingTyped(r)
  BY TypedClaims
<1>1. CASE s \in readings /\ (online' => online)
  BY <1>1
<1>2. ASSUME NEW r \in readings, GetActiveQueue(r)
      PROVE  \/ s \in readings /\ (online' => online)
             \/ s.rows = sessionRow /\ UNCHANGED <<queueServer, events, online, seen>>
  <2>1. PICK t \in readings' : readings' = (readings \ {r}) \cup {t} /\ t.rows = sessionRow
    BY <1>2, ReadingServed
  <2> QED
    BY <1>2, <2>1 DEF GetActiveQueue
<1>3. ASSUME Connect
      PROVE  \E r \in readings : r.read /\ s.rows = r.rows /\ ~s.sound
  <2>1. s \in Doubted \/ s = Reading("load", NoChat)
    BY <1>3, ConnectMoves
  <2>2. PICK r \in readings : s = Sounded(r)
    BY <2>1, DoubtedSounded DEF Reading
  <2>3. s.read = r.read /\ s.rows = r.rows /\ s.sound = ~r.read
    BY <1>0, <2>2, SoundedReading
  <2> QED
    BY <2>3
<1>12. ASSUME NEW u \in Unlocked, Save(u) \/ \E c \in Chats : ReadToSave(u, c)
       PROVE  \/ s \in readings /\ (online' => online)
              \/ \E r \in readings : r.read /\ s.rows = r.rows /\ ~s.sound
  <2>1. UNCHANGED online /\ (UNCHANGED readings \/ readings' = Doubted)
    BY <1>12 DEF Save, ReadToSave
  <2>2. ASSUME readings' = Doubted PROVE \E r \in readings : r.read /\ s.rows = r.rows /\ ~s.sound
    <3>1. PICK r \in readings : s = Sounded(r)
      BY <2>2, DoubtedSounded
    <3>2. s.read = r.read /\ s.rows = r.rows /\ s.sound = ~r.read
      BY <1>0, <3>1, SoundedReading
    <3> QED
      BY <3>2
  <2> QED
    BY <2>1, <2>2
<1>4. ASSUME HandleQueueRetry PROVE s \in readings /\ (online' => online)
  <2>1. readings' = readings \cup {Reading("load", NoChat)}
    BY <1>4 DEF HandleQueueRetry, LoadQueue
  <2>2. s # Reading("load", NoChat)
    BY DEF Reading
  <2> QED
    BY <1>4, <2>1, <2>2 DEF HandleQueueRetry
<1>5. ASSUME ClaimFails PROVE s \in readings /\ (online' => online)
  <2>1. readings' = readings \cup {Reading("claim", claim.chat)}
    BY <1>5 DEF ClaimFails
  <2>2. s # Reading("claim", claim.chat)
    BY DEF Reading
  <2> QED
    BY <1>5, <2>1, <2>2 DEF ClaimFails
<1>6. ASSUME NEW r \in readings,
             \/ LoadArrives(r) \/ LoadFails(r)
             \/ SynchronizedAfterClaim(r) \/ NotSynchronizedAfterClaim(r)
      PROVE  s \in readings /\ (online' => online)
  <2>1. readings' = readings \ {r} /\ online' = online
    BY <1>6 DEF LoadArrives, LoadFails, SynchronizedAfterClaim, NotSynchronizedAfterClaim
  <2> QED
    BY <2>1
<1>7. ASSUME OthersChange \/ RouteChanges \/ ConnectionLost \/ HandleCancelModal \/ HandleConfirm
      PROVE  s \in readings /\ (online' => online)
  BY <1>7 DEF OthersChange, RouteChanges, ConnectionLost, HandleCancelModal, HandleConfirm
<1>13. ASSUME HandleClaimSession \/ ServeClaim \/ ClaimSucceeds
       PROVE  s \in readings /\ (online' => online)
  BY <1>13 DEF HandleClaimSession, ServeClaim, ClaimSucceeds
<1>14. ASSUME CloseServed \/ CloseSucceeds \/ CloseFails
       PROVE  s \in readings /\ (online' => online)
  <2>1. readings' = readings /\ online' = online
    BY <1>14 DEF CloseServed, CloseSucceeds, CloseFails
  <2> QED
    BY <2>1
<1>8. ASSUME NEW e \in events, HandleQueueEvent(e) PROVE s \in readings /\ (online' => online)
  BY <1>8 DEF HandleQueueEvent
<1>9. ASSUME NEW c \in Chats, HandleSelectCustomer(c) PROVE s \in readings /\ (online' => online)
  BY <1>9 DEF HandleSelectCustomer
<1>10. ASSUME NEW kind \in {"end", "release"}, HandleOpenModal(kind)
       PROVE  s \in readings /\ (online' => online)
  BY <1>10 DEF HandleOpenModal
<1>11. ASSUME UNCHANGED queueVars PROVE s \in readings /\ (online' => online)
  BY <1>11 DEF queueVars
<1> QED
  BY <1>1, <1>2, <1>3, <1>4, <1>5, <1>6, <1>7, <1>8, <1>9, <1>10, <1>11, <1>12,
     <1>13, <1>14 DEF QueueNext

\* A load under way stays under way, until it arrives or fails; the rows it holds
\* are those it had, or those of the moment.
LEMMA LoadSteps ==
  ASSUME QueueTyped, [QueueNext]_queueVars, NEW r \in readings, r.kind = "load"
  PROVE  \/ LoadArrives(r) \/ LoadFails(r)
         \/ \E s \in readings' : /\ s.kind = "load"
                                 /\ s.read => \/ s.rows = r.rows /\ r.read
                                              \/ s.rows = sessionRow /\ UNCHANGED queueServer
<1> USE DEF queueServer, queueNet
<1>0. \A x \in readings : ReadingTyped(x)
  BY TypedClaims
<1>1. CASE r \in readings'
  BY <1>1
<1>2. CASE \E x \in readings : GetActiveQueue(x)
  <2>1. PICK x \in readings : GetActiveQueue(x)
    BY <1>2
  <2>2. PICK t \in readings' : /\ readings' = (readings \ {x}) \cup {t}
                               /\ t.kind = x.kind /\ t.rows = sessionRow
    BY <2>1, ReadingServed
  <2>3. UNCHANGED queueServer
    BY <2>1 DEF GetActiveQueue
  <2> QED
    BY <2>2, <2>3
<1>3. CASE Connect
  <2>1. Sounded(r) \in readings'
    BY <1>3, ConnectMoves, DoubtedSounded
  <2>2. Sounded(r).kind = "load" /\ Sounded(r).read = r.read /\ Sounded(r).rows = r.rows
    BY <1>0, SoundedReading
  <2> QED
    BY <2>1, <2>2
<1>8. CASE \E u \in Unlocked : Save(u) \/ \E c \in Chats : ReadToSave(u, c)
  <2>1. UNCHANGED readings \/ readings' = Doubted
    BY <1>8 DEF Save, ReadToSave
  <2>2. ASSUME readings' = Doubted
        PROVE  \E t \in readings' : t.kind = "load" /\ t.read = r.read /\ t.rows = r.rows
    <3>1. Sounded(r) \in readings'
      BY <2>2, DoubtedSounded
    <3>2. Sounded(r).kind = "load" /\ Sounded(r).read = r.read /\ Sounded(r).rows = r.rows
      BY <1>0, SoundedReading
    <3> QED
      BY <3>1, <3>2
  <2> QED
    BY <1>1, <2>1, <2>2
<1>4. CASE HandleQueueRetry \/ ClaimFails
  BY <1>1, <1>4 DEF HandleQueueRetry, LoadQueue, ClaimFails
<1>5. CASE \E x \in readings : \/ LoadArrives(x) \/ LoadFails(x)
                               \/ SynchronizedAfterClaim(x) \/ NotSynchronizedAfterClaim(x)
  BY <1>1, <1>5 DEF LoadArrives, LoadFails, SynchronizedAfterClaim, NotSynchronizedAfterClaim
<1>6. CASE \/ OthersChange \/ RouteChanges \/ ConnectionLost
           \/ HandleClaimSession \/ ServeClaim \/ ClaimSucceeds \/ HandleCancelModal
           \/ HandleConfirm \/ CloseServed \/ CloseSucceeds \/ CloseFails
  BY <1>1, <1>6 DEF OthersChange, RouteChanges, ConnectionLost, HandleClaimSession, ServeClaim,
              ClaimSucceeds, HandleCancelModal, HandleConfirm, CloseServed, CloseSucceeds, CloseFails
<1>7. CASE \/ \E e \in events : HandleQueueEvent(e)
           \/ \E c \in Chats : HandleSelectCustomer(c)
           \/ \E kind \in {"end", "release"} : HandleOpenModal(kind)
           \/ UNCHANGED queueVars
  BY <1>1, <1>7 DEF HandleQueueEvent, HandleSelectCustomer, HandleOpenModal, queueVars
<1> QED
  BY <1>2, <1>3, <1>4, <1>5, <1>6, <1>7, <1>8 DEF QueueNext

\* An event leaves when the page handles it, or with the connection.
LEMMA EventsLeave ==
  ASSUME QueueTyped, [QueueNext]_queueVars, online', NEW e \in events, e \notin events'
  PROVE  HandleQueueEvent(e)
<1> USE DEF queueServer, queueNet
<1>1. ASSUME OthersChange \/ ServeClaim \/ CloseServed PROVE e \in events'
  <2>1. UNCHANGED events \/ \E c \in Chats : RowMoved(c) \/ RowAnswered(c)
    BY <1>1, OthersMove, ServeClaimMoves, CloseServedMoves
  <2> QED
    BY <2>1 DEF RowMoved, RowAnswered, EventSent
<1>9. ASSUME NEW u \in Unlocked, Save(u) \/ \E c \in Chats : ReadToSave(u, c) PROVE e \in events'
  <2>1. UNCHANGED events \/ \E c \in Chats : RowMoved(c) \/ RowLost(c)
    BY <1>9, SaveMoves DEF ReadToSave
  <2> QED
    BY <2>1 DEF RowMoved, RowLost, EventSent
<1>2. ASSUME \/ HandleQueueRetry \/ Connect \/ RouteChanges \/ HandleClaimSession
             \/ ClaimSucceeds \/ ClaimFails \/ HandleCancelModal \/ HandleConfirm
             \/ CloseSucceeds \/ CloseFails
      PROVE  e \in events'
  BY <1>2 DEF HandleQueueRetry, Connect, RouteChanges, HandleClaimSession, ClaimSucceeds,
              ClaimFails, HandleCancelModal, HandleConfirm, CloseSucceeds, CloseFails
<1>3. ASSUME NEW r \in readings,
             \/ GetActiveQueue(r) \/ LoadArrives(r) \/ LoadFails(r)
             \/ SynchronizedAfterClaim(r) \/ NotSynchronizedAfterClaim(r)
      PROVE  e \in events'
  BY <1>3 DEF GetActiveQueue, LoadArrives, LoadFails, SynchronizedAfterClaim,
              NotSynchronizedAfterClaim
<1>4. ASSUME NEW f \in events, HandleQueueEvent(f), f # e PROVE e \in events'
  BY <1>4 DEF HandleQueueEvent
<1>5. ASSUME NEW c \in Chats, HandleSelectCustomer(c) PROVE e \in events'
  BY <1>5 DEF HandleSelectCustomer
<1>6. ASSUME NEW kind \in {"end", "release"}, HandleOpenModal(kind) PROVE e \in events'
  BY <1>6 DEF HandleOpenModal
<1>7. ~ConnectionLost
  BY DEF ConnectionLost
<1>8. ASSUME UNCHANGED queueVars PROVE e \in events'
  BY <1>8 DEF queueVars
<1> QED
  BY <1>1, <1>2, <1>3, <1>4, <1>5, <1>6, <1>7, <1>8, <1>9 DEF QueueNext

\* The connection is lost and found by its own steps.
LEMMA ConnectionSteps ==
  ASSUME QueueTyped, [QueueNext]_queueVars, ~online, online'
  PROVE  Connect
<1> USE DEF queueServer, queueNet
<1>0. ASSUME NEW u \in Unlocked, Save(u) \/ \E c \in Chats : ReadToSave(u, c) PROVE FALSE
  BY <1>0 DEF Save, ReadToSave
<1>1. ASSUME \/ OthersChange \/ ServeClaim \/ CloseServed \/ ConnectionLost
             \/ HandleQueueRetry \/ RouteChanges \/ HandleClaimSession
             \/ ClaimSucceeds \/ ClaimFails \/ HandleCancelModal \/ HandleConfirm
             \/ CloseSucceeds \/ CloseFails
      PROVE  FALSE
  BY <1>1 DEF OthersChange, ServeClaim, CloseServed, ConnectionLost,
              HandleQueueRetry, RouteChanges, HandleClaimSession, ClaimSucceeds,
              ClaimFails, HandleCancelModal, HandleConfirm, CloseSucceeds, CloseFails
<1>2. ASSUME NEW r \in readings,
             \/ GetActiveQueue(r) \/ LoadArrives(r) \/ LoadFails(r)
             \/ SynchronizedAfterClaim(r) \/ NotSynchronizedAfterClaim(r)
      PROVE  FALSE
  BY <1>2 DEF GetActiveQueue, LoadArrives, LoadFails, SynchronizedAfterClaim,
              NotSynchronizedAfterClaim
<1>3. ASSUME NEW e \in events, HandleQueueEvent(e) PROVE FALSE
  BY <1>3 DEF HandleQueueEvent
<1>4. ASSUME NEW c \in Chats, HandleSelectCustomer(c) PROVE FALSE
  BY <1>4 DEF HandleSelectCustomer
<1>5. ASSUME NEW kind \in {"end", "release"}, HandleOpenModal(kind) PROVE FALSE
  BY <1>5 DEF HandleOpenModal
<1>6. ASSUME UNCHANGED queueVars PROVE FALSE
  BY <1>6 DEF queueVars
<1> QED
  BY <1>0, <1>1, <1>2, <1>3, <1>4, <1>5, <1>6 DEF QueueNext

\* A request is begun, served or settled.
LEMMA ClaimSteps ==
  ASSUME QueueTyped, [QueueNext]_queueVars
  PROVE  \/ UNCHANGED claim
         \/ ServeClaim
         \/ HandleClaimSession /\ claim'.answer = "none" /\ claim'.chat = desk.active
         \/ claim' = NoClaim
<1> USE DEF queueServer, queueNet
<1>1. CASE HandleClaimSession
  BY <1>1, ClaimBegins
<1>2. CASE ClaimSucceeds \/ ClaimFails
  BY <1>2 DEF ClaimSucceeds, ClaimFails
<1>3. CASE \/ OthersChange \/ HandleQueueRetry \/ Connect \/ ConnectionLost \/ RouteChanges
           \/ HandleCancelModal \/ HandleConfirm \/ CloseServed \/ CloseSucceeds \/ CloseFails
  BY <1>3 DEF OthersChange, HandleQueueRetry, Connect, ConnectionLost, RouteChanges,
              HandleCancelModal, HandleConfirm, CloseServed, CloseSucceeds, CloseFails
<1>4. ASSUME NEW r \in readings,
             \/ GetActiveQueue(r) \/ LoadArrives(r) \/ LoadFails(r)
             \/ SynchronizedAfterClaim(r) \/ NotSynchronizedAfterClaim(r)
      PROVE  UNCHANGED claim
  BY <1>4 DEF GetActiveQueue, LoadArrives, LoadFails, SynchronizedAfterClaim,
              NotSynchronizedAfterClaim
<1>5. ASSUME NEW e \in events, HandleQueueEvent(e) PROVE UNCHANGED claim
  BY <1>5 DEF HandleQueueEvent
<1>6. ASSUME NEW c \in Chats, HandleSelectCustomer(c) PROVE UNCHANGED claim
  BY <1>6 DEF HandleSelectCustomer
<1>7. ASSUME NEW kind \in {"end", "release"}, HandleOpenModal(kind) PROVE UNCHANGED claim
  BY <1>7 DEF HandleOpenModal
<1>8. CASE UNCHANGED queueVars
  BY <1>8 DEF queueVars
<1>9. ASSUME NEW u \in Unlocked, Save(u) \/ \E c \in Chats : ReadToSave(u, c) PROVE UNCHANGED claim
  BY <1>9 DEF Save, ReadToSave
<1> QED
  BY <1>1, <1>2, <1>3, <1>4, <1>5, <1>6, <1>7, <1>8, <1>9 DEF QueueNext

\* The same of an end or a release.
LEMMA CloseSteps ==
  ASSUME QueueTyped, [QueueNext]_queueVars
  PROVE  \/ UNCHANGED close
         \/ CloseServed
         \/ HandleConfirm /\ close'.answer = "none"
         \/ close' = NoClose
<1> USE DEF queueServer, queueNet
<1>1. CASE HandleConfirm
  BY <1>1, CloseBegins
<1>2. CASE CloseSucceeds \/ CloseFails
  BY <1>2 DEF CloseSucceeds, CloseFails
<1>3. CASE \/ OthersChange \/ HandleQueueRetry \/ Connect \/ ConnectionLost \/ RouteChanges
           \/ HandleClaimSession \/ ServeClaim \/ ClaimSucceeds \/ ClaimFails \/ HandleCancelModal
  BY <1>3 DEF OthersChange, HandleQueueRetry, Connect, ConnectionLost, RouteChanges,
              HandleClaimSession, ServeClaim, ClaimSucceeds, ClaimFails, HandleCancelModal
<1>4. ASSUME NEW r \in readings,
             \/ GetActiveQueue(r) \/ LoadArrives(r) \/ LoadFails(r)
             \/ SynchronizedAfterClaim(r) \/ NotSynchronizedAfterClaim(r)
      PROVE  UNCHANGED close
  BY <1>4 DEF GetActiveQueue, LoadArrives, LoadFails, SynchronizedAfterClaim,
              NotSynchronizedAfterClaim
<1>5. ASSUME NEW e \in events, HandleQueueEvent(e) PROVE UNCHANGED close
  BY <1>5 DEF HandleQueueEvent
<1>6. ASSUME NEW c \in Chats, HandleSelectCustomer(c) PROVE UNCHANGED close
  BY <1>6 DEF HandleSelectCustomer
<1>7. ASSUME NEW kind \in {"end", "release"}, HandleOpenModal(kind) PROVE UNCHANGED close
  BY <1>7 DEF HandleOpenModal
<1>8. CASE UNCHANGED queueVars
  BY <1>8 DEF queueVars
<1>9. ASSUME NEW u \in Unlocked, Save(u) \/ \E c \in Chats : ReadToSave(u, c) PROVE UNCHANGED close
  BY <1>9 DEF Save, ReadToSave
<1> QED
  BY <1>1, <1>2, <1>3, <1>4, <1>5, <1>6, <1>7, <1>8, <1>9 DEF QueueNext

\* The answers that are entered in the queue: the others come when the
\* conversation is not listed any more.
ClaimEntered == ClaimSucceeds /\ desk.queue[claim.chat].listed

CloseEntered == CloseSucceeds /\ (close.kind = "end" \/ desk.queue[close.chat].listed)

\* The steps that tell the page of a row or of all, and the others.
Telling ==
  \/ \E r \in readings : LoadArrives(r) \/ SynchronizedAfterClaim(r)
  \/ \E e \in events : HandleQueueEvent(e)
  \/ ClaimEntered \/ CloseEntered

\* The others tell the page of nothing.
LEMMA OthersTellNothing ==
  ASSUME [QueueNext]_queueVars, ~Telling
  PROVE  UNCHANGED seen
<1>1. CASE \/ OthersChange \/ HandleQueueRetry \/ Connect \/ ConnectionLost \/ RouteChanges
           \/ HandleClaimSession \/ ServeClaim \/ ClaimFails \/ HandleCancelModal
           \/ HandleConfirm \/ CloseServed \/ CloseFails
  BY <1>1 DEF OthersChange, HandleQueueRetry, Connect, ConnectionLost, RouteChanges,
     HandleClaimSession, ServeClaim, ClaimFails, HandleCancelModal, HandleConfirm, CloseServed,
     CloseFails
<1>2. CASE \/ \E r \in readings :
                GetActiveQueue(r) \/ LoadFails(r) \/ NotSynchronizedAfterClaim(r)
           \/ \E c \in Chats : HandleSelectCustomer(c)
           \/ \E kind \in {"end", "release"} : HandleOpenModal(kind)
           \/ UNCHANGED queueVars
  BY <1>2 DEF GetActiveQueue, LoadFails, NotSynchronizedAfterClaim, HandleSelectCustomer,
     HandleOpenModal, queueVars
<1>3. ASSUME NEW u \in Unlocked, Save(u) \/ \E c \in Chats : ReadToSave(u, c) PROVE UNCHANGED seen
  BY <1>3 DEF Save, ReadToSave
<1>4. CASE ClaimSucceeds /\ ~ClaimEntered
  BY <1>4 DEF ClaimSucceeds, ClaimEntered
<1>5. CASE CloseSucceeds /\ ~CloseEntered
  BY <1>5 DEF CloseSucceeds, CloseEntered
<1> QED
  BY <1>1, <1>2, <1>3, <1>4, <1>5 DEF QueueNext, Telling

\* The page never unlearns, and is never told of a change to come.
LEMMA SeenSteps ==
  ASSUME QueueTyped, Informed, [QueueNext]_queueVars
  PROVE  \A c \in Chats : seen'[c] >= seen[c] /\ seen'[c] <= sessionRow'[c].at
<1> USE DEF queueServer, queueNet
<1>0. /\ HistoryTyped /\ sessionRow \in [Chats -> Row] /\ changes \in Nat
      /\ \A c \in Chats : seen[c] \in Nat /\ sessionRow[c].at \in Nat /\ seen[c] <= sessionRow[c].at
      /\ \A row \in Row : row.at \in Nat
  BY TypedNumbers DEF QueueTyped, Informed
<1>1. CASE ~Telling
  <2>1. UNCHANGED seen
    BY <1>1, OthersTellNothing
  <2>2. \A c \in Chats : sessionRow[c].at <= sessionRow'[c].at /\ sessionRow'[c].at \in Nat
    <3>1. \A c \in Chats : sessionRow[c].at <= sessionRow'[c].at /\ sessionRow'[c] \in Row
      BY PastLasts DEF Past
    <3> QED
      BY <1>0, <3>1
  <2> QED
    BY <1>0, <2>1, <2>2
<1>2. ASSUME NEW m \in Chats, NEW row \in Row, ToldOf(m, row), UNCHANGED queueServer,
             Past(row, sessionRow[m])
      PROVE  \A c \in Chats : seen'[c] >= seen[c] /\ seen'[c] <= sessionRow'[c].at
  <2>1. /\ \A x \in Chats \ {m} : seen'[x] = seen[x]
        /\ seen'[m] >= seen[m] /\ seen'[m] \in {seen[m], row.at}
    BY <1>0, <1>2, ToldOfOne
  <2> QED
    BY <1>0, <1>2, <2>1 DEF Past
<1>3. ASSUME NEW r \in readings, LoadArrives(r) \/ SynchronizedAfterClaim(r)
      PROVE  \A c \in Chats : seen'[c] >= seen[c] /\ seen'[c] <= sessionRow'[c].at
  <2>1. ToldOfAll(r) /\ r.read /\ UNCHANGED queueServer
    BY <1>3 DEF LoadArrives, SynchronizedAfterClaim
  <2>2. r.rows \in [Chats -> Row]
    BY <2>1, TypedClaims DEF ReadingTyped
  <2>3. \A x \in Chats : seen'[x] >= seen[x] /\ seen'[x] \in {seen[x], r.rows[x].at}
    BY <1>0, <2>1, <2>2, ToldByReading
  <2>4. \A x \in Chats : r.rows[x].at <= sessionRow[x].at
    BY <2>1 DEF Informed, Past
  <2> QED
    BY <1>0, <2>1, <2>3, <2>4
<1>4. CASE \E e \in events : HandleQueueEvent(e)
  <2>1. PICK e \in events : HandleQueueEvent(e)
    BY <1>4
  <2>2. /\ e.chat \in Chats /\ e.row \in Row /\ ToldOf(e.chat, e.row) /\ UNCHANGED queueServer
        /\ Past(e.row, sessionRow[e.chat])
    BY <2>1 DEF HandleQueueEvent, Informed, QueueTyped, RowsTyped, EventTyped
  <2> QED
    BY <1>2, <2>2
<1>5. CASE ClaimEntered
  <2>1. /\ claim.chat \in Chats /\ claim.row \in Row /\ ToldOf(claim.chat, claim.row)
        /\ UNCHANGED queueServer /\ Past(claim.row, sessionRow[claim.chat])
    BY <1>5, ClaimSucceedsMoves DEF ClaimEntered, ClaimSucceeds, Informed
  <2> QED
    BY <1>2, <2>1
<1>6. CASE CloseEntered
  <2>1. /\ close.chat \in Chats /\ close.row \in Row /\ ToldOf(close.chat, close.row)
        /\ UNCHANGED queueServer /\ Past(close.row, sessionRow[close.chat])
    BY <1>6, CloseSucceedsMoves DEF CloseEntered, CloseSucceeds, Informed
  <2> QED
    BY <1>2, <2>1
<1> QED
  BY <1>1, <1>3, <1>4, <1>5, <1>6 DEF Telling

-----------------------------------------------------------------------------

\* What is told of rows stays true of them.
LEMMA InformedStep ==
  ASSUME QueueTyped, Informed, [QueueNext]_queueVars
  PROVE  Informed'
<1>0. /\ sessionRow \in [Chats -> Row]
      /\ \A e \in events : e.chat \in Chats /\ e.row \in Row
  BY DEF QueueTyped, RowsTyped, EventTyped
<1>1. \A c \in Chats : /\ Past(sessionRow'[c], sessionRow'[c])
                       /\ sessionRow'[c].at <= changes'
                       /\ seen'[c] <= sessionRow'[c].at
  BY PastLasts, SeenSteps
<1>2. \A c \in Chats, row \in Row : Past(row, sessionRow[c]) => Past(row, sessionRow'[c])
  BY PastLasts
<1>3. ASSUME NEW s \in readings', s.read, NEW c \in Chats
      PROVE  Past(s.rows[c], sessionRow'[c])
  <2>1. CASE s.rows = sessionRow /\ UNCHANGED queueServer
    BY <1>1, <2>1 DEF queueServer
  <2>2. CASE \E r \in readings : r.read /\ s.rows = r.rows
    <3>1. PICK r \in readings : r.read /\ s.rows = r.rows
      BY <2>2
    <3>2. Past(r.rows[c], sessionRow[c]) /\ r.rows[c] \in Row
      BY <3>1 DEF Informed, Past
    <3> QED
      BY <1>2, <3>1, <3>2
  <2> QED
    BY <1>3, <2>1, <2>2, ReadingSteps
<1>4. ASSUME NEW e \in events' PROVE Past(e.row, sessionRow'[e.chat])
  <2>1. CASE e \in events
    BY <1>0, <1>2, <2>1 DEF Informed
  <2>2. CASE \E c \in Chats, type \in {"upserted", "removed"} : e = Event(c, sessionRow'[c], type)
    BY <1>1, <2>2 DEF Event
  <2> QED
    BY <2>1, <2>2, ServerSteps DEF RowMoved, RowLost, RowAnswered, EventSent
<1>5. ASSUME claim'.answer = "ok" PROVE Past(claim'.row, sessionRow'[claim'.chat])
  <2>1. CASE UNCHANGED claim
    <3>1. claim.chat \in Chats /\ claim.row \in Row
      BY <1>5, <2>1, TypedClaims DEF QueueTyped, ClaimTyped, ClaimForm
    <3> QED
      BY <1>2, <1>5, <2>1, <3>1 DEF Informed
  <2>2. CASE ServeClaim
    <3>1. claim.chat \in Chats /\ claim'.chat = claim.chat /\ claim'.row = sessionRow'[claim.chat]
      BY <1>5, <2>2, ServeClaimMoves
    <3> QED
      BY <1>1, <3>1
  <2>3. CASE claim' = NoClaim \/ claim'.answer = "none"
    BY <1>5, <2>3 DEF NoClaim
  <2> QED
    BY <2>1, <2>2, <2>3, ClaimSteps
<1>6. ASSUME close'.answer = "ok" PROVE Past(close'.row, sessionRow'[close'.chat])
  <2>1. CASE UNCHANGED close
    <3>1. close.chat \in Chats /\ close.row \in Row
      BY <1>6, <2>1 DEF QueueTyped, CloseTyped, CloseForm, NoClose
    <3> QED
      BY <1>2, <1>6, <2>1, <3>1 DEF Informed
  <2>2. CASE CloseServed
    <3>1. close.chat \in Chats /\ close'.chat = close.chat /\ close'.row = sessionRow'[close.chat]
      BY <1>6, <2>2, CloseServedMoves
    <3> QED
      BY <1>1, <3>1
  <2>3. CASE close' = NoClose \/ close'.answer = "none"
    BY <1>6, <2>3 DEF NoClose
  <2> QED
    BY <2>1, <2>2, <2>3, CloseSteps
<1> QED
  BY <1>1, <1>3, <1>4, <1>5, <1>6 DEF Informed

-----------------------------------------------------------------------------
(* What a step tells, and shows *)

\* A reading has replaced what is listed.
ReadTold(r) ==
  /\ r.read /\ r.rows \in [Chats -> Row] /\ ToldOfAll(r)
  /\ ShowsRows(desk', r.rows)
  /\ UNCHANGED <<queueServer, events, online>>

\* One entry has been replaced or removed.
OneTold(m, row) ==
  /\ ToldOf(m, row) /\ Past(row, sessionRow[m])
  /\ UNCHANGED <<queueServer, online>>
  /\ SameElsewhere(desk, desk', m)
  /\ ShowsRow(desk', m, row) \/ (row.status \notin Operational /\ ~desk'.queue[m].listed)

\* Every step that tells is one of the two.
LEMMA TellingTells ==
  ASSUME QueueTyped, Informed, Telling
  PROVE  \/ \E r \in readings : ReadTold(r)
         \/ \E m \in Chats, row \in Row : OneTold(m, row)
<1>1. ASSUME NEW r \in readings, LoadArrives(r) PROVE ReadTold(r)
  <2>1. r.read /\ r.rows \in [Chats -> Row]
    BY <1>1, TypedClaims DEF LoadArrives, ReadingTyped
  <2> QED
    BY <1>1, <2>1, LoadArrivesMoves DEF LoadArrives, ReadTold
<1>2. ASSUME NEW r \in readings, SynchronizedAfterClaim(r) PROVE ReadTold(r)
  <2>1. r.read /\ r.rows \in [Chats -> Row]
    BY <1>2, TypedClaims DEF SynchronizedAfterClaim, ReadingTyped
  <2> QED
    BY <1>2, <2>1, SynchronizedMoves DEF SynchronizedAfterClaim, ReadTold
<1>3. ASSUME NEW e \in events, HandleQueueEvent(e)
      PROVE  e.chat \in Chats /\ e.row \in Row /\ OneTold(e.chat, e.row)
  <2>1. Past(e.row, sessionRow[e.chat]) /\ EventTyped(e)
    BY DEF Informed, QueueTyped, RowsTyped
  <2>2. e.type # "upserted" => e.row.status \notin Operational
    BY <2>1 DEF EventTyped, Finished, Operational
  <2>3. ToldOf(e.chat, e.row) /\ UNCHANGED <<queueServer, online>>
    BY <1>3 DEF HandleQueueEvent
  <2> QED
    BY <1>3, <2>1, <2>2, <2>3, EventMoves DEF OneTold, EventTyped
<1>4. ASSUME ClaimEntered
      PROVE  claim.chat \in Chats /\ claim.row \in Row /\ OneTold(claim.chat, claim.row)
  <2>1. ClaimSucceeds /\ desk.queue[claim.chat].listed
    BY <1>4 DEF ClaimEntered
  <2>2. Past(claim.row, sessionRow[claim.chat])
    BY <2>1 DEF ClaimSucceeds, Informed
  <2>3. ToldOf(claim.chat, claim.row) /\ UNCHANGED <<queueServer, online>>
    BY <2>1 DEF ClaimSucceeds
  <2> QED
    BY <2>1, <2>2, <2>3, ClaimSucceedsMoves DEF OneTold
<1>5. ASSUME CloseEntered
      PROVE  close.chat \in Chats /\ close.row \in Row /\ OneTold(close.chat, close.row)
  <2>1. CloseSucceeds /\ (close.kind = "end" \/ desk.queue[close.chat].listed)
    BY <1>5 DEF CloseEntered
  <2>2. /\ Past(close.row, sessionRow[close.chat])
        /\ close.kind = "end" => close.row.status \notin Operational
    BY <2>1 DEF CloseSucceeds, Informed, QueueTyped, CloseTyped, Finished, Operational
  <2>3. ToldOf(close.chat, close.row) /\ UNCHANGED <<queueServer, online>>
    BY <2>1 DEF CloseSucceeds
  <2> QED
    BY <2>1, <2>2, <2>3, CloseSucceedsMoves DEF OneTold
<1> QED
  BY <1>1, <1>2, <1>3, <1>4, <1>5 DEF Telling

\* A conversation that was not listed and is not is listed as before.
LEMMA NotListedHere ==
  ASSUME QueueTyped, desk' \in Desk, NEW c,
         SameElsewhere(desk, desk', c), ~desk.queue[c].listed, ~desk'.queue[c].listed
  PROVE  SameQueue(desk, desk')
<1> SUFFICES ASSUME NEW x \in Chats PROVE SameEntry(desk.queue[x], desk'.queue[x])
  BY DEF SameQueue
<1>1. desk.queue[x].listed \in BOOLEAN /\ desk'.queue[x].listed \in BOOLEAN
  BY DEF QueueTyped, Desk, Customer
<1> QED
  BY <1>1 DEF SameElsewhere, SameEntry

\* The other steps list no conversation in another way, and excuse nothing.
LEMMA OthersListNothing ==
  ASSUME QueueTyped, [QueueNext]_queueVars, ~Telling
  PROVE  SameQueue(desk, desk') /\ excuses \subseteq excuses' /\ UNCHANGED seen
<1> USE DEF queueServer, queueNet
<1>0. UNCHANGED seen
  BY OthersTellNothing
<1>1. CASE UNCHANGED <<desk, excuses>>
  BY <1>0, <1>1 DEF SameQueue, SameEntry
<1>2. CASE OthersChange \/ ConnectionLost \/ ServeClaim \/ ClaimFails \/ CloseServed
  BY <1>1, <1>2 DEF OthersChange, ConnectionLost, ServeClaim, ClaimFails, CloseServed
<1>3. CASE HandleQueueRetry
  <2>1. desk'.queue = desk.queue
    BY <1>3, LoadBegins DEF HandleQueueRetry, QueueTyped, ReadingsTyped
  <2> QED
    BY <1>0, <1>3, <2>1 DEF SameQueue, SameEntry, HandleQueueRetry
<1>4. CASE Connect
  <2>1. desk'.queue = desk.queue /\ excuses \subseteq excuses'
    BY <1>4, ConnectMoves
  <2> QED
    BY <1>0, <2>1 DEF SameQueue, SameEntry
<1>5. CASE RouteChanges
  <2>1. UNCHANGED excuses
    BY <1>5 DEF RouteChanges
  <2> QED
    BY <1>0, <1>5, <2>1, RouteMoves
<1>6. CASE HandleClaimSession \/ HandleCancelModal \/ HandleConfirm \/ CloseFails
  <2>1. Standing(desk') = Standing(desk)
    BY <1>6, ClaimBegins, ModalCancels, CloseBegins, CloseFailsMoves
  <2>2. UNCHANGED excuses
    BY <1>6 DEF HandleClaimSession, HandleCancelModal, HandleConfirm, CloseFails
  <2> QED
    BY <1>0, <2>1, <2>2 DEF Standing, SameQueue, SameEntry
<1>7. ASSUME NEW r \in readings, GetActiveQueue(r) PROVE UNCHANGED <<desk, excuses>>
  BY <1>7 DEF GetActiveQueue
<1>8. ASSUME NEW r \in readings, LoadFails(r) \/ NotSynchronizedAfterClaim(r)
      PROVE  SameQueue(desk, desk') /\ excuses \subseteq excuses'
  <2>1. excuses \subseteq excuses'
    BY <1>8 DEF LoadFails, NotSynchronizedAfterClaim
  <2> QED
    BY <1>8, <2>1, LoadFailsMoves, NotSynchronizedMoves
<1>9. ASSUME NEW c \in Chats, HandleSelectCustomer(c)
      PROVE  SameQueue(desk, desk') /\ excuses \subseteq excuses'
  <2>1. UNCHANGED excuses
    BY <1>9 DEF HandleSelectCustomer
  <2> QED
    BY <1>9, <2>1, SelectMoves
<1>10. ASSUME NEW kind \in {"end", "release"}, HandleOpenModal(kind)
       PROVE  SameQueue(desk, desk') /\ excuses \subseteq excuses'
  <2>1. Standing(desk') = Standing(desk)
    BY <1>10, ModalOpens
  <2>2. UNCHANGED excuses
    BY <1>10 DEF HandleOpenModal
  <2> QED
    BY <2>1, <2>2 DEF Standing, SameQueue, SameEntry
<1>11. CASE UNCHANGED queueVars
  BY <1>1, <1>11 DEF queueVars
<1>12. ASSUME NEW u \in Unlocked, Save(u) \/ \E c \in Chats : ReadToSave(u, c)
       PROVE  UNCHANGED desk /\ excuses \subseteq excuses'
  BY <1>12, SaveMoves DEF Save, ReadToSave
<1>13. CASE ClaimSucceeds /\ ~ClaimEntered
  <2>1. ~desk.queue[claim.chat].listed /\ UNCHANGED excuses
    BY <1>13 DEF ClaimSucceeds, ClaimEntered
  <2>2. SameElsewhere(desk, desk', claim.chat) /\ ~desk'.queue[claim.chat].listed
    BY <1>13, <2>1, ClaimSucceedsMoves
  <2> QED
    BY <1>0, <2>1, <2>2, QueueStepType, NotListedHere DEF QueueTyped
<1>14. CASE CloseSucceeds /\ ~CloseEntered
  <2>1. ~desk.queue[close.chat].listed /\ UNCHANGED excuses
    BY <1>14 DEF CloseSucceeds, CloseEntered
  <2>2. SameElsewhere(desk, desk', close.chat) /\ ~desk'.queue[close.chat].listed
    BY <1>14, <2>1, CloseSucceedsMoves
  <2> QED
    BY <1>0, <2>1, <2>2, QueueStepType, NotListedHere DEF QueueTyped
<1> QED
  BY <1>0, <1>1, <1>2, <1>3, <1>4, <1>5, <1>6, <1>7, <1>8, <1>9, <1>10, <1>11, <1>12, <1>13, <1>14
  DEF QueueNext, Telling, SameQueue, SameEntry

-----------------------------------------------------------------------------
(* What was told last is what is listed *)

\* The page knows the row as it is.
Current(c) == seen[c] = sessionRow[c].at

\* Unless something older came after something younger.
TruthListed ==
  "overtaken" \notin excuses =>
    \A c \in Chats : Current(c) => Agrees(desk.queue[c], sessionRow[c])

\* What was told last of a row agrees with it.
LEMMA ToldAgrees ==
  ASSUME NEW q, NEW row \in Row, NEW now \in Row, Past(row, now), row.at = now.at,
         \/ q.listed /\ q.status = row.status /\ q.counselor = row.counselor /\ q.said = row.said
         \/ ~q.listed /\ row.status \notin Operational
  PROVE  Agrees(q, now)
BY DEF Past, Agrees

\* What is listed is what was told last.
LEMMA TruthStep ==
  ASSUME QueueTyped, Informed, TruthListed, [QueueNext]_queueVars
  PROVE  TruthListed'
<1>0. /\ \A c \in Chats : seen[c] \in Nat /\ seen[c] <= changes /\ sessionRow[c] \in Row
      /\ changes \in Nat /\ HistoryTyped /\ sessionRow \in [Chats -> Row]
  <2>1. \A c \in Chats : seen[c] <= sessionRow[c].at /\ sessionRow[c].at <= changes
    BY DEF Informed
  <2> QED
    BY <2>1, TypedNumbers DEF QueueTyped
<1> SUFFICES ASSUME "overtaken" \notin excuses', NEW c \in Chats, seen'[c] = sessionRow'[c].at
             PROVE  Agrees(desk'.queue[c], sessionRow'[c])
  BY DEF TruthListed, Current
<1>1. CASE ~Telling
  <2>1. SameEntry(desk.queue[c], desk'.queue[c]) /\ "overtaken" \notin excuses /\ UNCHANGED seen
    BY <1>1, OthersListNothing DEF SameQueue
  <2>2. seen[c] = sessionRow[c].at => Agrees(desk.queue[c], sessionRow[c])
    BY <2>1 DEF TruthListed, Current
  <2>3. ~RowsMoved(c)
    <3>1. RowsMoved(c) => sessionRow'[c].at = changes + 1
      BY DEF RowsMoved
    <3> QED
      BY <1>0, <2>1, <3>1
  <2>4. CASE sessionRow'[c] = sessionRow[c]
    BY <2>1, <2>2, <2>4 DEF SameEntry, Agrees
  <2>5. CASE RowAnswered(c)
    <3>1. /\ sessionRow'[c].at = sessionRow[c].at /\ sessionRow'[c].status = sessionRow[c].status
          /\ sessionRow'[c].counselor = sessionRow[c].counselor /\ ~sessionRow'[c].said
      BY <1>0, <2>5 DEF RowAnswered, Row
    <3> QED
      BY <2>1, <2>2, <3>1 DEF SameEntry, Agrees
  <2> QED
    BY <2>3, <2>4, <2>5, RowSteps DEF RowMoved, RowLost
<1>2. ASSUME NEW r \in readings, ReadTold(r) PROVE Agrees(desk'.queue[c], sessionRow'[c])
  <2> DEFINE row == r.rows[c]
  <2>1. row \in Row /\ sessionRow' = sessionRow /\ Past(row, sessionRow[c])
    BY <1>2 DEF ReadTold, queueServer, Informed
  <2>2. seen'[c] = row.at
    BY <1>0, <1>2, ToldByReading DEF ReadTold
  <2>3. SameEntry(Listed(r.rows)[c], desk'.queue[c])
    BY <1>2 DEF ReadTold, ShowsRows
  <2>4. Listed(r.rows)[c] = IF row.status \in Operational THEN ToQueueCustomer(row, FALSE) ELSE NotListed
    BY DEF Listed
  <2> HIDE DEF row
  <2>5. LET q == desk'.queue[c]
        IN  \/ q.listed /\ q.status = row.status /\ q.counselor = row.counselor /\ q.said = row.said
            \/ ~q.listed /\ row.status \notin Operational
    BY <2>3, <2>4, NotListedTyped DEF SameEntry, ToQueueCustomer
  <2> QED
    BY <1>0, <2>1, <2>2, <2>5, ToldAgrees
<1>3. ASSUME NEW m \in Chats, NEW row \in Row, OneTold(m, row)
      PROVE  Agrees(desk'.queue[c], sessionRow'[c])
  <2>1. /\ sessionRow' = sessionRow /\ Past(row, sessionRow[m])
        /\ SameElsewhere(desk, desk', m) /\ ToldOf(m, row)
    BY <1>3 DEF OneTold, queueServer
  <2>2. /\ \A x \in Chats \ {m} : seen'[x] = seen[x]
        /\ excuses \subseteq excuses' /\ seen'[m] = row.at
    BY <1>0, <2>1, ToldOfOne
  <2>3. CASE c # m
    <3>1. seen[c] = sessionRow[c].at => Agrees(desk.queue[c], sessionRow[c])
      BY <2>2 DEF TruthListed, Current
    <3> QED
      BY <2>1, <2>2, <2>3, <3>1 DEF SameElsewhere, SameEntry, Agrees
  <2>4. CASE c = m
    BY <1>0, <1>3, <2>1, <2>2, <2>4, ToldAgrees DEF OneTold, ShowsRow
  <2> QED
    BY <2>3, <2>4
<1> QED
  BY <1>1, <1>2, <1>3, TellingTells

-----------------------------------------------------------------------------
(* While the connection is there, every change is told of or on its way *)

\* An event of the row's latest change is on its way.
Coming(c) == \E e \in events : e.chat = c /\ e.row.at = sessionRow[c].at

\* A sound reading is behind only where an event is to come or has come.
SoundReadings ==
  online => \A r \in readings : r.sound /\ r.read =>
    \A c \in Chats : r.rows[c].at = sessionRow[c].at \/ Coming(c) \/ Current(c)

\* With the connection there and nothing to excuse it, a row the page does not
\* know is in an event on its way, or in a load that will read it or has.
NewsComes ==
  online /\ excuses = {} => \A c \in Chats :
    \/ Current(c) \/ Coming(c)
    \/ \E r \in readings : r.kind = "load" /\ (r.read => r.rows[c].at = sessionRow[c].at)

\* News stays news until it comes.
LEMMA NewsLasts ==
  ASSUME QueueTyped, Informed, [QueueNext]_queueVars, online, online', NEW c \in Chats, ~RowLost(c)
  PROVE  /\ Current(c) \/ Coming(c) => (Current(c) \/ Coming(c))'
         /\ sessionRow'[c].at = sessionRow[c].at \/ Coming(c)'
<1>0. /\ \A x \in Chats : seen[x] \in Nat /\ seen'[x] >= seen[x] /\ seen'[x] <= sessionRow'[x].at
      /\ \A row \in Row : row.at \in Nat
      /\ sessionRow \in [Chats -> Row] /\ sessionRow' \in [Chats -> Row]
      /\ \A x \in Chats : seen'[x] \in Nat
  <2>1. QueueTyped'
    BY QueueStepType
  <2>2. seen' \in [Chats -> 0..MaxChanges] /\ sessionRow' \in [Chats -> Row]
    BY <2>1 DEF QueueTyped, HistoryTyped, RowsTyped
  <2>3. \A x \in Chats : seen'[x] \in Nat
    BY <2>2, Bounded
  <2> QED
    BY <2>2, <2>3, TypedNumbers, SeenSteps
<1>1. CASE RowMoved(c)
  <2>1. \E type \in {"upserted", "removed"} : Event(c, sessionRow'[c], type) \in events'
    BY <1>1 DEF RowMoved, EventSent
  <2>2. Coming(c)'
    BY <2>1 DEF Coming, Event
  <2> QED
    BY <2>2
<1>2. CASE sessionRow'[c].at = sessionRow[c].at
  <2>1. ASSUME Current(c) PROVE Current(c)'
    BY <1>0, <1>2, <2>1 DEF Current
  <2>2. ASSUME NEW e \in events, e.chat = c, e.row.at = sessionRow[c].at, e \notin events'
        PROVE  Current(c)'
    <3>1. HandleQueueEvent(e)
      BY <2>2, EventsLeave
    <3>2. ToldOf(c, e.row) /\ e.row \in Row /\ HistoryTyped
      BY <2>2, <3>1 DEF HandleQueueEvent, QueueTyped, RowsTyped, EventTyped
    <3>3. seen'[c] >= e.row.at
      BY <3>2, ToldOfOne
    <3> QED
      BY <1>0, <1>2, <2>2, <3>2, <3>3 DEF Current
  <2>3. ASSUME Coming(c) PROVE Current(c)' \/ Coming(c)'
    BY <1>2, <2>2, <2>3 DEF Coming
  <2> QED
    BY <1>2, <2>1, <2>3
<1>3. RowAnswered(c) => sessionRow'[c].at = sessionRow[c].at
  BY <1>0 DEF RowAnswered, Row
<1> QED
  BY <1>1, <1>2, <1>3, RowSteps

\* A reading is sound until the row it has read changes without an event.
LEMMA SoundStep ==
  ASSUME QueueTyped, Informed, SoundReadings, [QueueNext]_queueVars
  PROVE  SoundReadings'
<1> SUFFICES ASSUME online', NEW s \in readings', s.sound, s.read, NEW c \in Chats
             PROVE  s.rows[c].at = sessionRow'[c].at \/ Coming(c)' \/ Current(c)'
  BY DEF SoundReadings
<1>0. ~RowLost(c)
  <2>1. ASSUME RowLost(c) PROVE FALSE
    <3>1. PICK r \in readings : s = Sounded(r)
      BY <2>1, DoubtedSounded DEF RowLost
    <3>2. s.sound = ~r.read /\ s.read = r.read
      BY <3>1, TypedClaims, SoundedReading
    <3> QED
      BY <3>2
  <2> QED
    BY <2>1
<1>1. CASE s.rows = sessionRow /\ UNCHANGED queueServer
  BY <1>1 DEF queueServer
<1>2. ASSUME NEW r \in readings, r.read, s.rows = r.rows, r.sound, online
      PROVE  s.rows[c].at = sessionRow'[c].at \/ Coming(c)' \/ Current(c)'
  <2>1. r.rows[c].at = sessionRow[c].at \/ Coming(c) \/ Current(c)
    BY <1>2 DEF SoundReadings
  <2> QED
    BY <1>0, <1>2, <2>1, NewsLasts
<1> QED
  BY <1>1, <1>2, ReadingSteps

\* Excuses end with a reading that is sound.
LEMMA ExcusesSteps ==
  ASSUME QueueTyped, Informed, [QueueNext]_queueVars
  PROVE  \/ excuses \subseteq excuses'
         \/ \E r \in readings : ReadTold(r) /\ ("overtaken" \notin excuses' => r.sound)
<1>1. CASE ~Telling
  BY <1>1, OthersListNothing
<1>2. ASSUME NEW r \in readings, ReadTold(r)
      PROVE  excuses \subseteq excuses' \/ ("overtaken" \notin excuses' => r.sound)
  BY <1>2, ToldByReading DEF ReadTold, QueueTyped
<1>3. ASSUME NEW m \in Chats, NEW row \in Row, OneTold(m, row) PROVE excuses \subseteq excuses'
  BY <1>3, ToldOfOne DEF OneTold, QueueTyped
<1> QED
  BY <1>1, <1>2, <1>3, TellingTells

\* A change sends news; what the connection loses the next load reads.
LEMMA NewsStep ==
  ASSUME QueueTyped, Informed, SoundReadings, NewsComes, [QueueNext]_queueVars
  PROVE  NewsComes'
<1> SUFFICES ASSUME online', excuses' = {}, NEW c \in Chats
             PROVE  \/ Current(c)' \/ Coming(c)'
                    \/ \E s \in readings' : s.kind = "load" /\ (s.read => s.rows[c].at = sessionRow'[c].at)
  BY DEF NewsComes
<1>0. ~RowLost(c)
  BY DEF RowLost
<1>1. CASE ~online
  <2>1. Connect
    BY <1>1, ConnectionSteps
  <2>2. \E s \in readings' : s.kind = "load" /\ ~s.read
    BY <2>1, ConnectMoves
  <2> QED
    BY <2>2
<1>2. CASE online /\ excuses = {}
  <2>1. \/ Current(c) \/ Coming(c)
        \/ \E r \in readings : r.kind = "load" /\ (r.read => r.rows[c].at = sessionRow[c].at)
    BY <1>2 DEF NewsComes
  <2>2. CASE Current(c) \/ Coming(c)
    BY <1>2, <2>2, <1>0, NewsLasts
  <2>3. ASSUME NEW r \in readings, r.kind = "load", r.read => r.rows[c].at = sessionRow[c].at
        PROVE  \/ Current(c)' \/ Coming(c)'
               \/ \E s \in readings' : s.kind = "load" /\ (s.read => s.rows[c].at = sessionRow'[c].at)
    <3>1. CASE LoadFails(r)
      BY <3>1 DEF LoadFails
    <3>2. CASE LoadArrives(r)
      <4>1. r.read /\ ToldOfAll(r) /\ UNCHANGED queueServer /\ r.rows \in [Chats -> Row]
        BY <3>2, TypedClaims DEF LoadArrives, ReadingTyped
      <4>2. seen'[c] = r.rows[c].at
        BY <4>1, ToldByReading DEF QueueTyped
      <4> QED
        BY <2>3, <4>1, <4>2 DEF Current, queueServer
    <3>3. ASSUME NEW s \in readings', s.kind = "load",
                 s.read => (s.rows = r.rows /\ r.read) \/ (s.rows = sessionRow /\ UNCHANGED queueServer)
          PROVE  \/ Current(c)' \/ Coming(c)'
                 \/ s.read => s.rows[c].at = sessionRow'[c].at
      <4>1. sessionRow'[c].at = sessionRow[c].at \/ Coming(c)'
        BY <1>2, <1>0, NewsLasts
      <4> QED
        BY <2>3, <3>3, <4>1 DEF queueServer
    <3> QED
      BY <2>3, <3>1, <3>2, <3>3, LoadSteps
  <2> QED
    BY <2>1, <2>2, <2>3
<1>3. CASE online /\ excuses # {}
  <2>1. PICK r \in readings : ReadTold(r) /\ r.sound
    BY <1>3, ExcusesSteps
  <2>2. /\ r.read /\ r.rows \in [Chats -> Row] /\ ToldOfAll(r) /\ sessionRow' = sessionRow
    BY <2>1 DEF ReadTold, queueServer
  <2>3. seen'[c] = r.rows[c].at
    BY <2>2, ToldByReading DEF QueueTyped
  <2>4. r.rows[c].at = sessionRow[c].at \/ Coming(c) \/ Current(c)
    BY <1>3, <2>1, <2>2 DEF SoundReadings
  <2> QED
    BY <1>3, <2>2, <2>3, <2>4, <1>0, NewsLasts DEF Current
<1> QED
  BY <1>1, <1>2, <1>3 DEF QueueTyped, HistoryTyped

\* A queue at rest shows every waiting or assigned conversation with its status and
\* its counselor, a finished one as finished or not at all, and never misses that
\* the customer spoke last, for every number of conversations, changes, readings
\* and failures: across lost connections, refused requests and stale rows written
\* back, unless an older piece of information came in after a younger one, a failed
\* load was settled by an event, the connection came back during a reading, or a
\* new name was written over a row that had changed.
THEOREM QueueIsMirrored == QueueSpec => []QueueMirrorsServer
<1> DEFINE Mirror == Informed /\ TruthListed /\ SoundReadings /\ NewsComes
<1>1. QueueInit => Mirror
  <2> SUFFICES ASSUME QueueInit PROVE Mirror
    OBVIOUS
  <2>0. QueueTyped
    BY QueueInitType
  <2>1. /\ readings = {Reading("load", NoChat)} /\ events = {} /\ ~online
        /\ claim.answer = "none" /\ close.answer = "none" /\ excuses # {} /\ changes = 0
    BY DEF QueueInit, NoClaim, NoClose
  <2>2. /\ \A r \in readings : ~r.read
        /\ \A c \in Chats : /\ desk.queue[c].listed = FALSE /\ seen[c] = 0
                            /\ sessionRow[c].status = "absent" /\ sessionRow[c].at = 0
                            /\ sessionRow[c] \in Row
    <3>1. \A r \in readings : ~r.read
      BY <2>1 DEF Reading
    <3>2. \A c \in Chats : /\ sessionRow[c].status = "absent" /\ ~sessionRow[c].said
                           /\ sessionRow[c].at = 0 /\ seen[c] = 0
      BY DEF QueueInit, FirstRow
    <3>3. \A c \in Chats : desk.queue[c] = NotListed
      BY DEF QueueInit
    <3>4. \A c \in Chats : sessionRow[c] \in Row
      BY <2>0 DEF QueueTyped, RowsTyped
    <3> QED
      BY <3>1, <3>2, <3>3, <3>4, NotListedTyped DEF NotListed
  <2>3. Informed
    BY <2>1, <2>2 DEF Informed, Past
  <2>4. TruthListed
    BY <2>2 DEF TruthListed, Agrees, Operational
  <2>5. SoundReadings /\ NewsComes
    BY <2>1 DEF SoundReadings, NewsComes
  <2> QED
    BY <2>3, <2>4, <2>5
<1>2. QueueTyped /\ [QueueNext]_queueVars => QueueTyped'
  BY QueueStepType
<1>3. QueueTyped /\ Mirror /\ [QueueNext]_queueVars => Mirror'
  BY InformedStep, TruthStep, SoundStep, NewsStep
<1>4. Mirror => QueueMirrorsServer
  <2> SUFFICES ASSUME Mirror, Calm, excuses = {}, NEW c \in Chats
               PROVE  Agrees(desk.queue[c], sessionRow[c])
    BY DEF QueueMirrorsServer
  <2>1. Current(c)
    BY DEF Calm, NewsComes, Coming
  <2> QED
    BY <2>1 DEF TruthListed
<1> QED
  <2> HIDE DEF Mirror
  <2> QED
    BY <1>1, <1>2, <1>3, <1>4, QueueInitType, PTL DEF QueueSpec

-----------------------------------------------------------------------------
(***************************************************************************)
(* Proofs about ConsultationThread.                                          *)
(*                                                                           *)
(* One inductive invariant, ThreadInv, carries the conversation.  The list holds*)
(* messages of the open conversation, each once (PageShows); a timer runs for*)
(* exactly those being sent (PageWaits); a request that is not an earlier visit's*)
(* is the open conversation's (PageLoads).  While no flaw has come up, what is*)
(* shown or on its way as a broadcast has no gap behind its first message, nor*)
(* before what the next page and the pages under way will bring (PageWhole). *)
(***************************************************************************)

(* The conversation: what its list of messages may hold.                     *)

\* How many messages of a conversation are saved.
SaidIn(c) == IF c = NoChat THEN 0 ELSE Len(said[c])

\* What conversation c may show when n of its messages are saved and the counselor
\* has written k: saved ones, and own ones that are not saved yet.
ShownIn(c, n, k) ==
  {m \in ThreadMessage :
     /\ m.chat = c
     /\ IsStored(m) => m.id = 0 /\ m.state = "sent" /\ m.seq <= n
     /\ ~IsStored(m) => m.id \in 1..k /\ m.state # "sent" /\ m.text \in Replies}

\* No saved message is in the list twice, nor an own one.
Single(q) ==
  \A i, j \in 1..Len(q) : i # j =>
    /\ IsStored(q[i]) => q[i].seq # q[j].seq
    /\ q[i].id # 0 => q[i].id # q[j].id

\* The saved messages come first, by number.
Ordered(q) ==
  \A i, j \in 1..Len(q) : i < j /\ IsStored(q[j]) => IsStored(q[i]) /\ q[i].seq < q[j].seq

\* What is being sent.
SendingIn(q) == {m.id : m \in {m \in ToSet(q) : m.state = "sending"}}

\* What a timer runs for.
WatchedIn(q) == {p.id : p \in ToSet(q)}

PendingMessages(k) == [id : 1..k, chat : Chats, text : Replies]

\* At most one timer for a message.
OneTimerEach(q) == \A i, j \in 1..Len(q) : i # j => q[i].id # q[j].id

\* The bounds, as the provers need them.
LEMMA ThreadBounds ==
  /\ PageSize \in Nat /\ PageSize > 0 /\ MaxSaid \in Nat /\ MaxSent \in Nat /\ MaxLoads \in Nat
  /\ MaxLoads > 0 /\ MaxFailures \in Nat /\ 2 * PageSize + 1 <= MaxSaid /\ NoChat \notin Chats
BY ThreadBoundsAssumption, ChatsAssumption

\* More saved and more written leave more that may be shown.
LEMMA ShownGrows ==
  ASSUME NEW c, NEW n \in Nat, NEW k \in Nat, NEW n2 \in Nat, NEW k2 \in Nat, n <= n2, k <= k2
  PROVE  /\ ShownIn(c, n, k) \subseteq ShownIn(c, n2, k2)
         /\ \A q \in Seq(ShownIn(c, n, k)) : q \in Seq(ShownIn(c, n2, k2))
<1>1. ASSUME NEW m \in ShownIn(c, n, k) PROVE m \in ShownIn(c, n2, k2)
  <2>1. m \in ThreadMessage /\ m.seq \in Nat
    BY ThreadBounds DEF ShownIn, ThreadMessage
  <2> QED
    BY <2>1 DEF ShownIn
<1>2. ShownIn(c, n, k) \subseteq ShownIn(c, n2, k2)
  BY <1>1
<1> QED
  BY <1>2

\* The server's order (messageOrder.ts): every message, the saved ones first and by number.
LEMMA ServerOrder ==
  ASSUME NEW M, M \subseteq ThreadMessage, NEW q \in Seq(M)
  PROVE  /\ SortMessagesByServerOrder(q) \in Seq(M)
         /\ ToSet(SortMessagesByServerOrder(q)) = ToSet(q)
         /\ Single(q) => /\ Single(SortMessagesByServerOrder(q))
                         /\ Ordered(SortMessagesByServerOrder(q))
<1> DEFINE number == [i \in DOMAIN q |-> IF IsStored(q[i]) THEN q[i].seq ELSE MaxSaid + 1]
           s == SortedBy(q, number)
<1>1. /\ DOMAIN q = 1..Len(q) /\ Len(q) \in Nat
      /\ \A i \in 1..Len(q) : q[i] \in M /\ q[i].seq \in 0..MaxSaid
  <2>1. DOMAIN q = 1..Len(q) /\ Len(q) \in Nat /\ \A i \in 1..Len(q) : q[i] \in M
    OBVIOUS
  <2> QED
    BY <2>1 DEF ThreadMessage
<1>2. number \in [1..Len(q) -> Nat]
  BY <1>1, ThreadBounds
<1>3. s = SortMessagesByServerOrder(q)
  BY DEF SortMessagesByServerOrder
<1>n. \A i \in 1..Len(q) : number[i] = IF IsStored(q[i]) THEN q[i].seq ELSE MaxSaid + 1
  BY <1>1
<1> HIDE DEF number
<1>4. s \in Seq(M) /\ Len(s) = Len(q) /\ ToSet(s) = ToSet(q)
  BY <1>2, SortPlaces
<1>5. PICK at \in [1..Len(q) -> 1..Len(q)] :
        /\ \A k \in 1..Len(q) : s[k] = q[at[k]]
        /\ \A i, j \in 1..Len(q) : i < j => at[i] # at[j] /\ number[at[i]] <= number[at[j]]
  BY <1>2, SortPlaces
<1> HIDE DEF s
<1>6. ASSUME Single(q) PROVE Single(s)
  <2>1. \A i, j \in 1..Len(q) : i # j => at[i] # at[j]
    BY <1>1, <1>5
  <2> SUFFICES ASSUME NEW i \in 1..Len(q), NEW j \in 1..Len(q), i # j
               PROVE  /\ IsStored(s[i]) => s[i].seq # s[j].seq
                      /\ s[i].id # 0 => s[i].id # s[j].id
    BY <1>4 DEF Single
  <2>2. s[i] = q[at[i]] /\ s[j] = q[at[j]] /\ at[i] # at[j]
    BY <1>5, <2>1
  <2>3. /\ IsStored(q[at[i]]) => q[at[i]].seq # q[at[j]].seq
        /\ q[at[i]].id # 0 => q[at[i]].id # q[at[j]].id
    BY <1>6, <2>2 DEF Single
  <2> QED
    BY <2>2, <2>3
<1>7. ASSUME Single(q) PROVE Ordered(s)
  <2> SUFFICES ASSUME NEW i \in 1..Len(q), NEW j \in 1..Len(q), i < j, IsStored(s[j])
               PROVE  IsStored(s[i]) /\ s[i].seq < s[j].seq
    BY <1>4 DEF Ordered
  <2>1. /\ at[i] \in 1..Len(q) /\ at[j] \in 1..Len(q) /\ at[i] # at[j]
        /\ s[i] = q[at[i]] /\ s[j] = q[at[j]] /\ number[at[i]] <= number[at[j]]
    BY <1>5
  <2>2. s[i].seq \in 0..MaxSaid /\ s[j].seq \in 0..MaxSaid
    BY <1>1, <2>1
  <2>3. number[at[j]] = s[j].seq
    BY <1>n, <2>1
  <2>4. IsStored(s[i]) /\ number[at[i]] = s[i].seq
    BY <1>n, <2>1, <2>2, <2>3, ThreadBounds
  <2>5. s[i].seq # s[j].seq
    BY <1>7, <2>1, <2>4 DEF Single
  <2> QED
    BY <2>1, <2>2, <2>3, <2>4, <2>5
<1> QED
  BY <1>3, <1>4, <1>6, <1>7

\* One list behind another that has none of its messages.
LEMMA SingleJoined ==
  ASSUME NEW p \in Seq(ThreadMessage), NEW q \in Seq(ThreadMessage), Single(p), Single(q),
         \A m \in ToSet(p), n \in ToSet(q) :
           /\ IsStored(m) \/ IsStored(n) => m.seq # n.seq
           /\ m.id # 0 \/ n.id # 0 => m.id # n.id
  PROVE  Single(p \o q)
<1> DEFINE r == p \o q
<1>1. /\ Len(p) \in Nat /\ Len(q) \in Nat
      /\ \A i \in 1..Len(p) : r[i] = p[i] /\ p[i] \in ToSet(p)
      /\ \A i \in 1..Len(q) : r[Len(p) + i] = q[i] /\ q[i] \in ToSet(q)
      /\ \A i \in 1..Len(r) : i \in 1..Len(p) \/ i - Len(p) \in 1..Len(q)
  BY Concatenated, Lists
<1> HIDE DEF r
<1>2. \A i \in 1..Len(r) : i - Len(p) \in 1..Len(q) => r[i] = q[i - Len(p)] /\ q[i - Len(p)] \in ToSet(q)
  <2> TAKE i \in 1..Len(r)
  <2> HAVE i - Len(p) \in 1..Len(q)
  <2>1. i = Len(p) + (i - Len(p))
    BY <1>1
  <2> QED
    BY <1>1, <2>1
<1>3. ASSUME NEW i \in 1..Len(r), NEW j \in 1..Len(r), i # j
      PROVE  /\ IsStored(r[i]) => r[i].seq # r[j].seq
             /\ r[i].id # 0 => r[i].id # r[j].id
  <2>1. CASE i \in 1..Len(p) /\ j \in 1..Len(p)
    <3>1. r[i] = p[i] /\ r[j] = p[j]
      BY <1>1, <2>1
    <3>2. /\ IsStored(p[i]) => p[i].seq # p[j].seq
          /\ p[i].id # 0 => p[i].id # p[j].id
      BY <1>3, <2>1 DEF Single
    <3> QED
      BY <3>1, <3>2
  <2>2. CASE i \in 1..Len(p) /\ j - Len(p) \in 1..Len(q)
    <3>1. r[i] \in ToSet(p)
      BY <1>1, <2>2
    <3>2. r[j] \in ToSet(q)
      BY <1>2, <2>2
    <3> QED
      BY <3>1, <3>2
  <2>3. CASE i - Len(p) \in 1..Len(q) /\ j \in 1..Len(p)
    <3>1. r[j] \in ToSet(p)
      BY <1>1, <2>3
    <3>2. r[i] \in ToSet(q)
      BY <1>2, <2>3
    <3> QED
      BY <3>1, <3>2
  <2>4. CASE i - Len(p) \in 1..Len(q) /\ j - Len(p) \in 1..Len(q)
    <3>1. i - Len(p) # j - Len(p)
      BY <1>1, <1>3
    <3> DEFINE a == i - Len(p)
               b == j - Len(p)
    <3>2. a \in 1..Len(q) /\ b \in 1..Len(q) /\ a # b /\ r[i] = q[a] /\ r[j] = q[b]
      BY <1>2, <2>4, <3>1
    <3> HIDE DEF a, b
    <3> QED
      BY <3>2 DEF Single
  <2> QED
    BY <1>1, <2>1, <2>2, <2>3, <2>4
<1> QED
  BY <1>3 DEF Single, r

\* An answer with a page of a conversation's messages.
IsAnswer(l) ==
  /\ l.chat \in Chats /\ l.page \in Nat /\ l.upTo \in Nat
  /\ said[l.chat] \in Seq(Replies \cup {FromCustomer})
  /\ l.upTo <= Len(said[l.chat]) /\ Len(said[l.chat]) <= MaxSaid

\* The numbers of the page that a list does not show.
NotShown(l, q) == {i \in PageOf(l.chat, l.page, l.upTo) : ~Shows(q, i)}

\* The messages of a page the thread does not show yet.
LEMMA PageFacts ==
  ASSUME NEW l, IsAnswer(l), NEW shown, NEW k \in Nat
  PROVE  /\ PageMessages(l, shown) \in Seq(ShownIn(l.chat, Len(said[l.chat]), k))
         /\ ToSet(PageMessages(l, shown)) = {Stored(l.chat, i) : i \in NotShown(l, shown)}
         /\ \A i \in NotShown(l, shown) : i \in 1..l.upTo
         /\ Single(PageMessages(l, shown))
         /\ Ordered(PageMessages(l, shown))
         /\ \A i \in 1..Len(PageMessages(l, shown)) : IsStored(PageMessages(l, shown)[i])
<1> DEFINE c == l.chat
           u == l.upTo
           N == NotShown(l, shown)
           M == ShownIn(c, Len(said[c]), k)
           all == [i \in 1..u |-> Stored(c, i)]
           S == {Stored(c, i) : i \in N}
           P == Filter(all, S)
<1>g. /\ c \in Chats /\ u \in Nat /\ u <= Len(said[c]) /\ Len(said[c]) <= MaxSaid
      /\ said[c] \in Seq(Replies \cup {FromCustomer})
  BY DEF IsAnswer
<1>0. N \subseteq 1..u
  BY DEF PageOf, NotShown
<1>1. \A i \in 1..u : Stored(c, i) \in M /\ Stored(c, i).seq = i /\ Stored(c, i).id = 0
  <2> TAKE i \in 1..u
  <2>1. i \in 1..Len(said[c]) /\ i \in 0..MaxSaid /\ i # 0 /\ i <= Len(said[c]) /\ 0 \in 0..MaxSent
    BY <1>g, ThreadBounds
  <2>2. said[c][i] \in Replies \cup {FromCustomer}
    BY <1>g, <2>1
  <2>3. Stored(c, i) \in ThreadMessage
    BY <1>g, <2>1, <2>2 DEF Stored, ThreadMessage
  <2> QED
    BY <2>1, <2>3 DEF Stored, ShownIn, IsStored
<1>2. all \in Seq(M) /\ Len(all) = u
  <2>1. all \in [1..u -> M]
    BY <1>1
  <2> HIDE DEF all, M
  <2> QED
    BY <1>g, <2>1
<1>3. ToSet(all) = {Stored(c, i) : i \in 1..u}
  <2>1. DOMAIN all = 1..u /\ \A i \in 1..u : all[i] = Stored(c, i)
    OBVIOUS
  <2> HIDE DEF all
  <2> QED
    BY <2>1 DEF ToSet
<1>a. \A i \in 1..u : all[i] = Stored(c, i)
  OBVIOUS
<1>4. P = PageMessages(l, shown)
  BY DEF PageMessages, NotShown
<1> HIDE DEF all, M, N
<1>5. P \in Seq(M) /\ ToSet(P) = ToSet(all) \cap S
  <2> HIDE DEF S
  <2> QED
    BY <1>2, FilterPlaces
<1>6. PICK at \in [1..Len(P) -> 1..Len(all)] :
        /\ \A j \in 1..Len(P) : P[j] = all[at[j]] /\ all[at[j]] \in S
        /\ \A i, j \in 1..Len(P) : i < j => at[i] < at[j]
  <2> HIDE DEF S
  <2> QED
    BY <1>2, FilterPlaces
<1>7. ToSet(P) = S
  BY <1>0, <1>3, <1>5
<1> HIDE DEF P, S
<1>8. \A j \in 1..Len(P) : at[j] \in 1..u /\ P[j].seq = at[j] /\ P[j].id = 0 /\ IsStored(P[j])
  <2> TAKE j \in 1..Len(P)
  <2>1. at[j] \in 1..u /\ P[j] = Stored(c, at[j])
    BY <1>2, <1>6, <1>a
  <2>2. P[j].seq = at[j] /\ P[j].id = 0
    BY <1>1, <2>1
  <2> QED
    BY <2>1, <2>2 DEF IsStored
<1>9. Ordered(P)
  BY <1>6, <1>8 DEF Ordered
<1>10. Single(P)
  <2> SUFFICES ASSUME NEW i \in 1..Len(P), NEW j \in 1..Len(P), i # j
               PROVE  P[i].seq # P[j].seq /\ P[i].id = 0
    BY DEF Single
  <2>1. i < j \/ j < i
    OBVIOUS
  <2> QED
    BY <1>6, <1>8, <2>1
<1> QED
  BY <1>0, <1>4, <1>5, <1>7, <1>8, <1>9, <1>10 DEF M, S, N

-----------------------------------------------------------------------------
(* What is done to the messages and to the timers.                           *)

\* What is being sent, by the places in the list.
LEMMA SendingByPlace ==
  ASSUME NEW M, NEW q \in Seq(M), NEW x
  PROVE  x \in SendingIn(q) <=> \E i \in 1..Len(q) : q[i].state = "sending" /\ q[i].id = x
<1>1. /\ \A m \in ToSet(q) : \E i \in 1..Len(q) : q[i] = m
      /\ \A i \in 1..Len(q) : q[i] \in ToSet(q)
  BY Lists
<1> QED
  BY <1>1 DEF SendingIn

\* A message is shown when it has a place in the list.
LEMMA ShowsByPlace ==
  ASSUME NEW M, NEW q \in Seq(M), NEW n
  PROVE  Shows(q, n) <=> \E i \in 1..Len(q) : q[i].seq = n
<1>1. /\ \A m \in ToSet(q) : \E i \in 1..Len(q) : q[i] = m
      /\ \A i \in 1..Len(q) : q[i] \in ToSet(q)
  BY Lists
<1> QED
  BY <1>1 DEF Shows

\* A list with the same numbers at the same places.
LEMMA SameNumbers ==
  ASSUME NEW M, NEW q \in Seq(M), NEW r \in Seq(M), Len(r) = Len(q),
         \A i \in 1..Len(q) : r[i].seq = q[i].seq /\ r[i].id = q[i].id
  PROVE  /\ Single(q) => Single(r)
         /\ Ordered(q) => Ordered(r)
         /\ \A n : Shows(r, n) <=> Shows(q, n)
<1>1. Single(q) => Single(r)
  BY DEF Single, IsStored
<1>2. Ordered(q) => Ordered(r)
  BY DEF Ordered, IsStored
<1>3. \A n : Shows(r, n) <=> Shows(q, n)
  BY ShowsByPlace
<1> QED
  BY <1>1, <1>2, <1>3

\* Marking a message as being sent or as failed.
LEMMA MarkedFacts ==
  ASSUME NEW c, NEW n \in Nat, NEW k \in Nat, k <= MaxSent,
         thread.messages \in Seq(ShownIn(c, n, k)),
         Single(thread.messages), NEW id \in 1..k, NEW state \in {"sending", "failed"}
  PROVE  /\ Marked(id, state) \in Seq(ShownIn(c, n, k))
         /\ Single(Marked(id, state))
         /\ Ordered(thread.messages) => Ordered(Marked(id, state))
         /\ \A i : Shows(Marked(id, state), i) <=> Shows(thread.messages, i)
         /\ state = "failed" => SendingIn(Marked(id, state)) = SendingIn(thread.messages) \ {id}
         /\ state = "sending" /\ (\E m \in ToSet(thread.messages) : m.id = id)
              => SendingIn(Marked(id, state)) = SendingIn(thread.messages) \cup {id}
<1> DEFINE q == thread.messages
           M == ShownIn(c, n, k)
           r == Marked(id, state)
<1>1. /\ q \in Seq(M) /\ Len(q) \in Nat /\ DOMAIN q = 1..Len(q)
      /\ \A i \in 1..Len(q) : q[i] \in M
  <2> HIDE DEF q, M
  <2>1. q \in Seq(M)
    BY DEF q, M
  <2> QED
    BY <2>1
<1>2. r = [i \in 1..Len(q) |-> IF q[i].id = id THEN [q[i] EXCEPT !.state = state] ELSE q[i]]
  <2> HIDE DEF q
  <2> QED
    BY <1>1 DEF Marked, q
<1> HIDE DEF q, r
<1>3. ASSUME NEW i \in 1..Len(q)
      PROVE  /\ r[i] \in M /\ r[i].seq = q[i].seq /\ r[i].id = q[i].id
             /\ r[i].state = IF q[i].id = id THEN state ELSE q[i].state
  <2>1. q[i] \in M /\ q[i] \in ThreadMessage
    BY <1>1 DEF ShownIn
  <2> HIDE DEF M
  <2>2. CASE q[i].id # id
    BY <1>2, <2>1, <2>2
  <2>3. CASE q[i].id = id
    <3> DEFINE m == q[i]
               e == [m EXCEPT !.state = state]
    <3>1. m \in ThreadMessage /\ m.id = id /\ id # 0 /\ m \in ShownIn(c, n, k)
      BY <2>1, <2>3 DEF M
    <3>2. r[i] = e
      BY <1>2, <2>3
    <3> HIDE DEF m
    <3>3. /\ e \in ThreadMessage /\ e.seq = m.seq /\ e.id = m.id /\ e.chat = m.chat /\ e.text = m.text
          /\ e.state = state
      BY <3>1 DEF ThreadMessage
    <3>4. ~IsStored(m) /\ m.chat = c /\ m.text \in Replies
      BY <3>1 DEF ShownIn
    <3>5. e \in ShownIn(c, n, k)
      BY <3>1, <3>3, <3>4 DEF ShownIn, IsStored
    <3> QED
      BY <2>3, <3>2, <3>3, <3>5 DEF m, M
  <2> QED
    BY <2>2, <2>3
<1> HIDE DEF M
<1>4. r \in Seq(M) /\ Len(r) = Len(q)
  <2>1. r \in [1..Len(q) -> M]
    BY <1>2, <1>3
  <2> QED
    BY <1>1, <2>1
<1>5. /\ Single(r)
      /\ Ordered(q) => Ordered(r)
      /\ \A i : Shows(r, i) <=> Shows(q, i)
  <2>1. Single(q)
    BY DEF q
  <2> QED
    BY <1>1, <1>3, <1>4, <2>1, SameNumbers
<1>6. \A i \in 1..Len(q) : q[i].id = id => q[i].state # "sending" \/ q[i].id = id
  OBVIOUS
<1>7. ASSUME state = "failed" PROVE SendingIn(r) = SendingIn(q) \ {id}
  <2>1. ASSUME NEW x PROVE x \in SendingIn(r) <=> x \in SendingIn(q) /\ x # id
    <3>1. x \in SendingIn(r) <=> \E i \in 1..Len(q) : r[i].state = "sending" /\ r[i].id = x
      BY <1>4, SendingByPlace
    <3>2. x \in SendingIn(q) <=> \E i \in 1..Len(q) : q[i].state = "sending" /\ q[i].id = x
      BY <1>1, SendingByPlace
    <3> QED
      BY <1>3, <1>7, <3>1, <3>2
  <2> QED
    BY <2>1
<1>8. ASSUME state = "sending", \E m \in ToSet(q) : m.id = id
      PROVE  SendingIn(r) = SendingIn(q) \cup {id}
  <2>1. PICK j \in 1..Len(q) : q[j].id = id
    BY <1>1, <1>8, Lists
  <2>2. ASSUME NEW x PROVE x \in SendingIn(r) <=> x \in SendingIn(q) \/ x = id
    <3>1. x \in SendingIn(r) <=> \E i \in 1..Len(q) : r[i].state = "sending" /\ r[i].id = x
      BY <1>4, SendingByPlace
    <3>2. x \in SendingIn(q) <=> \E i \in 1..Len(q) : q[i].state = "sending" /\ q[i].id = x
      BY <1>1, SendingByPlace
    <3> QED
      BY <1>3, <1>8, <2>1, <3>1, <3>2
  <2> QED
    BY <2>2
<1> QED
  BY <1>4, <1>5, <1>7, <1>8 DEF q, r, M

\* The saved copy takes the place of the own message it was matched with.
LEMMA ReplacedList ==
  ASSUME NEW M, NEW q \in Seq(M), NEW id, NEW m \in M
  PROVE  /\ [j \in DOMAIN q |-> IF q[j].id = id THEN m ELSE q[j]] \in Seq(M)
         /\ Len([j \in DOMAIN q |-> IF q[j].id = id THEN m ELSE q[j]]) = Len(q)
<1> DEFINE r == [j \in DOMAIN q |-> IF q[j].id = id THEN m ELSE q[j]]
<1>1. Len(q) \in Nat /\ DOMAIN q = 1..Len(q) /\ \A i \in 1..Len(q) : q[i] \in M
  OBVIOUS
<1>2. r \in [1..Len(q) -> M]
  BY <1>1
<1> HIDE DEF r
<1>3. r \in Seq(M) /\ Len(r) = Len(q)
  BY <1>1, <1>2
<1> QED
  BY <1>3 DEF r

\* What that leaves of the list.
LEMMA ReplacedFacts ==
  ASSUME NEW M, \A x \in M : x.id # 0 <=> ~IsStored(x),
         NEW q \in Seq(M), Single(q), NEW id, id # 0,
         NEW m \in M, IsStored(m), m.state = "sent", ~Shows(q, m.seq),
         NEW r \in Seq(M), Len(r) = Len(q),
         \A j \in 1..Len(q) : r[j] = IF q[j].id = id THEN m ELSE q[j]
  PROVE  /\ Single(r)
         /\ SendingIn(r) = SendingIn(q) \ {id}
         /\ \A i : Shows(r, i) => Shows(q, i) \/ i = m.seq
         /\ \A i : i # 0 /\ Shows(q, i) => Shows(r, i)
         /\ id \in SendingIn(q) => Shows(r, m.seq)
<1>1. \A i \in 1..Len(q) : q[i] \in M
  OBVIOUS
<1>2. m.id = 0 /\ m.seq # 0 /\ m.state = "sent"
  BY DEF IsStored
<1>3. \A i \in 1..Len(q) : q[i].seq # m.seq /\ (q[i].id = id => q[i].seq = 0)
  <2>1. \A i \in 1..Len(q) : q[i].seq # m.seq
    BY ShowsByPlace
  <2>2. \A i \in 1..Len(q) : q[i].id # 0 => q[i].seq = 0
    BY <1>1 DEF IsStored
  <2> QED
    BY <2>1, <2>2
<1>4. \A i \in 1..Len(q) : r[i] = IF q[i].id = id THEN m ELSE q[i]
  OBVIOUS
<1>5. r \in Seq(M) /\ Len(r) = Len(q)
  OBVIOUS
<1>6. Single(r)
  <2> SUFFICES ASSUME NEW i \in 1..Len(q), NEW j \in 1..Len(q), i # j
               PROVE  /\ IsStored(r[i]) => r[i].seq # r[j].seq
                      /\ r[i].id # 0 => r[i].id # r[j].id
    BY <1>5 DEF Single
  <2>1. /\ q[i].seq # 0 => q[i].seq # q[j].seq
        /\ q[i].id # 0 => q[i].id # q[j].id
    BY DEF Single, IsStored
  <2> QED
    BY <1>2, <1>3, <1>4, <2>1 DEF IsStored
<1>7. SendingIn(r) = SendingIn(q) \ {id}
  <2>1. ASSUME NEW x PROVE x \in SendingIn(r) <=> x \in SendingIn(q) /\ x # id
    <3>1. x \in SendingIn(r) <=> \E i \in 1..Len(q) : r[i].state = "sending" /\ r[i].id = x
      BY <1>5, SendingByPlace
    <3>2. x \in SendingIn(q) <=> \E i \in 1..Len(q) : q[i].state = "sending" /\ q[i].id = x
      BY SendingByPlace
    <3> QED
      BY <1>2, <1>4, <3>1, <3>2
  <2> QED
    BY <2>1
<1>8. \A i : Shows(r, i) <=> \E j \in 1..Len(q) : r[j].seq = i
  BY <1>5, ShowsByPlace
<1>9. \A i : Shows(q, i) <=> \E j \in 1..Len(q) : q[j].seq = i
  BY ShowsByPlace
<1>10. \A i : Shows(r, i) => Shows(q, i) \/ i = m.seq
  BY <1>4, <1>8, <1>9
<1>11. \A i : i # 0 /\ Shows(q, i) => Shows(r, i)
  BY <1>3, <1>4, <1>8, <1>9
<1>12. id \in SendingIn(q) => Shows(r, m.seq)
  <2>1. id \in SendingIn(q) <=> \E i \in 1..Len(q) : q[i].state = "sending" /\ q[i].id = id
    BY SendingByPlace
  <2> QED
    BY <1>4, <1>8, <2>1
<1> QED
  BY <1>6, <1>7, <1>10, <1>11, <1>12

\* A message of a new number, or of the counselor's next, put behind the others.
LEMMA AppendedFacts ==
  ASSUME NEW M, \A x \in M : x.id # 0 <=> ~IsStored(x),
         NEW q \in Seq(M), Single(q), NEW m \in M,
         \A i \in 1..Len(q) : IsStored(m) => q[i].seq # m.seq,
         \A i \in 1..Len(q) : m.id # 0 => q[i].id # m.id
  PROVE  /\ Append(q, m) \in Seq(M) /\ Single(Append(q, m))
         /\ Ordered(q) /\ ~IsStored(m) => Ordered(Append(q, m))
         /\ \A i : Shows(Append(q, m), i) <=> Shows(q, i) \/ i = m.seq
         /\ m.state = "sending" => SendingIn(Append(q, m)) = SendingIn(q) \cup {m.id}
         /\ m.state # "sending" => SendingIn(Append(q, m)) = SendingIn(q)
<1> DEFINE r == Append(q, m)
<1>0. \A i \in 1..Len(q) : q[i] \in M /\ (q[i].id # 0 <=> ~IsStored(q[i]))
  OBVIOUS
<1>1. m.id # 0 <=> ~IsStored(m)
  OBVIOUS
<1>2. q \in Seq(M) /\ m \in M
  OBVIOUS
<1>3. /\ r \in Seq(M) /\ Len(q) \in Nat /\ Len(r) = Len(q) + 1
      /\ \A i \in 1..Len(q) : r[i] = q[i]
      /\ r[Len(q) + 1] = m
  BY <1>2
<1> HIDE DEF r
<1>4. \A i \in 1..Len(r) : i \in 1..Len(q) \/ i = Len(q) + 1
  BY <1>3
<1>5. Single(r)
  <2> SUFFICES ASSUME NEW i \in 1..Len(r), NEW j \in 1..Len(r), i # j
               PROVE  /\ IsStored(r[i]) => r[i].seq # r[j].seq
                      /\ r[i].id # 0 => r[i].id # r[j].id
    BY DEF Single
  <2>1. CASE i \in 1..Len(q) /\ j \in 1..Len(q)
    <3>1. /\ IsStored(q[i]) => q[i].seq # q[j].seq
          /\ q[i].id # 0 => q[i].id # q[j].id
      BY <2>1 DEF Single
    <3> QED
      BY <1>3, <2>1, <3>1
  <2>2. CASE i \in 1..Len(q) /\ j = Len(q) + 1
    BY <1>0, <1>1, <1>3, <2>2 DEF IsStored
  <2>3. CASE i = Len(q) + 1 /\ j \in 1..Len(q)
    BY <1>0, <1>1, <1>3, <2>3 DEF IsStored
  <2> QED
    BY <1>4, <2>1, <2>2, <2>3
<1>6. ASSUME Ordered(q), ~IsStored(m) PROVE Ordered(r)
  <2> SUFFICES ASSUME NEW i \in 1..Len(r), NEW j \in 1..Len(r), i < j, IsStored(r[j])
               PROVE  IsStored(r[i]) /\ r[i].seq < r[j].seq
    BY DEF Ordered
  <2>1. j \in 1..Len(q)
    BY <1>3, <1>4, <1>6
  <2>2. i \in 1..Len(q)
    BY <1>3, <1>4, <2>1
  <2>3. r[i] = q[i] /\ r[j] = q[j]
    BY <1>3, <2>1, <2>2
  <2> QED
    BY <1>6, <2>1, <2>2, <2>3 DEF Ordered
<1>7. \A i : Shows(r, i) <=> Shows(q, i) \/ i = m.seq
  <2> TAKE x
  <2>1. Shows(r, x) <=> \E i \in 1..Len(r) : r[i].seq = x
    BY <1>3, ShowsByPlace
  <2>2. Shows(q, x) <=> \E i \in 1..Len(q) : q[i].seq = x
    BY ShowsByPlace
  <2>3. Len(q) + 1 \in 1..Len(r) /\ \A i \in 1..Len(q) : i \in 1..Len(r)
    BY <1>3
  <2> QED
    BY <1>3, <1>4, <2>1, <2>2, <2>3
<1>8. \A x : x \in SendingIn(r) <=> x \in SendingIn(q) \/ (m.state = "sending" /\ x = m.id)
  <2> TAKE x
  <2>1. x \in SendingIn(r) <=> \E i \in 1..Len(r) : r[i].state = "sending" /\ r[i].id = x
    BY <1>3, SendingByPlace
  <2>2. x \in SendingIn(q) <=> \E i \in 1..Len(q) : q[i].state = "sending" /\ q[i].id = x
    BY SendingByPlace
  <2>3. Len(q) + 1 \in 1..Len(r) /\ \A i \in 1..Len(q) : i \in 1..Len(r)
    BY <1>3
  <2> QED
    BY <1>3, <1>4, <2>1, <2>2, <2>3
<1> QED
  BY <1>3, <1>5, <1>6, <1>7, <1>8 DEF r

\* A timer is stopped.
LEMMA WithoutPendingFacts ==
  ASSUME NEW T, pendings \in Seq(T), OneTimerEach(pendings), NEW id
  PROVE  /\ WithoutPending(id) \in Seq(T)
         /\ OneTimerEach(WithoutPending(id))
         /\ WatchedIn(WithoutPending(id)) = WatchedIn(pendings) \ {id}
<1> DEFINE S == {p \in ToSet(pendings) : p.id # id}
           w == Filter(pendings, S)
<1>1. w = WithoutPending(id)
  BY DEF WithoutPending
<1>s. S \subseteq ToSet(pendings) /\ \A p \in ToSet(pendings) : p \in S <=> p.id # id
  OBVIOUS
<1> HIDE DEF S
<1>2. w \in Seq(T) /\ ToSet(w) = ToSet(pendings) \cap S
  BY FilterPlaces
<1>3. PICK at \in [1..Len(w) -> 1..Len(pendings)] :
        /\ \A k \in 1..Len(w) : w[k] = pendings[at[k]]
        /\ \A i, j \in 1..Len(w) : i < j => at[i] < at[j]
  BY FilterPlaces
<1> HIDE DEF w
<1>4. OneTimerEach(w)
  <2> SUFFICES ASSUME NEW i \in 1..Len(w), NEW j \in 1..Len(w), i # j PROVE w[i].id # w[j].id
    BY DEF OneTimerEach
  <2>1. i < j \/ j < i
    BY <1>2
  <2>2. at[i] # at[j] /\ at[i] \in 1..Len(pendings) /\ at[j] \in 1..Len(pendings)
    BY <1>3, <2>1
  <2> QED
    BY <1>3, <2>2 DEF OneTimerEach
<1>5. WatchedIn(w) = WatchedIn(pendings) \ {id}
  BY <1>2, <1>s DEF WatchedIn
<1> QED
  BY <1>1, <1>2, <1>4, <1>5

\* A timer is started, anew where one runs for the message.
LEMMA RegisteredFacts ==
  ASSUME NEW T, pendings \in Seq(T), OneTimerEach(pendings), NEW id, NEW c, NEW text,
         Pending(id, c, text) \in T, RegisterPendingMessage(id, c, text)
  PROVE  /\ pendings' \in Seq(T)
         /\ OneTimerEach(pendings')
         /\ WatchedIn(pendings') = WatchedIn(pendings) \cup {id}
<1> DEFINE w == WithoutPending(id)
           p == Pending(id, c, text)
<1>1. w \in Seq(T) /\ OneTimerEach(w) /\ WatchedIn(w) = WatchedIn(pendings) \ {id}
  BY WithoutPendingFacts
<1>2. p.id = id /\ p \in T
  BY DEF Pending
<1>3. pendings' = Append(w, p)
  BY DEF RegisterPendingMessage
<1> HIDE DEF w, p
<1> SUFFICES ASSUME NEW r, r = Append(w, p)
             PROVE  r \in Seq(T) /\ OneTimerEach(r) /\ WatchedIn(r) = WatchedIn(pendings) \cup {id}
  BY <1>3
<1>4. /\ r \in Seq(T) /\ Len(w) \in Nat /\ Len(r) = Len(w) + 1
      /\ \A i \in 1..Len(w) : r[i] = w[i]
      /\ r[Len(w) + 1] = p
  BY <1>1, <1>2
<1>5. \A i \in 1..Len(r) : i \in 1..Len(w) \/ i = Len(w) + 1
  BY <1>4
<1>6. \A i \in 1..Len(w) : w[i].id # id
  <2>1. \A i \in 1..Len(w) : w[i] \in ToSet(w)
    BY <1>1, Lists
  <2> QED
    BY <1>1, <2>1 DEF WatchedIn
<1>7. OneTimerEach(r)
  <2> SUFFICES ASSUME NEW i \in 1..Len(r), NEW j \in 1..Len(r), i # j PROVE r[i].id # r[j].id
    BY DEF OneTimerEach
  <2>1. CASE i \in 1..Len(w) /\ j \in 1..Len(w)
    BY <1>1, <1>4, <2>1 DEF OneTimerEach
  <2>2. CASE i = Len(w) + 1 \/ j = Len(w) + 1
    BY <1>2, <1>4, <1>5, <1>6, <2>2
  <2> QED
    BY <1>5, <2>1, <2>2
<1>8. ToSet(r) = ToSet(w) \cup {p}
  <2>1. /\ \A x \in ToSet(r) : \E i \in 1..Len(r) : r[i] = x
        /\ \A i \in 1..Len(r) : r[i] \in ToSet(r)
    BY <1>4, Lists
  <2>2. /\ \A x \in ToSet(w) : \E i \in 1..Len(w) : w[i] = x
        /\ \A i \in 1..Len(w) : w[i] \in ToSet(w)
    BY <1>1, Lists
  <2>3. Len(w) + 1 \in 1..Len(r) /\ \A i \in 1..Len(w) : i \in 1..Len(r)
    BY <1>4
  <2> QED
    BY <1>4, <1>5, <2>1, <2>2, <2>3
<1>9. WatchedIn(r) = WatchedIn(pendings) \cup {id}
  BY <1>1, <1>2, <1>8 DEF WatchedIn
<1> QED
  BY <1>4, <1>7, <1>9

\* The message an echo is matched with is one that is waited for.
LEMMA MatchFacts ==
  ASSUME NEW T, pendings \in Seq(T), NEW i, Matches(i) # <<>>
  PROVE  Head(Matches(i)) \in ToSet(pendings) /\ Head(Matches(i)) \in T
<1> DEFINE S == {p \in ToSet(pendings) : p.text = said[thread.active][i]}
           w == Filter(pendings, S)
<1>1. w = Matches(i)
  BY DEF Matches
<1> HIDE DEF S
<1>2. w \in Seq(T) /\ ToSet(w) = ToSet(pendings) \cap S
  BY FilterPlaces
<1> HIDE DEF w
<1>3. w # <<>>
  BY <1>1
<1>4. 1 \in 1..Len(w) /\ Head(w) = w[1]
  BY <1>2, <1>3
<1>5. w[1] \in ToSet(w) /\ w[1] \in T
  BY <1>2, <1>4, Lists
<1> QED
  BY <1>1, <1>2, <1>4, <1>5

-----------------------------------------------------------------------------
(* The invariant.                                                            *)

LoadRecords == [chat : Chats, page : Nat, read : BOOLEAN, upTo : Nat, late : BOOLEAN]

\* What the server keeps and counts.
ServerKeeps ==
  /\ said \in [Chats -> Seq(Replies \cup {FromCustomer})]
  /\ \A x \in Chats : Len(said[x]) <= MaxSaid
  /\ frames \subseteq PendingMessages(MaxSent)
  /\ errors \in Nat
  /\ failures \in 0..MaxFailures
  /\ sent \in 0..MaxSent
  /\ flaws \subseteq Flaws

\* What the page shows is the open conversation's, each message once.
PageShows ==
  /\ thread \in [active : Chats \cup {NoChat}, of : Chats \cup {NoChat},
                 messages : Seq(ThreadMessage), next : Nat, total : Nat, busy : BOOLEAN]
  /\ thread.of \in {NoChat, thread.active}
  /\ thread.of = NoChat => thread.messages = <<>>
  /\ thread.messages \in Seq(ShownIn(thread.active, SaidIn(thread.active), sent))
  /\ Single(thread.messages)
  /\ echoes \subseteq 1..SaidIn(thread.active)

\* A timer for each message that is being sent, and for no other.
PageWaits ==
  /\ pendings \in Seq(PendingMessages(sent))
  /\ OneTimerEach(pendings)
  /\ SendingIn(thread.messages) = WatchedIn(pendings)

\* A request that is not an earlier visit's is the open conversation's, as every
\* request for a first page is.
PageLoads ==
  /\ IsFiniteSet(loads) /\ Cardinality(loads) <= MaxLoads
  /\ loads \subseteq LoadRecords
  /\ \A l \in loads :
       /\ l.upTo <= Len(said[l.chat])
       /\ l.page = 0 => ~l.late
       /\ ~l.late => l.chat = thread.active

\* The page shows message i or is about to: its broadcast is on its way.
Brought(q, ech, i) == i \in ech \/ Shows(q, i)

\* Of the first n messages the page has been brought those after the ones page
\* number "page" begins with, counted from message number upTo.
Reaches(q, ech, n, page, upTo) ==
  \A i \in 1..n : i + page * PageSize > upTo => Brought(q, ech, i)

\* Nothing is missing between the first message the page has been brought and the
\* latest, nor between it and the page that is asked for next or already on its way.
Whole(q, ech, n, next, lds) ==
  /\ Ordered(q)
  /\ \A i, j \in 1..n : i < j /\ Brought(q, ech, i) => Brought(q, ech, j)
  /\ Reaches(q, ech, n, next, n)
  /\ \A l \in lds : ~l.late => Reaches(q, ech, n, l.page, IF l.read THEN l.upTo ELSE n)

PageWhole ==
  flaws = {} => Whole(thread.messages, echoes, SaidIn(thread.active), thread.next, loads)

ThreadInv == ServerKeeps /\ PageShows /\ PageWaits /\ PageLoads /\ PageWhole

\* How much is saved is a number.
LEMMA SaidInFacts ==
  ASSUME ServerKeeps, PageShows
  PROVE  /\ SaidIn(thread.active) \in Nat /\ sent \in Nat /\ sent <= MaxSent
         /\ thread.active # NoChat => thread.active \in Chats /\ SaidIn(thread.active) = Len(said[thread.active])
         /\ \A c \in Chats : Len(said[c]) \in Nat /\ said[c] \in Seq(Replies \cup {FromCustomer})
         /\ \A c \in Chats : SaidIn(c) = Len(said[c])
<1>1. \A c \in Chats : Len(said[c]) \in Nat /\ said[c] \in Seq(Replies \cup {FromCustomer}) /\ c # NoChat
  BY ThreadBounds DEF ServerKeeps
<1>2. thread.active \in Chats \cup {NoChat}
  BY DEF PageShows
<1> QED
  BY <1>1, <1>2, ThreadBounds DEF SaidIn, ServerKeeps

\* A list that has a message is of an open conversation.
LEMMA SomethingIsOpen ==
  ASSUME ServerKeeps, PageShows, thread.messages # <<>>
  PROVE  thread.active \in Chats /\ thread.of = thread.active
<1>1. thread.of # NoChat /\ thread.of \in {NoChat, thread.active} /\ thread.active \in Chats \cup {NoChat}
  BY DEF PageShows
<1> QED
  BY <1>1

\* Where nothing is open nothing is shown.
LEMMA NothingIsOpen ==
  ASSUME ServerKeeps, PageShows, thread.active = NoChat
  PROVE  thread.messages = <<>> /\ echoes = {}
<1>1. thread.of = NoChat
  BY DEF PageShows
<1>2. echoes \subseteq 1..0
  BY DEF PageShows, SaidIn
<1> QED
  BY <1>1, <1>2 DEF PageShows

\* How pages count.
LEMMA Pages ==
  /\ \A p \in Nat : p * PageSize \in Nat /\ (p + 1) * PageSize = p * PageSize + PageSize
  /\ 0 * PageSize = 0
  /\ \A u \in Nat : TotalPages(u) \in Nat
<1>1. PageSize \in Nat /\ PageSize > 0
  BY ThreadBounds
<1>2. \A p \in Nat : p * PageSize \in Nat /\ (p + 1) * PageSize = p * PageSize + PageSize
  BY <1>1
<1>3. 0 * PageSize = 0
  BY <1>1
<1>4. ASSUME NEW u \in Nat PROVE TotalPages(u) \in Nat
  <2>1. u + PageSize - 1 \in Nat
    BY <1>1
  <2>2. \A a \in Nat, b \in Nat : b > 0 => a \div b \in Nat
    OBVIOUS
  <2> QED
    BY <1>1, <2>1, <2>2 DEF TotalPages
<1> QED
  BY <1>2, <1>3, <1>4

\* The invariant holds at first.
LEMMA ThreadInvInit == ThreadInit => ThreadInv
<1> SUFFICES ASSUME ThreadInit PROVE ThreadInv
  OBVIOUS
<1> DEFINE first == [i \in 1..(2 * PageSize + 1) |-> FromCustomer]
<1>1. first \in Seq(Replies \cup {FromCustomer}) /\ Len(first) = 2 * PageSize + 1
  <2>1. 2 * PageSize + 1 \in Nat
    BY ThreadBounds
  <2> QED
    BY <2>1
<1>2. ServerKeeps
  <2>1. said \in [Chats -> {<<>>, first}] /\ <<>> \in Seq(Replies \cup {FromCustomer}) /\ Len(<<>>) = 0
    BY DEF ThreadInit
  <2> HIDE DEF first
  <2>2. \A x \in Chats : said[x] \in Seq(Replies \cup {FromCustomer}) /\ Len(said[x]) <= MaxSaid
    <3> TAKE x \in Chats
    <3>1. said[x] = <<>> \/ said[x] = first
      BY <2>1
    <3>2. Len(first) <= MaxSaid /\ Len(<<>>) <= MaxSaid
      BY <1>1, <2>1, ThreadBounds
    <3> QED
      BY <1>1, <2>1, <3>1, <3>2
  <2>3. said \in [Chats -> Seq(Replies \cup {FromCustomer})]
    BY <2>1, <2>2
  <2> QED
    BY <2>2, <2>3, ThreadBounds DEF ThreadInit, ServerKeeps
<1>3. thread = [active |-> NoChat, of |-> NoChat, messages |-> <<>>, next |-> 0, total |-> 0, busy |-> FALSE]
  BY DEF ThreadInit, EmptyThread
<1>4. PageShows
  BY <1>3 DEF ThreadInit, PageShows, Single
<1>5. PageWaits
  BY <1>3 DEF ThreadInit, PageWaits, OneTimerEach, SendingIn, WatchedIn, ToSet
<1>6. PageLoads
  <2>1. IsFiniteSet({}) /\ Cardinality({}) = 0
    BY FS_EmptySet
  <2> QED
    BY <2>1, ThreadBounds DEF ThreadInit, PageLoads
<1>7. PageWhole
  <2>1. SaidIn(thread.active) = 0 /\ thread.next = 0 /\ thread.messages = <<>>
    BY <1>3 DEF SaidIn
  <2> QED
    BY <2>1 DEF ThreadInit, PageWhole, Whole, Ordered, Reaches
<1> QED
  BY <1>2, <1>4, <1>5, <1>6, <1>7 DEF ThreadInv

-----------------------------------------------------------------------------
(* Steps that change neither what is shown nor what is waited for.           *)

\* What the page shows and waits for, where neither changes.
LEMMA ScreenStays ==
  ASSUME ThreadInv, UNCHANGED <<thread, pendings, sent>>,
         said' \in [Chats -> Seq(Replies \cup {FromCustomer})],
         \A x \in Chats : Len(said[x]) <= Len(said'[x]),
         echoes' \subseteq 1..SaidIn(thread.active)'
  PROVE  PageShows' /\ PageWaits'
<1>1. /\ SaidIn(thread.active) \in Nat /\ sent \in Nat
      /\ thread.active # NoChat => thread.active \in Chats /\ SaidIn(thread.active) = Len(said[thread.active])
  BY SaidInFacts DEF ThreadInv
<1>2. SaidIn(thread.active)' \in Nat /\ SaidIn(thread.active) <= SaidIn(thread.active)'
  <2>1. CASE thread.active = NoChat
    BY <2>1 DEF SaidIn
  <2>2. CASE thread.active # NoChat
    <3>1. thread.active \in Chats
      BY <1>1, <2>2
    <3>2. Len(said'[thread.active]) \in Nat
      BY <3>1
    <3> QED
      BY <1>1, <2>2, <3>1, <3>2 DEF SaidIn
  <2> QED
    BY <2>1, <2>2
<1>3. thread.messages \in Seq(ShownIn(thread.active, SaidIn(thread.active)', sent))
  <2>1. thread.messages \in Seq(ShownIn(thread.active, SaidIn(thread.active), sent))
    BY DEF ThreadInv, PageShows
  <2> QED
    BY <1>1, <1>2, <2>1, ShownGrows
<1>4. PageShows'
  BY <1>3 DEF ThreadInv, PageShows
<1>5. PageWaits'
  BY DEF ThreadInv, PageWaits
<1> QED
  BY <1>4, <1>5

\* GetMessagePage: the server reads a page, the page does not change.
LEMMA GetMessagePageStep ==
  ASSUME ThreadInv, NEW l, GetMessagePage(l)
  PROVE  ThreadInv'
<1> DEFINE r == [l EXCEPT !.read = TRUE, !.upTo = Len(said[l.chat])]
<1>1. /\ l \in loads /\ ~l.read /\ loads' = (loads \ {l}) \cup {r}
      /\ UNCHANGED <<said, frames, echoes, errors, thread, pendings, sent, failures, flaws>>
  BY DEF GetMessagePage, threadServer
<1>2. l \in LoadRecords /\ (l.page = 0 => ~l.late) /\ (~l.late => l.chat = thread.active)
  BY <1>1 DEF ThreadInv, PageLoads
<1>3. l.chat \in Chats /\ Len(said[l.chat]) \in Nat /\ Len(said[l.chat]) = SaidIn(l.chat)
  BY <1>2, SaidInFacts DEF LoadRecords, ThreadInv
<1>4. /\ r \in LoadRecords /\ r.chat = l.chat /\ r.page = l.page /\ r.late = l.late /\ r.read
      /\ r.upTo = Len(said[l.chat])
  BY <1>2, <1>3 DEF LoadRecords
<1> HIDE DEF r
<1>5. ServerKeeps'
  BY <1>1 DEF ThreadInv, ServerKeeps
<1>6. PageShows' /\ PageWaits'
  BY <1>1 DEF ThreadInv, PageShows, PageWaits, SaidIn
<1>7. PageLoads'
  <2>1. IsFiniteSet(loads') /\ Cardinality(loads') <= MaxLoads
    <3>1. IsFiniteSet(loads) /\ Cardinality(loads) \in Nat /\ Cardinality(loads) <= MaxLoads
      BY FS_CardinalityType DEF ThreadInv, PageLoads
    <3> DEFINE rest == loads \ {l}
    <3>2. IsFiniteSet(rest) /\ Cardinality(rest) = Cardinality(loads) - 1
      BY <1>1, <3>1, FS_RemoveElement
    <3> HIDE DEF rest
    <3>3. /\ IsFiniteSet(rest \cup {r})
          /\ Cardinality(rest \cup {r}) = Cardinality(rest) \/ Cardinality(rest \cup {r}) = Cardinality(rest) + 1
      BY <3>2, FS_AddElement
    <3>4. loads' = rest \cup {r}
      BY <1>1 DEF rest
    <3> DEFINE n2 == Cardinality(loads')
               n1 == Cardinality(rest)
               n == Cardinality(loads)
    <3>5. n \in Nat /\ n <= MaxLoads /\ n1 = n - 1 /\ (n2 = n1 \/ n2 = n1 + 1)
      BY <3>1, <3>2, <3>3, <3>4
    <3> HIDE DEF n, n1, n2
    <3>6. n2 <= MaxLoads
      BY <3>5, ThreadBounds
    <3> QED
      BY <3>3, <3>4, <3>6 DEF n2
  <2>2. ASSUME NEW x \in loads'
        PROVE  /\ x \in LoadRecords /\ x.upTo <= Len(said[x.chat]) /\ (x.page = 0 => ~x.late)
               /\ (~x.late => x.chat = thread.active)
    <3>1. CASE x \in loads
      BY <3>1 DEF ThreadInv, PageLoads
    <3>2. CASE x = r
      BY <1>2, <1>3, <1>4, <3>2
    <3> QED
      BY <1>1, <3>1, <3>2
  <2> QED
    BY <1>1, <2>1, <2>2 DEF PageLoads
<1>8. PageWhole'
  <2> DEFINE W(lds) == Whole(thread.messages, echoes, SaidIn(thread.active), thread.next, lds)
  <2> SUFFICES ASSUME flaws = {} PROVE W(loads')
    BY <1>1 DEF PageWhole, SaidIn
  <2>1. W(loads)
    BY DEF ThreadInv, PageWhole
  <2>2. ASSUME ~r.late
        PROVE  Reaches(thread.messages, echoes, SaidIn(thread.active), r.page,
                       IF r.read THEN r.upTo ELSE SaidIn(thread.active))
    <3>1. ~l.late /\ l.chat = thread.active /\ r.upTo = SaidIn(thread.active)
      BY <1>2, <1>3, <1>4, <2>2
    <3>2. Reaches(thread.messages, echoes, SaidIn(thread.active), l.page, SaidIn(thread.active))
      BY <1>1, <2>1, <3>1 DEF Whole
    <3> QED
      BY <1>4, <3>1, <3>2
  <2> QED
    BY <1>1, <2>1, <2>2 DEF Whole
<1> QED
  BY <1>5, <1>6, <1>7, <1>8 DEF ThreadInv

\* A request less.
LEMMA LessLoads ==
  ASSUME ThreadInv, NEW l, loads' = loads \ {l}, said' = said, thread'.active = thread.active
  PROVE  PageLoads'
<1>1. IsFiniteSet(loads) /\ Cardinality(loads) \in Nat /\ Cardinality(loads) <= MaxLoads
  BY FS_CardinalityType DEF ThreadInv, PageLoads
<1>2. IsFiniteSet(loads') /\ Cardinality(loads') <= Cardinality(loads) /\ Cardinality(loads') \in Nat
  BY <1>1, FS_Subset, FS_CardinalityType
<1>3. Cardinality(loads') <= MaxLoads
  BY <1>1, <1>2, ThreadBounds
<1> QED
  BY <1>2, <1>3 DEF ThreadInv, PageLoads

\* FirstPageFails and PreviousPageFails: the page stays as it is.
LEMMA PageFailsStep ==
  ASSUME ThreadInv, NEW l, FirstPageFails(l) \/ PreviousPageFails(l)
  PROVE  ThreadInv'
<1>1. /\ loads' = loads \ {l} /\ l \in loads
      /\ failures' = failures + 1 /\ failures < MaxFailures
      /\ UNCHANGED <<said, frames, echoes, errors, pendings, sent, flaws>>
  BY DEF FirstPageFails, PreviousPageFails, Failure, threadServer
<1>2. /\ thread'.active = thread.active /\ thread'.of = thread.of /\ thread'.messages = thread.messages
      /\ thread'.next = thread.next /\ thread'.total = thread.total /\ thread'.busy \in BOOLEAN
      /\ thread' \in [active : Chats \cup {NoChat}, of : Chats \cup {NoChat},
                      messages : Seq(ThreadMessage), next : Nat, total : Nat, busy : BOOLEAN]
  <2>1. thread' = thread \/ thread' = [thread EXCEPT !.busy = FALSE]
    BY DEF FirstPageFails, PreviousPageFails
  <2> QED
    BY <2>1 DEF ThreadInv, PageShows
<1>3. ServerKeeps'
  BY <1>1, ThreadBounds DEF ThreadInv, ServerKeeps
<1>4. PageShows' /\ PageWaits'
  BY <1>1, <1>2 DEF ThreadInv, PageShows, PageWaits, SaidIn
<1>5. PageLoads'
  BY <1>1, <1>2, LessLoads
<1>6. PageWhole'
  BY <1>1, <1>2 DEF ThreadInv, PageWhole, Whole, SaidIn
<1> QED
  BY <1>3, <1>4, <1>5, <1>6 DEF ThreadInv

\* HandleLoadPreviousMessages: the page asks for what comes before the ones it has.
LEMMA LoadPreviousStep ==
  ASSUME ThreadInv, HandleLoadPreviousMessages
  PROVE  ThreadInv'
<1> DEFINE r == Load(thread.active, thread.next)
<1>1. /\ thread.active # NoChat /\ Cardinality(loads) < MaxLoads
      /\ thread.of = thread.active /\ thread.next < thread.total
      /\ loads' = loads \cup {r}
      /\ UNCHANGED <<said, frames, echoes, errors, pendings, sent, failures, flaws>>
  BY DEF HandleLoadPreviousMessages, threadServer
<1>2. /\ thread'.active = thread.active /\ thread'.of = thread.of /\ thread'.messages = thread.messages
      /\ thread'.next = thread.next /\ thread'.total = thread.total
      /\ thread' \in [active : Chats \cup {NoChat}, of : Chats \cup {NoChat},
                      messages : Seq(ThreadMessage), next : Nat, total : Nat, busy : BOOLEAN]
      /\ thread.next \in Nat
  BY DEF HandleLoadPreviousMessages, ThreadInv, PageShows
<1>3. /\ thread.active \in Chats /\ SaidIn(thread.active) = Len(said[thread.active])
      /\ SaidIn(thread.active) \in Nat
  BY <1>1, SaidInFacts DEF ThreadInv
<1>4. /\ r \in LoadRecords /\ r.chat = thread.active /\ r.page = thread.next /\ ~r.late /\ ~r.read
      /\ r.upTo = 0
  BY <1>2, <1>3 DEF Load, LoadRecords
<1> HIDE DEF r
<1>5. ServerKeeps'
  BY <1>1 DEF ThreadInv, ServerKeeps
<1>6. PageShows' /\ PageWaits'
  BY <1>1, <1>2 DEF ThreadInv, PageShows, PageWaits, SaidIn
<1>7. PageLoads'
  <2>1. IsFiniteSet(loads) /\ Cardinality(loads) \in Nat
    BY FS_CardinalityType DEF ThreadInv, PageLoads
  <2>2. /\ IsFiniteSet(loads')
        /\ Cardinality(loads') = Cardinality(loads) \/ Cardinality(loads') = Cardinality(loads) + 1
    BY <1>1, <2>1, FS_AddElement
  <2> DEFINE n == Cardinality(loads)
             n2 == Cardinality(loads')
  <2>3. n \in Nat /\ n < MaxLoads /\ (n2 = n \/ n2 = n + 1)
    BY <1>1, <2>1, <2>2
  <2> HIDE DEF n, n2
  <2>4. n2 <= MaxLoads
    BY <2>3, ThreadBounds
  <2>5. ASSUME NEW x \in loads'
        PROVE  /\ x \in LoadRecords /\ x.upTo <= Len(said[x.chat]) /\ (x.page = 0 => ~x.late)
               /\ (~x.late => x.chat = thread.active)
    <3>1. CASE x \in loads
      BY <3>1 DEF ThreadInv, PageLoads
    <3>2. CASE x = r
      BY <1>3, <1>4, <3>2
    <3> QED
      BY <1>1, <3>1, <3>2
  <2> QED
    BY <1>1, <1>2, <2>2, <2>4, <2>5 DEF PageLoads, n2
<1>8. PageWhole'
  <2> DEFINE W(lds) == Whole(thread.messages, echoes, SaidIn(thread.active), thread.next, lds)
  <2> SUFFICES ASSUME flaws = {} PROVE W(loads')
    BY <1>1, <1>2 DEF PageWhole, SaidIn
  <2>1. W(loads)
    BY DEF ThreadInv, PageWhole
  <2>2. Reaches(thread.messages, echoes, SaidIn(thread.active), r.page,
                IF r.read THEN r.upTo ELSE SaidIn(thread.active))
    BY <1>4, <2>1 DEF Whole
  <2> QED
    BY <1>1, <2>1, <2>2 DEF Whole
<1> QED
  BY <1>5, <1>6, <1>7, <1>8 DEF ThreadInv

\* SaveAndBroadcastTo: one more is saved, and on its way unless its broadcast is missed.
LEMMA SavedStep ==
  ASSUME ThreadInv, NEW c \in Chats, NEW text \in Replies \cup {FromCustomer},
         SaveAndBroadcastTo(c, text), UNCHANGED <<thread, pendings, loads, sent>>
  PROVE  /\ said' \in [Chats -> Seq(Replies \cup {FromCustomer})]
         /\ \A x \in Chats : Len(said'[x]) <= MaxSaid
         /\ flaws' \subseteq Flaws
         /\ PageShows' /\ PageWaits' /\ PageLoads' /\ PageWhole'
<1> DEFINE i == Len(said[c]) + 1
           a == thread.active
           n == SaidIn(a)
           n2 == SaidIn(a)'
<1>0. /\ i \in Nat /\ i # 0 /\ said[c] \in Seq(Replies \cup {FromCustomer})
      /\ \A x \in Chats : Len(said[x]) \in Nat /\ Len(said[x]) <= MaxSaid
      /\ said \in [Chats -> Seq(Replies \cup {FromCustomer})]
      /\ flaws \subseteq Flaws
  BY SaidInFacts DEF ThreadInv, ServerKeeps
<1>1. /\ i <= MaxSaid
      /\ said' = [said EXCEPT ![c] = Append(@, text)]
      /\ \/ c = a /\ echoes' = echoes \cup {i} /\ flaws' = flaws
         \/ echoes' = echoes /\ flaws' = IF c = a THEN flaws \cup {"missed"} ELSE flaws
  BY DEF SaveAndBroadcastTo
<1>2. said'[c] = Append(said[c], text) /\ Len(said'[c]) = i
  BY <1>0, <1>1
<1>3. \A x \in Chats : x # c => said'[x] = said[x]
  BY <1>0, <1>1
<1>4. \A x \in Chats : Len(said'[x]) <= MaxSaid /\ Len(said[x]) <= Len(said'[x])
                         /\ Len(said'[x]) \in Nat
  BY <1>0, <1>1, <1>2, <1>3
<1>5. said' \in [Chats -> Seq(Replies \cup {FromCustomer})]
  BY <1>0, <1>1
<1>6. flaws' \subseteq Flaws
  BY <1>0, <1>1 DEF Flaws
<1>7. /\ n \in Nat /\ n2 \in Nat /\ (a # NoChat => a \in Chats)
      /\ c = a => n2 = n + 1 /\ i = n + 1
      /\ c # a => n2 = n
  <2>1. n \in Nat /\ (a # NoChat => a \in Chats /\ n = Len(said[a]))
    BY SaidInFacts DEF ThreadInv
  <2>2. CASE a = NoChat
    BY <2>1, <2>2, ThreadBounds DEF SaidIn
  <2>3. CASE a # NoChat
    <3>1. n2 = Len(said'[a])
      BY <2>3 DEF SaidIn
    <3> QED
      BY <1>2, <1>3, <1>4, <2>1, <2>3, <3>1
  <2> QED
    BY <2>2, <2>3
<1>8. echoes \subseteq 1..n
  BY DEF ThreadInv, PageShows
<1>9. PageShows' /\ PageWaits'
  <2>1. echoes' \subseteq 1..n2
    <3>1. \/ echoes' = echoes \cup {n + 1} /\ n2 = n + 1
          \/ echoes' = echoes /\ (n2 = n \/ n2 = n + 1)
      BY <1>1, <1>7
    <3> HIDE DEF n, n2, i, a
    <3>2. CASE echoes' = echoes \cup {n + 1} /\ n2 = n + 1
      <4>1. n + 1 \in 1..n2 /\ \A x \in 1..n : x \in 1..n2
        BY <1>7, <3>2
      <4> QED
        BY <1>8, <3>2, <4>1
    <3>3. CASE echoes' = echoes /\ (n2 = n \/ n2 = n + 1)
      <4>1. \A x \in 1..n : x \in 1..n2
        BY <1>7, <3>3
      <4> QED
        BY <1>8, <3>3, <4>1
    <3> QED
      BY <3>1, <3>2, <3>3
  <2> QED
    BY <1>4, <1>5, <2>1, ScreenStays
<1>10. PageLoads'
  <2>1. ASSUME NEW l \in loads PROVE l.upTo <= Len(said'[l.chat])
    <3>1. l.chat \in Chats /\ l.upTo \in Nat /\ l.upTo <= Len(said[l.chat])
      BY DEF ThreadInv, PageLoads, LoadRecords
    <3> QED
      BY <1>0, <1>4, <3>1
  <2> QED
    BY <2>1 DEF ThreadInv, PageLoads
<1>11. PageWhole'
  <2> DEFINE q == thread.messages
             W(ech, k) == Whole(q, ech, k, thread.next, loads)
  <2> SUFFICES ASSUME flaws' = {} PROVE W(echoes', n2)
    BY DEF PageWhole
  <2>1. flaws = {}
    BY <1>1
  <2>2. W(echoes, n)
    BY <2>1 DEF ThreadInv, PageWhole
  <2>3. CASE c # a
    <3>1. echoes' = echoes /\ n2 = n
      BY <1>1, <1>7, <2>3
    <3> QED
      BY <2>2, <3>1
  <2>4. CASE c = a
    <3>1. echoes' = echoes \cup {n + 1} /\ n2 = n + 1
      BY <1>1, <1>7, <2>4
    <3>2. \A l \in loads : l.page \in Nat /\ l.upTo \in Nat
      BY DEF ThreadInv, PageLoads, LoadRecords
    <3>3. \A p \in Nat : p * PageSize \in Nat
      BY Pages
    <3>4. thread.next \in Nat
      BY DEF ThreadInv, PageShows
    <3> DEFINE next == thread.next
    <3> SUFFICES ASSUME NEW ech, ech = echoes \cup {n + 1} PROVE W(ech, n + 1)
      BY <3>1
    <3> HIDE DEF n, n2, q, a, i, next
    <3>5. \A j : Brought(q, echoes, j) => Brought(q, ech, j)
      BY DEF Brought
    <3>6. Brought(q, ech, n + 1)
      BY DEF Brought
    <3>7. \A j \in 1..(n + 1) : j \in 1..n \/ j = n + 1
      BY <1>7
    <3>8. Ordered(q)
      BY <2>2 DEF Whole, next
    <3>9. \A j, k \in 1..(n + 1) : j < k /\ Brought(q, ech, j) => Brought(q, ech, k)
      <4> SUFFICES ASSUME NEW j \in 1..(n + 1), NEW k \in 1..(n + 1), j < k, Brought(q, ech, j)
                   PROVE  Brought(q, ech, k)
        OBVIOUS
      <4>1. CASE k = n + 1
        BY <3>6, <4>1
      <4>2. CASE k # n + 1
        <5>1. k \in 1..n /\ j \in 1..n /\ j # n + 1
          BY <1>7, <4>2
        <5>2. Brought(q, echoes, j)
          BY <5>1 DEF Brought
        <5> QED
          BY <2>2, <3>5, <5>1, <5>2 DEF Whole
      <4> QED
        BY <4>1, <4>2
    <3>10. ASSUME NEW p \in Nat, NEW u \in Nat, NEW u2 \in Nat, u <= u2,
                  Reaches(q, echoes, n, p, u)
           PROVE  Reaches(q, ech, n + 1, p, u2)
      <4> SUFFICES ASSUME NEW j \in 1..(n + 1), j + p * PageSize > u2 PROVE Brought(q, ech, j)
        BY DEF Reaches
      <4>1. CASE j = n + 1
        BY <3>6, <4>1
      <4>2. CASE j # n + 1
        <5>1. j \in 1..n /\ j + p * PageSize > u
          <6>1. p * PageSize \in Nat
            BY <3>3
          <6> DEFINE d == p * PageSize
          <6> HIDE DEF d
          <6>2. j \in 1..n /\ j + d > u
            BY <1>7, <3>10, <4>2, <6>1 DEF d
          <6> QED
            BY <6>2 DEF d
        <5> QED
          BY <3>5, <3>10, <5>1 DEF Reaches
      <4> QED
        BY <4>1, <4>2
    <3>11. Reaches(q, ech, n + 1, next, n + 1)
      <4>1. Reaches(q, echoes, n, next, n) /\ n <= n + 1 /\ n + 1 \in Nat /\ next \in Nat
        BY <1>7, <2>2, <3>4 DEF Whole, next
      <4> QED
        BY <1>7, <3>10, <4>1
    <3>12. ASSUME NEW l \in loads, ~l.late
           PROVE  Reaches(q, ech, n + 1, l.page, IF l.read THEN l.upTo ELSE n + 1)
      <4>1. Reaches(q, echoes, n, l.page, IF l.read THEN l.upTo ELSE n)
        BY <2>2, <3>12 DEF Whole
      <4>2. CASE l.read
        <5>1. l.upTo <= l.upTo /\ Reaches(q, echoes, n, l.page, l.upTo)
          BY <3>2, <4>1, <4>2
        <5>2. Reaches(q, ech, n + 1, l.page, l.upTo)
          BY <3>2, <3>10, <5>1
        <5> QED
          BY <4>2, <5>2
      <4>3. CASE ~l.read
        <5>1. n <= n + 1 /\ n + 1 \in Nat /\ Reaches(q, echoes, n, l.page, n)
          BY <1>7, <4>1, <4>3
        <5>2. Reaches(q, ech, n + 1, l.page, n + 1)
          BY <1>7, <3>2, <3>10, <5>1
        <5> QED
          BY <4>3, <5>2
      <4> QED
        BY <4>2, <4>3
    <3> QED
      BY <3>8, <3>9, <3>11, <3>12 DEF Whole, next
  <2> QED
    BY <2>3, <2>4
<1> QED
  BY <1>4, <1>5, <1>6, <1>9, <1>10, <1>11

\* CustomerSpeaks.
LEMMA CustomerSpeaksStep ==
  ASSUME ThreadInv, NEW c \in Chats, CustomerSpeaks(c)
  PROVE  ThreadInv'
<1>1. /\ SaveAndBroadcastTo(c, FromCustomer)
      /\ UNCHANGED <<thread, pendings, loads, frames, errors, sent, failures>>
  BY DEF CustomerSpeaks
<1>2. /\ said' \in [Chats -> Seq(Replies \cup {FromCustomer})]
      /\ \A x \in Chats : Len(said'[x]) <= MaxSaid
      /\ flaws' \subseteq Flaws
      /\ PageShows' /\ PageWaits' /\ PageLoads' /\ PageWhole'
  BY <1>1, SavedStep
<1>3. ServerKeeps'
  BY <1>1, <1>2 DEF ThreadInv, ServerKeeps
<1> QED
  BY <1>2, <1>3 DEF ThreadInv

\* ServeCounselorFrame: saved like any other, or refused.
LEMMA ServeFrameStep ==
  ASSUME ThreadInv, NEW f, ServeCounselorFrame(f)
  PROVE  ThreadInv'
<1>1. /\ f \in frames /\ frames' = frames \ {f}
      /\ UNCHANGED <<thread, pendings, loads, sent>>
      /\ \/ SaveAndBroadcastTo(f.chat, f.text) /\ UNCHANGED <<errors, failures>>
         \/ /\ failures < MaxFailures /\ failures' = failures + 1
            /\ errors' \in {errors, errors + 1} /\ UNCHANGED <<said, echoes, flaws>>
  BY DEF ServeCounselorFrame, Failure
<1>2. f.chat \in Chats /\ f.text \in Replies /\ frames' \subseteq PendingMessages(MaxSent)
  BY <1>1 DEF ThreadInv, ServerKeeps, PendingMessages
<1>3. CASE SaveAndBroadcastTo(f.chat, f.text) /\ UNCHANGED <<errors, failures>>
  <2>1. /\ said' \in [Chats -> Seq(Replies \cup {FromCustomer})]
        /\ \A x \in Chats : Len(said'[x]) <= MaxSaid
        /\ flaws' \subseteq Flaws
        /\ PageShows' /\ PageWaits' /\ PageLoads' /\ PageWhole'
    <3>1. f.text \in Replies \cup {FromCustomer}
      BY <1>2
    <3> QED
      BY <1>1, <1>2, <1>3, <3>1, SavedStep
  <2>2. ServerKeeps'
    BY <1>1, <1>2, <1>3, <2>1 DEF ThreadInv, ServerKeeps
  <2> QED
    BY <2>1, <2>2 DEF ThreadInv
<1>4. CASE /\ failures < MaxFailures /\ failures' = failures + 1
           /\ errors' \in {errors, errors + 1} /\ UNCHANGED <<said, echoes, flaws>>
  <2>1. ServerKeeps'
    BY <1>1, <1>2, <1>4, ThreadBounds DEF ThreadInv, ServerKeeps
  <2>2. PageShows' /\ PageWaits' /\ PageLoads' /\ PageWhole'
    BY <1>1, <1>4 DEF ThreadInv, PageShows, PageWaits, PageLoads, PageWhole, SaidIn
  <2> QED
    BY <2>1, <2>2 DEF ThreadInv
<1> QED
  BY <1>1, <1>3, <1>4

-----------------------------------------------------------------------------
(* Sending.                                                                  *)

\* What the page shows, with other messages of the open conversation.
LEMMA ScreenChanges ==
  ASSUME ThreadInv, said' = said, echoes' \subseteq echoes, thread.active \in Chats,
         NEW q \in Seq(ShownIn(thread.active, SaidIn(thread.active), sent')), Single(q),
         thread'.active = thread.active, thread'.of = thread.active, thread'.messages = q,
         thread' \in [active : Chats \cup {NoChat}, of : Chats \cup {NoChat},
                      messages : Seq(ThreadMessage), next : Nat, total : Nat, busy : BOOLEAN]
  PROVE  PageShows'
<1>1. SaidIn(thread.active)' = SaidIn(thread.active)
  BY DEF SaidIn
<1>2. echoes' \subseteq 1..SaidIn(thread.active)'
  BY <1>1 DEF ThreadInv, PageShows
<1>3. thread'.messages \in Seq(ShownIn(thread'.active, SaidIn(thread.active)', sent'))
  BY <1>1
<1>4. thread'.of # NoChat
  BY ThreadBounds
<1>5. Single(thread'.messages)
  OBVIOUS
<1> QED
  BY <1>2, <1>3, <1>4, <1>5 DEF PageShows

\* Another list that has brought the same messages.
LEMMA WholeKept ==
  ASSUME NEW q, NEW ech, NEW n, NEW next, NEW lds, Whole(q, ech, n, next, lds),
         NEW r, NEW ech2, Ordered(r),
         \A i \in 1..n : Brought(q, ech, i) <=> Brought(r, ech2, i)
  PROVE  Whole(r, ech2, n, next, lds)
BY DEF Whole, Reaches

\* A message that was written may be shown, and waited for, of a counselor who has
\* written k.
LEMMA OwnMessageShown ==
  ASSUME NEW c \in Chats, NEW n \in Nat, NEW k \in Nat, k <= MaxSent, NEW id \in 1..k,
         NEW text \in Replies
  PROVE  /\ [chat |-> c, seq |-> 0, id |-> id, text |-> text, state |-> "sending"] \in ShownIn(c, n, k)
         /\ Pending(id, c, text) \in PendingMessages(k)
<1>1. 0 \in 0..MaxSaid /\ id \in 0..MaxSent
  BY ThreadBounds
<1>2. [chat |-> c, seq |-> 0, id |-> id, text |-> text, state |-> "sending"] \in ThreadMessage
  BY <1>1 DEF ThreadMessage
<1>3. [chat |-> c, seq |-> 0, id |-> id, text |-> text, state |-> "sending"] \in ShownIn(c, n, k)
  BY <1>2 DEF ShownIn, IsStored
<1> QED
  BY <1>3 DEF Pending, PendingMessages

\* HandleCounselorSend: shown, waited for and sent.
LEMMA SendStep ==
  ASSUME ThreadInv, NEW text \in Replies, HandleCounselorSend(text)
  PROVE  ThreadInv'
<1> DEFINE c == thread.active
           q == thread.messages
           n == SaidIn(thread.active)
           k == sent + 1
           m == [chat |-> c, seq |-> 0, id |-> k, text |-> text, state |-> "sending"]
           r == Append(q, m)
<1>1. /\ c # NoChat /\ sent < MaxSent /\ sent' = k
      /\ thread' = [thread EXCEPT !.of = c, !.messages = r]
      /\ RegisterPendingMessage(k, c, text)
      /\ UNCHANGED <<said, loads, echoes, errors, failures, flaws>>
  BY DEF HandleCounselorSend
<1>2. /\ c \in Chats /\ n \in Nat /\ sent \in Nat /\ k \in Nat /\ k <= MaxSent /\ k \in 1..k
      /\ sent <= k /\ MaxSent \in Nat
  BY <1>1, SaidInFacts, ThreadBounds DEF ThreadInv
<1>3. /\ q \in Seq(ShownIn(c, n, sent)) /\ Single(q)
      /\ thread \in [active : Chats \cup {NoChat}, of : Chats \cup {NoChat},
                     messages : Seq(ThreadMessage), next : Nat, total : Nat, busy : BOOLEAN]
  BY DEF ThreadInv, PageShows
<1>4. q \in Seq(ShownIn(c, n, k))
  <2> HIDE DEF c, q, n, k
  <2> QED
    BY <1>2, <1>3, ShownGrows
<1>5. m \in ShownIn(c, n, k) /\ Pending(k, c, text) \in PendingMessages(k)
  <2> HIDE DEF c, n, k
  <2> QED
    BY <1>2, OwnMessageShown
<1>6. m.seq = 0 /\ m.id = k /\ m.state = "sending" /\ ~IsStored(m)
  BY DEF IsStored
<1>7. \A i \in 1..Len(q) : q[i].id # k
  <2> DEFINE M == ShownIn(c, n, sent)
  <2>1. \A x \in M : x.id # k
    <3> TAKE x \in M
    <3>1. x.id = 0 \/ x.id \in 1..sent
      BY DEF ShownIn
    <3> QED
      BY <1>2, <3>1
  <2>2. \A i \in 1..Len(q) : q[i] \in M
    <3> HIDE DEF M, q
    <3>1. q \in Seq(M)
      BY <1>3 DEF M
    <3> QED
      BY <3>1
  <2> QED
    BY <2>1, <2>2
<1> HIDE DEF m, q, n, k
<1>8. /\ r \in Seq(ShownIn(c, n, k)) /\ Single(r)
      /\ Ordered(q) => Ordered(r)
      /\ \A i : Shows(r, i) <=> Shows(q, i) \/ i = 0
      /\ SendingIn(r) = SendingIn(q) \cup {k}
  <2> HIDE DEF c
  <2>1. /\ \A i \in 1..Len(q) : IsStored(m) => q[i].seq # m.seq
        /\ \A i \in 1..Len(q) : m.id # 0 => q[i].id # m.id
    BY <1>6, <1>7
  <2>2. /\ r \in Seq(ShownIn(c, n, k)) /\ Single(r)
        /\ Ordered(q) /\ ~IsStored(m) => Ordered(r)
        /\ \A i : Shows(r, i) <=> Shows(q, i) \/ i = m.seq
        /\ m.state = "sending" => SendingIn(r) = SendingIn(q) \cup {m.id}
    <3> DEFINE M == ShownIn(c, n, k)
    <3>1. q \in Seq(M) /\ Single(q) /\ m \in M
      BY <1>3, <1>4, <1>5
    <3>2. \A x \in M : x.id # 0 <=> ~IsStored(x)
      BY DEF ShownIn, IsStored
    <3> HIDE DEF M
    <3> QED
      BY <2>1, <3>1, <3>2, AppendedFacts DEF M
  <2> HIDE DEF r
  <2> QED
    BY <1>6, <2>2
<1>9. ShownIn(c, n, k) \subseteq ThreadMessage
  BY DEF ShownIn
<1>10. r \in Seq(ThreadMessage)
  <2> HIDE DEF r, c
  <2> QED
    BY <1>8, <1>9
<1> HIDE DEF r
<1>11. /\ thread'.active = c /\ thread'.of = c /\ thread'.messages = r /\ thread'.next = thread.next
       /\ thread' \in [active : Chats \cup {NoChat}, of : Chats \cup {NoChat},
                       messages : Seq(ThreadMessage), next : Nat, total : Nat, busy : BOOLEAN]
  BY <1>1, <1>3, <1>10
<1>12. PageShows'
  BY <1>1, <1>2, <1>8, <1>11, ScreenChanges DEF n, k
<1>13. pendings \in Seq(PendingMessages(k))
  <2>1. PendingMessages(sent) \subseteq PendingMessages(k) /\ pendings \in Seq(PendingMessages(sent))
    BY <1>2 DEF PendingMessages, ThreadInv, PageWaits
  <2> QED
    BY <2>1
<1>14. PageWaits'
  <2>1. OneTimerEach(pendings) /\ SendingIn(q) = WatchedIn(pendings)
    BY DEF ThreadInv, PageWaits, q
  <2>2. /\ pendings' \in Seq(PendingMessages(k)) /\ OneTimerEach(pendings')
        /\ WatchedIn(pendings') = WatchedIn(pendings) \cup {k}
    BY <1>1, <1>5, <1>13, <2>1, RegisteredFacts
  <2> QED
    BY <1>1, <1>8, <1>11, <2>1, <2>2 DEF PageWaits
<1>15. ServerKeeps'
  <2>1. frames' = frames \cup {Pending(k, c, text)}
    BY <1>1 DEF RegisterPendingMessage
  <2>2. PendingMessages(k) \subseteq PendingMessages(MaxSent)
    BY <1>2 DEF PendingMessages
  <2>3. frames' \subseteq PendingMessages(MaxSent)
    BY <1>5, <2>1, <2>2 DEF ThreadInv, ServerKeeps
  <2>4. sent' \in 0..MaxSent
    BY <1>1, <1>2
  <2> QED
    BY <1>1, <2>3, <2>4 DEF ThreadInv, ServerKeeps
<1>16. PageLoads'
  BY <1>1, <1>11 DEF ThreadInv, PageLoads
<1>17. PageWhole'
  <2> SUFFICES ASSUME flaws = {} PROVE Whole(r, echoes, n, thread.next, loads)
    BY <1>1, <1>11 DEF PageWhole, SaidIn, n
  <2>1. Whole(q, echoes, n, thread.next, loads)
    BY DEF ThreadInv, PageWhole, q, n
  <2>2. \A i \in 1..n : Brought(q, echoes, i) <=> Brought(r, echoes, i)
    BY <1>8 DEF Brought
  <2>3. Ordered(r)
    BY <1>8, <2>1 DEF Whole
  <2> QED
    BY <2>1, <2>2, <2>3, WholeKept
<1> QED
  BY <1>12, <1>14, <1>15, <1>16, <1>17 DEF ThreadInv

\* A message's mark changes, with its timer.
LEMMA MarkedStep ==
  ASSUME ThreadInv, NEW id \in 1..sent, NEW state \in {"sending", "failed"},
         thread.active \in Chats, thread.of = thread.active,
         thread' = [thread EXCEPT !.messages = Marked(id, state)],
         UNCHANGED <<said, loads, echoes, sent, flaws>>,
         pendings' \in Seq(PendingMessages(sent)), OneTimerEach(pendings'),
         SendingIn(Marked(id, state)) = WatchedIn(pendings')
  PROVE  PageShows' /\ PageWaits' /\ PageLoads' /\ PageWhole'
<1> DEFINE c == thread.active
           q == thread.messages
           n == SaidIn(thread.active)
           r == Marked(id, state)
<1>1. n \in Nat /\ sent \in Nat /\ sent <= MaxSent
  BY SaidInFacts DEF ThreadInv
<1>2. /\ q \in Seq(ShownIn(c, n, sent)) /\ Single(q)
      /\ thread \in [active : Chats \cup {NoChat}, of : Chats \cup {NoChat},
                     messages : Seq(ThreadMessage), next : Nat, total : Nat, busy : BOOLEAN]
  BY DEF ThreadInv, PageShows
<1>3. /\ r \in Seq(ShownIn(c, n, sent)) /\ Single(r)
      /\ Ordered(q) => Ordered(r)
      /\ \A i : Shows(r, i) <=> Shows(q, i)
  <2> HIDE DEF c, n
  <2> QED
    BY <1>1, <1>2, MarkedFacts
<1> HIDE DEF r, q, n, c
<1>4. ShownIn(c, n, sent) \subseteq ThreadMessage
  BY DEF ShownIn
<1>5. r \in Seq(ThreadMessage)
  BY <1>3, <1>4
<1>6. /\ thread'.active = c /\ thread'.of = c /\ thread'.messages = r /\ thread'.next = thread.next
      /\ thread' \in [active : Chats \cup {NoChat}, of : Chats \cup {NoChat},
                      messages : Seq(ThreadMessage), next : Nat, total : Nat, busy : BOOLEAN]
  BY <1>2, <1>5 DEF r, c
<1>7. PageShows'
  BY <1>3, <1>6, ScreenChanges DEF n, c
<1>8. PageWaits'
  BY <1>6 DEF PageWaits, r
<1>9. PageLoads'
  BY <1>6 DEF ThreadInv, PageLoads, c
<1>10. PageWhole'
  <2> SUFFICES ASSUME flaws = {} PROVE Whole(r, echoes, n, thread.next, loads)
    BY <1>6 DEF PageWhole, SaidIn, n, c
  <2>1. Whole(q, echoes, n, thread.next, loads)
    BY DEF ThreadInv, PageWhole, q, n
  <2>2. \A i \in 1..n : Brought(q, echoes, i) <=> Brought(r, echoes, i)
    BY <1>3 DEF Brought
  <2>3. Ordered(r)
    BY <1>3, <2>1 DEF Whole
  <2> QED
    BY <2>1, <2>2, <2>3, WholeKept
<1> QED
  BY <1>7, <1>8, <1>9, <1>10

\* HandleRetryMessage: sent again, with a timer of its own.
LEMMA RetryStep ==
  ASSUME ThreadInv, HandleRetryMessage
  PROVE  ThreadInv'
<1> DEFINE c == thread.active
           q == thread.messages
           n == SaidIn(thread.active)
<1>1. /\ failures < MaxFailures /\ failures' = failures + 1
      /\ UNCHANGED <<said, loads, echoes, errors, sent, flaws>>
  BY DEF HandleRetryMessage, Failure
<1>2. PICK m \in ToSet(q) :
        /\ m.state = "failed"
        /\ thread' = [thread EXCEPT !.messages = Marked(m.id, "sending")]
        /\ RegisterPendingMessage(m.id, m.chat, m.text)
  BY DEF HandleRetryMessage
<1>3. /\ n \in Nat /\ sent \in Nat /\ sent <= MaxSent
      /\ q \in Seq(ShownIn(c, n, sent)) /\ Single(q)
  BY SaidInFacts DEF ThreadInv, PageShows
<1>4. q # <<>> /\ m \in ShownIn(c, n, sent)
  <2> HIDE DEF q, n, c
  <2> QED
    BY <1>3, Lists
<1>5. c \in Chats /\ thread.of = c
  BY <1>4, SomethingIsOpen DEF ThreadInv
<1>6. m.id \in 1..sent /\ m.chat = c /\ m.text \in Replies
  BY <1>2, <1>4 DEF ShownIn
<1>7. Pending(m.id, m.chat, m.text) \in PendingMessages(sent)
  BY <1>5, <1>6 DEF Pending, PendingMessages
<1> HIDE DEF q, n, c
<1>8. SendingIn(Marked(m.id, "sending")) = SendingIn(q) \cup {m.id}
  <2>1. \E x \in ToSet(thread.messages) : x.id = m.id
    BY DEF q
  <2> QED
    BY <1>3, <1>6, <2>1, MarkedFacts DEF q
<1>9. /\ pendings \in Seq(PendingMessages(sent)) /\ OneTimerEach(pendings)
      /\ SendingIn(q) = WatchedIn(pendings)
  BY DEF ThreadInv, PageWaits, q
<1>10. /\ pendings' \in Seq(PendingMessages(sent)) /\ OneTimerEach(pendings')
       /\ WatchedIn(pendings') = WatchedIn(pendings) \cup {m.id}
  BY <1>2, <1>7, <1>9, RegisteredFacts
<1>11. PageShows' /\ PageWaits' /\ PageLoads' /\ PageWhole'
  <2>1. SendingIn(Marked(m.id, "sending")) = WatchedIn(pendings')
    BY <1>8, <1>9, <1>10
  <2>2. thread.active \in Chats /\ thread.of = thread.active
    BY <1>5 DEF c
  <2> QED
    BY <1>1, <1>2, <1>6, <1>10, <2>1, <2>2, MarkedStep
<1>12. ServerKeeps'
  <2>1. frames' = frames \cup {Pending(m.id, m.chat, m.text)}
    BY <1>2 DEF RegisterPendingMessage
  <2>2. PendingMessages(sent) \subseteq PendingMessages(MaxSent)
    BY <1>3, ThreadBounds DEF PendingMessages
  <2>3. frames' \subseteq PendingMessages(MaxSent)
    BY <1>7, <2>1, <2>2 DEF ThreadInv, ServerKeeps
  <2> QED
    BY <1>1, <2>3, ThreadBounds DEF ThreadInv, ServerKeeps
<1> QED
  BY <1>11, <1>12 DEF ThreadInv

\* FailPendingMessage: no longer waited for, and marked as failed.
LEMMA FailedStep ==
  ASSUME ThreadInv, NEW p \in ToSet(pendings), FailPendingMessage(p),
         UNCHANGED <<said, loads, echoes, sent, flaws>>
  PROVE  PageShows' /\ PageWaits' /\ PageLoads' /\ PageWhole'
<1> DEFINE c == thread.active
           q == thread.messages
           n == SaidIn(thread.active)
<1>1. /\ pendings' = WithoutPending(p.id)
      /\ thread' = [thread EXCEPT !.messages = Marked(p.id, "failed")]
  BY DEF FailPendingMessage, ForgetPending
<1>2. /\ n \in Nat /\ sent \in Nat /\ sent <= MaxSent
      /\ q \in Seq(ShownIn(c, n, sent)) /\ Single(q)
  BY SaidInFacts DEF ThreadInv, PageShows
<1>3. /\ pendings \in Seq(PendingMessages(sent)) /\ OneTimerEach(pendings)
      /\ SendingIn(q) = WatchedIn(pendings)
  BY DEF ThreadInv, PageWaits
<1>4. p \in PendingMessages(sent)
  BY <1>3, Lists
<1>5. p.id \in 1..sent
  BY <1>4 DEF PendingMessages
<1>6. c \in Chats /\ thread.of = c
  <2>1. p.id \in SendingIn(q)
    BY <1>3 DEF WatchedIn
  <2>2. q # <<>>
    BY <2>1 DEF SendingIn, ToSet
  <2> QED
    BY <2>2, SomethingIsOpen DEF ThreadInv
<1> HIDE DEF q, n, c
<1>7. SendingIn(Marked(p.id, "failed")) = SendingIn(q) \ {p.id}
  BY <1>2, <1>5, MarkedFacts DEF q
<1>8. /\ pendings' \in Seq(PendingMessages(sent)) /\ OneTimerEach(pendings')
      /\ WatchedIn(pendings') = WatchedIn(pendings) \ {p.id}
  BY <1>1, <1>3, WithoutPendingFacts
<1>9. SendingIn(Marked(p.id, "failed")) = WatchedIn(pendings')
  BY <1>3, <1>7, <1>8
<1>10. thread.active \in Chats /\ thread.of = thread.active
  BY <1>6 DEF c
<1> QED
  BY <1>1, <1>5, <1>8, <1>9, <1>10, MarkedStep

\* AckTimeout.
LEMMA AckTimeoutStep ==
  ASSUME ThreadInv, AckTimeout
  PROVE  ThreadInv'
<1>1. /\ \E p \in ToSet(pendings) : FailPendingMessage(p)
      /\ UNCHANGED <<said, frames, echoes, errors, loads, sent, failures, flaws>>
  BY DEF AckTimeout, threadServer
<1>2. PageShows' /\ PageWaits' /\ PageLoads' /\ PageWhole'
  BY <1>1, FailedStep
<1>3. ServerKeeps'
  BY <1>1 DEF ThreadInv, ServerKeeps
<1> QED
  BY <1>2, <1>3 DEF ThreadInv

\* HandleServerError: of whichever message has been waited for longest.
LEMMA ServerErrorStep ==
  ASSUME ThreadInv, HandleServerError
  PROVE  ThreadInv'
<1>1. /\ errors > 0 /\ errors' = errors - 1
      /\ UNCHANGED <<said, frames, echoes, loads, sent, failures, flaws>>
      /\ IF pendings = <<>> THEN UNCHANGED <<thread, pendings>> ELSE FailPendingMessage(Head(pendings))
  BY DEF HandleServerError
<1>2. ServerKeeps'
  BY <1>1 DEF ThreadInv, ServerKeeps
<1>3. CASE pendings = <<>>
  BY <1>1, <1>2, <1>3 DEF ThreadInv, PageShows, PageWaits, PageLoads, PageWhole, SaidIn
<1>4. CASE pendings # <<>>
  <2>1. pendings \in Seq(PendingMessages(sent))
    BY DEF ThreadInv, PageWaits
  <2>2. 1 \in 1..Len(pendings) /\ Head(pendings) = pendings[1]
    BY <1>4, <2>1
  <2>3. Head(pendings) \in ToSet(pendings)
    BY <2>1, <2>2, Lists
  <2>4. PageShows' /\ PageWaits' /\ PageLoads' /\ PageWhole'
    BY <1>1, <1>4, <2>3, FailedStep
  <2> QED
    BY <1>2, <2>4 DEF ThreadInv
<1> QED
  BY <1>3, <1>4

-----------------------------------------------------------------------------
(* Broadcasts that come in.                                                  *)

\* A saved message is one its conversation may show.
LEMMA StoredIsShown ==
  ASSUME NEW c \in Chats, said[c] \in Seq(Replies \cup {FromCustomer}), Len(said[c]) <= MaxSaid,
         NEW k \in Nat, NEW i \in 1..Len(said[c])
  PROVE  /\ Stored(c, i) \in ShownIn(c, Len(said[c]), k)
         /\ Stored(c, i).seq = i /\ Stored(c, i).id = 0 /\ Stored(c, i).state = "sent"
         /\ IsStored(Stored(c, i)) /\ i # 0
<1>1. i \in 0..MaxSaid /\ i # 0 /\ i <= Len(said[c]) /\ 0 \in 0..MaxSent
  BY ThreadBounds
<1>2. said[c][i] \in Replies \cup {FromCustomer}
  OBVIOUS
<1>3. Stored(c, i) \in ThreadMessage
  BY <1>1, <1>2 DEF Stored, ThreadMessage
<1> QED
  BY <1>1, <1>3 DEF Stored, ShownIn, IsStored

\* Of a list only the set of its messages says what it shows and what is being sent.
LEMMA SameMessages ==
  ASSUME NEW q, NEW r, ToSet(r) = ToSet(q)
  PROVE  SendingIn(r) = SendingIn(q) /\ \A i : Shows(r, i) <=> Shows(q, i)
BY DEF SendingIn, Shows

\* What the page shows and waits for after a broadcast has come in: the messages r,
\* the timers of those that are being sent.
LEMMA EchoStep ==
  ASSUME ThreadInv, NEW i \in echoes, echoes' = echoes \ {i}, thread.active \in Chats,
         NEW r \in Seq(ShownIn(thread.active, SaidIn(thread.active), sent)), Single(r),
         thread' = [thread EXCEPT !.of = thread.active, !.messages = r],
         UNCHANGED <<said, frames, errors, loads, sent, failures>>,
         pendings' \in Seq(PendingMessages(sent)), OneTimerEach(pendings'),
         SendingIn(r) = WatchedIn(pendings'),
         flaws' \subseteq Flaws,
         flaws' = {} => /\ flaws = {} /\ Ordered(r)
                        /\ \A j \in 1..SaidIn(thread.active) :
                             Shows(r, j) <=> Shows(thread.messages, j) \/ j = i
  PROVE  ThreadInv'
<1> DEFINE a == thread.active
           n == SaidIn(thread.active)
           q == thread.messages
           E == echoes
           next == thread.next
           M == ShownIn(a, n, sent)
<1>1. r \in Seq(ThreadMessage)
  <2>1. M \subseteq ThreadMessage /\ r \in Seq(M)
    BY DEF ShownIn
  <2> HIDE DEF M
  <2> QED
    BY <2>1
<1>2. /\ thread'.active = a /\ thread'.of = a /\ thread'.messages = r /\ thread'.next = next
      /\ thread' \in [active : Chats \cup {NoChat}, of : Chats \cup {NoChat},
                      messages : Seq(ThreadMessage), next : Nat, total : Nat, busy : BOOLEAN]
  <2>1. thread \in [active : Chats \cup {NoChat}, of : Chats \cup {NoChat},
                    messages : Seq(ThreadMessage), next : Nat, total : Nat, busy : BOOLEAN]
    BY DEF ThreadInv, PageShows
  <2> QED
    BY <1>1, <2>1
<1> HIDE DEF a, n, q, next, M
<1>3. PageShows'
  <2>1. echoes' \subseteq echoes
    OBVIOUS
  <2> QED
    BY <1>2, <2>1, ScreenChanges DEF a
<1>4. PageWaits'
  BY <1>2 DEF PageWaits
<1>5. PageLoads'
  BY <1>2 DEF ThreadInv, PageLoads, a
<1>6. ServerKeeps'
  BY DEF ThreadInv, ServerKeeps
<1>7. PageWhole'
  <2> SUFFICES ASSUME flaws' = {} PROVE Whole(r, E \ {i}, n, next, loads)
    BY <1>2 DEF PageWhole, SaidIn, n, a
  <2>1. /\ flaws = {} /\ Ordered(r)
        /\ \A j \in 1..n : Shows(r, j) <=> Shows(q, j) \/ j = i
    BY DEF n, q
  <2>2. Whole(q, E, n, next, loads)
    BY <2>1 DEF ThreadInv, PageWhole, q, n, next
  <2>3. \A j \in 1..n : Brought(q, E, j) <=> Brought(r, E \ {i}, j)
    BY <2>1 DEF Brought
  <2> HIDE DEF E
  <2> QED
    BY <2>1, <2>2, <2>3, WholeKept
<1> QED
  BY <1>3, <1>4, <1>5, <1>6, <1>7 DEF ThreadInv

\* HandleChatMessage: shown already, shown now, or in place of the message it is
\* matched with.
LEMMA ChatMessageStep ==
  ASSUME ThreadInv, NEW i \in 1..MaxSaid, HandleChatMessage(i)
  PROVE  ThreadInv'
<1> DEFINE a == thread.active
           n == SaidIn(thread.active)
           q == thread.messages
           m == Stored(thread.active, i)
           matched == IF Matches(i) = <<>> THEN 0 ELSE Head(Matches(i)).id
           M == ShownIn(a, n, sent)
           added == SortMessagesByServerOrder(Append(q, m))
           replaced == [j \in DOMAIN q |-> IF q[j].id = matched THEN m ELSE q[j]]
           merged == SortMessagesByServerOrder(replaced)
<1>1. /\ i \in echoes /\ echoes' = echoes \ {i}
      /\ UNCHANGED <<said, frames, errors, loads, sent, failures>>
      /\ \/ /\ Shows(q, i)
            /\ thread' = [thread EXCEPT !.of = a]
            /\ UNCHANGED <<pendings, flaws>>
         \/ /\ ~Shows(q, i)
            /\ thread' = [thread EXCEPT !.of = a, !.messages = added]
            /\ UNCHANGED <<pendings, flaws>>
         \/ /\ ~Shows(q, i)
            /\ matched # 0
            /\ pendings' = WithoutPending(matched)
            /\ thread' = [thread EXCEPT !.of = a, !.messages = merged]
            /\ UNCHANGED flaws
         \/ /\ ~Shows(q, i)
            /\ matched = 0
            /\ thread' = [thread EXCEPT !.of = a]
            /\ flaws' = flaws \cup {"echo dropped"}
            /\ UNCHANGED pendings
  BY DEF HandleChatMessage
<1>2. a \in Chats /\ a # NoChat
  <2>1. a # NoChat
    BY <1>1, NothingIsOpen DEF ThreadInv
  <2> QED
    BY <2>1, SaidInFacts DEF ThreadInv
<1>3. /\ n = Len(said[a]) /\ n \in Nat /\ sent \in Nat /\ sent <= MaxSent
      /\ said[a] \in Seq(Replies \cup {FromCustomer}) /\ Len(said[a]) <= MaxSaid
  BY <1>2, SaidInFacts DEF ThreadInv, ServerKeeps
<1>4. /\ q \in Seq(M) /\ Single(q) /\ flaws \subseteq Flaws
      /\ thread \in [active : Chats \cup {NoChat}, of : Chats \cup {NoChat},
                     messages : Seq(ThreadMessage), next : Nat, total : Nat, busy : BOOLEAN]
  BY DEF ThreadInv, PageShows, ServerKeeps
<1>5. i \in 1..n
  BY <1>1 DEF ThreadInv, PageShows
<1>6. m \in M /\ m.seq = i /\ m.id = 0 /\ m.state = "sent" /\ IsStored(m) /\ i # 0
  BY <1>2, <1>3, <1>5, StoredIsShown
<1>7. /\ pendings \in Seq(PendingMessages(sent)) /\ OneTimerEach(pendings)
      /\ SendingIn(q) = WatchedIn(pendings)
  BY DEF ThreadInv, PageWaits
<1>8. M \subseteq ThreadMessage /\ \A x \in M : x.id # 0 <=> ~IsStored(x)
  BY DEF ShownIn, IsStored
<1>w. flaws = {} => Ordered(q)
  BY DEF ThreadInv, PageWhole, Whole
<1> HIDE DEF m, matched, M, q, n, a, added, replaced, merged
<1>9. /\ \A j \in 1..Len(q) : ~Shows(q, i) => q[j].seq # i
  BY <1>4, ShowsByPlace
<1>10. ASSUME NEW r \in Seq(M), Single(r), thread' = [thread EXCEPT !.of = a, !.messages = r],
              pendings' \in Seq(PendingMessages(sent)), OneTimerEach(pendings'),
              SendingIn(r) = WatchedIn(pendings'),
              flaws' \subseteq Flaws,
              flaws' = {} => flaws = {} /\ Ordered(r) /\ \A j \in 1..n : Shows(r, j) <=> Shows(q, j) \/ j = i
       PROVE  ThreadInv'
  BY <1>1, <1>2, <1>10, EchoStep DEF a, n, q, M
<1>11. CASE /\ thread' = [thread EXCEPT !.of = a]
            /\ UNCHANGED pendings
            /\ \/ Shows(q, i) /\ flaws' = flaws
               \/ flaws' = flaws \cup {"echo dropped"}
  <2>1. thread' = [thread EXCEPT !.of = a, !.messages = q]
    BY <1>4, <1>11 DEF q
  <2>2. flaws' \subseteq Flaws
    BY <1>4, <1>11 DEF Flaws
  <2>3. flaws' = {} => flaws = {} /\ Ordered(q) /\ \A j \in 1..n : Shows(q, j) <=> Shows(q, j) \/ j = i
    BY <1>11, <1>w
  <2> QED
    BY <1>4, <1>7, <1>10, <1>11, <2>1, <2>2, <2>3
<1>12. CASE /\ ~Shows(q, i)
            /\ thread' = [thread EXCEPT !.of = a, !.messages = added]
            /\ UNCHANGED <<pendings, flaws>>
  <2> DEFINE s == Append(q, m)
  <2>1. /\ s \in Seq(M) /\ Single(s) /\ SendingIn(s) = SendingIn(q)
        /\ \A j : Shows(s, j) <=> Shows(q, j) \/ j = m.seq
    <3>1. /\ \A j \in 1..Len(q) : IsStored(m) => q[j].seq # m.seq
          /\ \A j \in 1..Len(q) : m.id # 0 => q[j].id # m.id
      BY <1>6, <1>9, <1>12
    <3>2. m.state # "sending" /\ m \in M
      BY <1>6
    <3> QED
      BY <1>4, <1>8, <3>1, <3>2, AppendedFacts
  <2> HIDE DEF s
  <2>2. added = SortMessagesByServerOrder(s)
    BY DEF added, s
  <2>3. /\ added \in Seq(M) /\ ToSet(added) = ToSet(s) /\ Single(added) /\ Ordered(added)
    BY <1>8, <2>1, <2>2, ServerOrder
  <2>4. /\ SendingIn(added) = SendingIn(q)
        /\ \A j \in 1..n : Shows(added, j) <=> Shows(q, j) \/ j = i
    BY <1>6, <2>1, <2>3, SameMessages
  <2> QED
    BY <1>4, <1>7, <1>10, <1>12, <2>3, <2>4
<1>13. CASE /\ ~Shows(q, i)
            /\ matched # 0
            /\ pendings' = WithoutPending(matched)
            /\ thread' = [thread EXCEPT !.of = a, !.messages = merged]
            /\ UNCHANGED flaws
  <2>1. matched \in 1..sent /\ matched \in WatchedIn(pendings)
    <3>1. Matches(i) # <<>> /\ matched = Head(Matches(i)).id
      BY <1>13 DEF matched
    <3>2. Head(Matches(i)) \in ToSet(pendings) /\ Head(Matches(i)) \in PendingMessages(sent)
      BY <1>7, <3>1, MatchFacts
    <3> QED
      BY <3>1, <3>2 DEF PendingMessages, WatchedIn
  <2>2. replaced \in Seq(M) /\ Len(replaced) = Len(q)
    BY <1>4, <1>6, ReplacedList DEF replaced
  <2>3. \A j \in 1..Len(q) : replaced[j] = IF q[j].id = matched THEN m ELSE q[j]
    <3>1. DOMAIN q = 1..Len(q)
      BY <1>4
    <3> QED
      BY <3>1 DEF replaced
  <2>4. /\ Single(replaced)
        /\ SendingIn(replaced) = SendingIn(q) \ {matched}
        /\ \A j : Shows(replaced, j) => Shows(q, j) \/ j = m.seq
        /\ \A j : j # 0 /\ Shows(q, j) => Shows(replaced, j)
        /\ matched \in SendingIn(q) => Shows(replaced, m.seq)
    <3>1. ~Shows(q, m.seq) /\ IsStored(m) /\ m \in M /\ m.state = "sent"
      BY <1>6, <1>13
    <3> QED
      BY <1>4, <1>8, <1>13, <2>2, <2>3, <3>1, ReplacedFacts
  <2>5. /\ merged \in Seq(M) /\ ToSet(merged) = ToSet(replaced) /\ Single(merged) /\ Ordered(merged)
    BY <1>8, <2>2, <2>4, ServerOrder DEF merged
  <2>6. /\ SendingIn(merged) = SendingIn(q) \ {matched}
        /\ \A j \in 1..n : Shows(merged, j) <=> Shows(q, j) \/ j = i
    <3>1. SendingIn(merged) = SendingIn(replaced) /\ \A j : Shows(merged, j) <=> Shows(replaced, j)
      BY <2>5, SameMessages
    <3>2. Shows(replaced, i)
      BY <1>6, <1>7, <2>1, <2>4
    <3> QED
      BY <1>6, <2>4, <3>1, <3>2
  <2>7. /\ pendings' \in Seq(PendingMessages(sent)) /\ OneTimerEach(pendings')
        /\ WatchedIn(pendings') = WatchedIn(pendings) \ {matched}
    BY <1>7, <1>13, WithoutPendingFacts
  <2> QED
    BY <1>4, <1>7, <1>10, <1>13, <2>5, <2>6, <2>7
<1> QED
  BY <1>1, <1>11, <1>12, <1>13

-----------------------------------------------------------------------------
(* Opening a conversation, and its pages.                                    *)

\* Open: nothing shown, nothing waited for, the older pages' requests left behind.
LEMMA OpenStep ==
  ASSUME ThreadInv, NEW c \in Chats \cup {NoChat}, Open(c)
  PROVE  ThreadInv'
<1> DEFINE first == IF c = NoChat THEN {} ELSE {Load(c, 0)}
<1>1. /\ Cardinality(LeftBehind) < MaxLoads
      /\ thread' = [active |-> c, of |-> NoChat, messages |-> <<>>, next |-> 0, total |-> 0, busy |-> FALSE]
      /\ pendings' = <<>> /\ echoes' = {} /\ flaws' = {}
      /\ loads' = LeftBehind \cup first
      /\ UNCHANGED <<said, frames, errors, sent, failures>>
  BY DEF Open, EmptyThread, ClearPendingMessages
<1>2. ServerKeeps'
  BY <1>1 DEF ThreadInv, ServerKeeps
<1>3. PageShows'
  <2>1. thread'.active = c /\ thread'.of = NoChat /\ thread'.messages = <<>>
    BY <1>1
  <2>2. thread' \in [active : Chats \cup {NoChat}, of : Chats \cup {NoChat},
                     messages : Seq(ThreadMessage), next : Nat, total : Nat, busy : BOOLEAN]
    BY <1>1
  <2>3. thread'.messages \in Seq(ShownIn(thread'.active, SaidIn(thread.active)', sent'))
    BY <2>1
  <2>4. Single(thread'.messages)
    BY <2>1 DEF Single
  <2> QED
    BY <1>1, <2>1, <2>2, <2>3, <2>4 DEF PageShows
<1>4. PageWaits'
  <2>1. SendingIn(<<>>) = {} /\ WatchedIn(<<>>) = {} /\ OneTimerEach(<<>>)
    BY DEF SendingIn, WatchedIn, OneTimerEach, ToSet
  <2>2. thread'.messages = <<>> /\ pendings' = <<>> /\ sent' = sent
    BY <1>1
  <2>3. pendings' \in Seq(PendingMessages(sent')) /\ OneTimerEach(pendings')
    BY <2>1, <2>2
  <2>4. SendingIn(thread'.messages) = WatchedIn(pendings')
    BY <2>1, <2>2
  <2> QED
    BY <2>3, <2>4 DEF PageWaits
<1>5. \A x \in LeftBehind :
        /\ x \in LoadRecords /\ x.late /\ x.page # 0 /\ x.upTo <= Len(said[x.chat])
  <2> SUFFICES ASSUME NEW l \in loads, l.page # 0
               PROVE  LET x == [l EXCEPT !.late = TRUE]
                      IN  x \in LoadRecords /\ x.late /\ x.page # 0 /\ x.upTo <= Len(said[x.chat])
    BY DEF LeftBehind
  <2>1. l \in LoadRecords /\ l.upTo <= Len(said[l.chat])
    BY DEF ThreadInv, PageLoads
  <2> QED
    BY <2>1 DEF LoadRecords
<1>6. ASSUME c # NoChat
      PROVE  /\ Load(c, 0) \in LoadRecords /\ ~Load(c, 0).late /\ Load(c, 0).chat = c
             /\ Load(c, 0).upTo = 0 /\ Load(c, 0).page = 0 /\ ~Load(c, 0).read
             /\ c \in Chats /\ Len(said[c]) \in Nat
  <2>1. c \in Chats /\ Len(said[c]) \in Nat
    BY <1>6, SaidInFacts DEF ThreadInv
  <2> QED
    BY <2>1 DEF Load, LoadRecords
<1>7. PageLoads'
  <2>1. IsFiniteSet(LeftBehind)
    <3> DEFINE S == {l \in loads : l.page # 0}
               f == [l \in S |-> [l EXCEPT !.late = TRUE]]
    <3>1. IsFiniteSet(S)
      BY FS_Subset DEF ThreadInv, PageLoads
    <3>2. f \in Surjection(S, LeftBehind)
      BY DEF LeftBehind, Surjection
    <3> HIDE DEF f, S
    <3> QED
      BY <3>1, <3>2, FS_Surjection
  <2>2. IsFiniteSet(loads') /\ Cardinality(loads') <= MaxLoads
    <3> DEFINE k == Cardinality(LeftBehind)
               k2 == Cardinality(LeftBehind \cup {Load(c, 0)})
    <3>1. k \in Nat
      BY <2>1, FS_CardinalityType
    <3>2. IsFiniteSet(LeftBehind \cup {Load(c, 0)}) /\ (k2 = k \/ k2 = k + 1)
      BY <2>1, FS_AddElement
    <3> HIDE DEF k, k2
    <3>3. k < MaxLoads
      BY <1>1 DEF k
    <3>4. k <= MaxLoads /\ k2 <= MaxLoads
      BY <3>1, <3>2, <3>3, ThreadBounds
    <3>5. loads' = LeftBehind \/ loads' = LeftBehind \cup {Load(c, 0)}
      BY <1>1
    <3> QED
      BY <2>1, <3>2, <3>4, <3>5 DEF k, k2
  <2>3. ASSUME NEW x \in loads'
        PROVE  /\ x \in LoadRecords /\ x.upTo <= Len(said[x.chat])
               /\ (x.page = 0 => ~x.late) /\ (~x.late => x.chat = c)
    <3>1. CASE x \in LeftBehind
      BY <1>5, <3>1
    <3>2. CASE c # NoChat /\ x = Load(c, 0)
      BY <1>6, <3>2
    <3> QED
      BY <1>1, <3>1, <3>2
  <2>4. thread'.active = c
    BY <1>1
  <2> QED
    BY <1>1, <2>2, <2>3, <2>4 DEF PageLoads
<1>8. PageWhole'
  <2> DEFINE k == SaidIn(c)'
  <2>1. k \in Nat
    <3>1. CASE c = NoChat
      BY <3>1 DEF SaidIn
    <3>2. CASE c # NoChat
      BY <1>1, <1>6, <3>2 DEF SaidIn
    <3> QED
      BY <3>1, <3>2
  <2>2. thread'.active = c /\ thread'.messages = <<>> /\ thread'.next = 0
    BY <1>1
  <2>3. SaidIn(thread.active)' = k
    BY <2>2 DEF SaidIn
  <2> HIDE DEF k
  <2>4. \A j \in 1..k : ~Brought(<<>>, {}, j)
    BY DEF Brought, Shows, ToSet
  <2>5. Reaches(<<>>, {}, k, 0, k)
    BY <2>1, Pages DEF Reaches
  <2>6. ASSUME NEW x \in loads', ~x.late
        PROVE  Reaches(<<>>, {}, k, x.page, IF x.read THEN x.upTo ELSE k)
    <3>1. c # NoChat /\ x = Load(c, 0)
      BY <1>1, <1>5, <2>6
    <3> QED
      BY <1>6, <2>5, <3>1
  <2>7. Whole(<<>>, {}, k, 0, loads')
    BY <2>4, <2>5, <2>6 DEF Whole, Ordered
  <2> QED
    BY <1>1, <2>2, <2>3, <2>7 DEF PageWhole
<1> QED
  BY <1>2, <1>3, <1>4, <1>7, <1>8 DEF ThreadInv

\* A page that continues what the page has been brought, shown with it.
LEMMA PageBrings ==
  ASSUME NEW q, NEW ech, NEW n \in Nat, NEW next, NEW lds, Whole(q, ech, n, next, lds),
         NEW l \in lds, ~l.late, l.read, l.page \in Nat, l.upTo \in Nat, l.upTo <= n,
         NEW r, Ordered(r),
         \A i \in 1..n : Shows(r, i) <=> Shows(q, i) \/ i \in PageOf(l.chat, l.page, l.upTo)
  PROVE  Whole(r, ech, n, l.page + 1, lds \ {l})
<1> DEFINE p == l.page
           u == l.upTo
           d == p * PageSize
           page == PageOf(l.chat, p, u)
           before(j) == Brought(q, ech, j)
           after(j) == Brought(r, ech, j)
<1>0. d \in Nat /\ (p + 1) * PageSize = d + PageSize /\ PageSize \in Nat /\ p \in Nat /\ u \in Nat /\ u <= n
  BY Pages, ThreadBounds
<1>1. Reaches(q, ech, n, p, u)
  BY DEF Whole
<1>2. \A i \in 1..n : i + d > u => before(i)
  BY <1>1 DEF Reaches
<1>3. \A i, j \in 1..n : i < j /\ before(i) => before(j)
  BY DEF Whole
<1>4. \A i \in 1..n : after(i) <=> before(i) \/ i \in page
  BY DEF Brought
<1>5. \A i \in 1..n : i \in page <=> i <= u /\ d <= u - i /\ u - i < d + PageSize
  <2>1. page = {i \in 1..u : d <= u - i /\ u - i < d + PageSize}
    BY <1>0 DEF PageOf
  <2> HIDE DEF page, d, u
  <2> QED
    BY <1>0, <2>1
<1> HIDE DEF p, u, d, page, before, after
<1>6. \A i, j \in 1..n : i < j /\ after(i) => after(j)
  <2> SUFFICES ASSUME NEW i \in 1..n, NEW j \in 1..n, i < j, after(i) PROVE after(j)
    OBVIOUS
  <2>1. CASE before(i)
    BY <1>3, <1>4, <2>1
  <2>2. CASE i \in page
    <3>1. j + d > u \/ (j <= u /\ d <= u - j /\ u - j < d + PageSize)
      BY <1>0, <1>5, <2>2
    <3> QED
      BY <1>2, <1>4, <1>5, <3>1
  <2> QED
    BY <1>4, <2>1, <2>2
<1>7. \A i \in 1..n : i + (d + PageSize) > u => after(i)
  <2> SUFFICES ASSUME NEW i \in 1..n, i + (d + PageSize) > u PROVE after(i)
    OBVIOUS
  <2>1. i + d > u \/ (i <= u /\ d <= u - i /\ u - i < d + PageSize)
    BY <1>0
  <2> QED
    BY <1>2, <1>4, <1>5, <2>1
<1>8. Reaches(r, ech, n, p + 1, n)
  <2> SUFFICES ASSUME NEW i \in 1..n, i + (d + PageSize) > n PROVE after(i)
    BY <1>0 DEF Reaches, after
  <2>1. i + (d + PageSize) > u
    BY <1>0
  <2> QED
    BY <1>7, <2>1
<1>9. ASSUME NEW x \in lds, ~x.late
      PROVE  Reaches(r, ech, n, x.page, IF x.read THEN x.upTo ELSE n)
  <2>1. Reaches(q, ech, n, x.page, IF x.read THEN x.upTo ELSE n)
    BY <1>9 DEF Whole
  <2>2. \A i \in 1..n : Brought(q, ech, i) => Brought(r, ech, i)
    BY <1>4 DEF before, after
  <2> DEFINE v == IF x.read THEN x.upTo ELSE n
  <2> HIDE DEF v
  <2>3. Reaches(q, ech, n, x.page, v)
    BY <2>1 DEF v
  <2>4. Reaches(r, ech, n, x.page, v)
    BY <2>2, <2>3 DEF Reaches
  <2> QED
    BY <2>4 DEF v
<1>10. \A i, j \in 1..n : i < j /\ Brought(r, ech, i) => Brought(r, ech, j)
  BY <1>6 DEF after
<1> QED
  BY <1>8, <1>9, <1>10 DEF Whole, p

\* What the page shows with the messages of a page it did not show yet, before or
\* behind the others.
LEMMA PageJoined ==
  ASSUME NEW l, IsAnswer(l), NEW k \in Nat, NEW M, M = ShownIn(l.chat, Len(said[l.chat]), k),
         NEW q \in Seq(M), Single(q), NEW P, P = PageMessages(l, q),
         NEW J, J = q \o P \/ J = P \o q
  PROVE  /\ J \in Seq(M) /\ Single(J) /\ SendingIn(J) = SendingIn(q)
         /\ \A i \in 1..Len(said[l.chat]) :
              Shows(J, i) <=> Shows(q, i) \/ i \in PageOf(l.chat, l.page, l.upTo)
<1> DEFINE page == PageOf(l.chat, l.page, l.upTo)
           N == NotShown(l, q)
<1>1. /\ P \in Seq(M)
      /\ ToSet(P) = {Stored(l.chat, i) : i \in N}
      /\ \A i \in N : i \in 1..l.upTo
      /\ Single(P)
  BY PageFacts
<1>2. \A i \in N : /\ Stored(l.chat, i).seq = i /\ Stored(l.chat, i).id = 0 /\ i # 0
                   /\ Stored(l.chat, i).state = "sent" /\ IsStored(Stored(l.chat, i))
  <2> TAKE i \in N
  <2>1. i \in 1..Len(said[l.chat])
    BY <1>1 DEF IsAnswer
  <2> QED
    BY <2>1, StoredIsShown DEF IsAnswer
<1>3. M \subseteq ThreadMessage /\ \A x \in M : x.id # 0 <=> ~IsStored(x)
  BY DEF ShownIn, IsStored
<1>4. q \in Seq(ThreadMessage) /\ P \in Seq(ThreadMessage)
  <2>1. \A s \in Seq(M) : s \in Seq(ThreadMessage)
    BY <1>3
  <2> QED
    BY <1>1, <2>1
<1> HIDE DEF N, page
<1>5. \A x \in ToSet(P) : \E i \in N : x.seq = i /\ x.id = 0 /\ x.state = "sent" /\ i # 0
  BY <1>1, <1>2
<1>6. \A i \in N : \E x \in ToSet(P) : x.seq = i
  BY <1>1, <1>2
<1>7. \A x \in ToSet(q) : x.seq \notin N /\ (x.seq # 0 => x.id = 0)
  <2> TAKE x \in ToSet(q)
  <2>1. x \in M
    BY Lists
  <2>2. Shows(q, x.seq)
    BY DEF Shows
  <2> QED
    BY <1>3, <2>1, <2>2 DEF IsStored, N, NotShown
<1>8. \A x \in ToSet(P), y \in ToSet(q) :
        /\ x.seq # y.seq
        /\ x.id # 0 \/ y.id # 0 => x.id # y.id
  BY <1>5, <1>7
<1>9. Single(q \o P)
  BY <1>1, <1>4, <1>8, SingleJoined
<1>10. Single(P \o q)
  BY <1>1, <1>4, <1>8, SingleJoined
<1>11. J \in Seq(M) /\ ToSet(J) = ToSet(q) \cup ToSet(P)
  <2>1. q \o P \in Seq(M) /\ ToSet(q \o P) = ToSet(q) \cup ToSet(P)
    BY <1>1, Concatenated
  <2>2. P \o q \in Seq(M) /\ ToSet(P \o q) = ToSet(P) \cup ToSet(q)
    BY <1>1, Concatenated
  <2> QED
    BY <2>1, <2>2
<1>12. SendingIn(J) = SendingIn(q)
  BY <1>5, <1>11 DEF SendingIn
<1>13. ASSUME NEW i \in 1..Len(said[l.chat]) PROVE Shows(J, i) <=> Shows(q, i) \/ i \in page
  <2>1. Shows(J, i) <=> Shows(q, i) \/ \E x \in ToSet(P) : x.seq = i
    BY <1>11 DEF Shows
  <2>2. i \in N <=> i \in page /\ ~Shows(q, i)
    BY DEF N, NotShown, page
  <2> QED
    BY <1>5, <1>6, <2>1, <2>2
<1> QED
  BY <1>9, <1>10, <1>11, <1>12, <1>13 DEF page

\* What the page shows, waits for and loads after a page has come in: the messages r.
LEMMA PagedStep ==
  ASSUME ThreadInv, NEW l \in loads, l.chat = thread.active, l.read, l.page \in Nat, l.upTo \in Nat,
         NEW r \in Seq(ShownIn(thread.active, SaidIn(thread.active), sent)), Single(r),
         loads' = loads \ {l}, thread' = Paged(r, l),
         UNCHANGED <<said, frames, echoes, errors, pendings, sent, failures>>,
         SendingIn(r) = SendingIn(thread.messages), flaws' \subseteq Flaws,
         flaws' = {} => /\ flaws = {} /\ ~l.late /\ Ordered(r)
                        /\ \A i \in 1..SaidIn(thread.active) :
                             Shows(r, i) <=> Shows(thread.messages, i) \/ i \in PageOf(l.chat, l.page, l.upTo)
  PROVE  ThreadInv'
<1> DEFINE a == thread.active
           n == SaidIn(thread.active)
           q == thread.messages
           next == thread.next
           M == ShownIn(a, n, sent)
<1>1. /\ a \in Chats /\ n \in Nat /\ l.upTo <= n
  <2>1. l.chat \in Chats /\ l.upTo <= Len(said[l.chat])
    BY DEF ThreadInv, PageLoads, LoadRecords
  <2> QED
    BY <2>1, SaidInFacts DEF ThreadInv
<1>2. r \in Seq(ThreadMessage)
  <2>1. M \subseteq ThreadMessage /\ r \in Seq(M)
    BY DEF ShownIn
  <2> HIDE DEF M
  <2> QED
    BY <2>1
<1>3. /\ thread'.active = a /\ thread'.of = a /\ thread'.messages = r /\ thread'.next = l.page + 1
      /\ thread' \in [active : Chats \cup {NoChat}, of : Chats \cup {NoChat},
                      messages : Seq(ThreadMessage), next : Nat, total : Nat, busy : BOOLEAN]
  <2>1. thread \in [active : Chats \cup {NoChat}, of : Chats \cup {NoChat},
                    messages : Seq(ThreadMessage), next : Nat, total : Nat, busy : BOOLEAN]
    BY DEF ThreadInv, PageShows
  <2>2. TotalPages(l.upTo) \in Nat
    BY Pages
  <2>3. l.page + 1 \in Nat
    OBVIOUS
  <2> QED
    BY <1>1, <1>2, <2>1, <2>2, <2>3 DEF Paged
<1> HIDE DEF a, n, q, next, M
<1>4. PageShows'
  BY <1>1, <1>3, ScreenChanges DEF a
<1>5. PageWaits'
  BY <1>3 DEF ThreadInv, PageWaits, q
<1>6. PageLoads'
  BY <1>3, LessLoads DEF a
<1>7. ServerKeeps'
  BY DEF ThreadInv, ServerKeeps
<1>8. PageWhole'
  <2> SUFFICES ASSUME flaws' = {} PROVE Whole(r, echoes, n, l.page + 1, loads \ {l})
    BY <1>3 DEF PageWhole, SaidIn, n, a
  <2>1. /\ flaws = {} /\ ~l.late /\ Ordered(r)
        /\ \A i \in 1..n : Shows(r, i) <=> Shows(q, i) \/ i \in PageOf(l.chat, l.page, l.upTo)
    BY DEF n, q
  <2>2. Whole(q, echoes, n, next, loads)
    BY <2>1 DEF ThreadInv, PageWhole, q, n, next
  <2> QED
    BY <1>1, <2>1, <2>2, PageBrings
<1> QED
  BY <1>4, <1>5, <1>6, <1>7, <1>8 DEF ThreadInv

\* FirstPageArrives: merged with what the broadcasts have brought meanwhile.
LEMMA FirstPageStep ==
  ASSUME ThreadInv, NEW l, FirstPageArrives(l)
  PROVE  ThreadInv'
<1> DEFINE c == l.chat
           q == thread.messages
           P == PageMessages(l, q)
           J == q \o P
           r == MergeMessagesById(q, l)
           M == ShownIn(c, Len(said[c]), sent)
<1>1. /\ l \in loads /\ l.page = 0 /\ l.read /\ loads' = loads \ {l} /\ thread' = Paged(r, l)
      /\ UNCHANGED <<said, frames, echoes, errors, pendings, sent, failures, flaws>>
  BY DEF FirstPageArrives, threadServer
<1>2. /\ l \in LoadRecords /\ l.upTo <= Len(said[c]) /\ ~l.late /\ c = thread.active
  BY <1>1 DEF ThreadInv, PageLoads
<1>3. /\ c \in Chats /\ l.page \in Nat /\ l.upTo \in Nat
  BY <1>2 DEF LoadRecords
<1>4. /\ said[c] \in Seq(Replies \cup {FromCustomer}) /\ Len(said[c]) <= MaxSaid
      /\ SaidIn(thread.active) = Len(said[c]) /\ sent \in Nat
  BY <1>2, <1>3, SaidInFacts DEF ThreadInv, ServerKeeps
<1>5. q \in Seq(M) /\ Single(q) /\ flaws \subseteq Flaws
  BY <1>2, <1>4 DEF ThreadInv, PageShows, ServerKeeps
<1>6. M \subseteq ThreadMessage
  BY DEF ShownIn
<1>7. r = SortMessagesByServerOrder(J)
  BY DEF MergeMessagesById
<1>m. M = ShownIn(thread.active, SaidIn(thread.active), sent)
  BY <1>2, <1>4
<1> HIDE DEF q, P, J, r
<1>a. IsAnswer(l)
  BY <1>2, <1>3, <1>4 DEF IsAnswer
<1>8. /\ J \in Seq(M) /\ Single(J) /\ SendingIn(J) = SendingIn(q)
      /\ \A i \in 1..Len(said[c]) : Shows(J, i) <=> Shows(q, i) \/ i \in PageOf(c, l.page, l.upTo)
  BY <1>a, <1>4, <1>5, PageJoined DEF J, P
<1> HIDE DEF M
<1>9. /\ r \in Seq(M) /\ ToSet(r) = ToSet(J) /\ Single(r) /\ Ordered(r)
  BY <1>6, <1>7, <1>8, ServerOrder
<1>10. /\ SendingIn(r) = SendingIn(q)
       /\ \A i \in 1..Len(said[c]) : Shows(r, i) <=> Shows(q, i) \/ i \in PageOf(c, l.page, l.upTo)
  BY <1>8, <1>9, SameMessages
<1> QED
  BY <1>1, <1>2, <1>3, <1>4, <1>5, <1>9, <1>10, <1>m, PagedStep DEF q

\* PreviousPageArrives: put in front, if the conversation is still open.
LEMMA PreviousPageStep ==
  ASSUME ThreadInv, NEW l, PreviousPageArrives(l)
  PROVE  ThreadInv'
<1> DEFINE c == l.chat
           q == thread.messages
           page == PageOf(l.chat, l.page, l.upTo)
           P == PageMessages(l, q)
           J == P \o q
           M == ShownIn(c, Len(said[c]), sent)
<1>1. /\ l \in loads /\ l.page # 0 /\ l.read /\ loads' = loads \ {l}
      /\ UNCHANGED <<said, frames, echoes, errors, pendings, sent, failures>>
  BY DEF PreviousPageArrives, threadServer
<1>2. CASE thread.active # c
  <2>1. UNCHANGED <<thread, flaws>>
    BY <1>2 DEF PreviousPageArrives, IsStillOpen
  <2>2. ServerKeeps' /\ PageShows' /\ PageWaits'
    BY <1>1, <2>1 DEF ThreadInv, ServerKeeps, PageShows, PageWaits, SaidIn
  <2>3. PageLoads'
    BY <1>1, <2>1, LessLoads
  <2>4. PageWhole'
    BY <1>1, <2>1 DEF ThreadInv, PageWhole, Whole, SaidIn
  <2> QED
    BY <2>2, <2>3, <2>4 DEF ThreadInv
<1>3. CASE thread.active = c
  <2>1. /\ thread' = Paged(J, l)
        /\ flaws' = flaws \cup (IF l.late THEN {"late page"} ELSE {})
                          \cup (IF page \cap echoes # {} THEN {"ahead of echoes"} ELSE {})
    BY <1>3 DEF PreviousPageArrives, IsStillOpen
  <2>2. l \in LoadRecords /\ l.upTo <= Len(said[c])
    BY <1>1 DEF ThreadInv, PageLoads
  <2>3. c \in Chats /\ l.page \in Nat /\ l.upTo \in Nat
    BY <2>2 DEF LoadRecords
  <2>4. /\ said[c] \in Seq(Replies \cup {FromCustomer}) /\ Len(said[c]) <= MaxSaid
        /\ SaidIn(thread.active) = Len(said[c]) /\ sent \in Nat /\ Len(said[c]) \in Nat
    BY <1>3, <2>3, SaidInFacts DEF ThreadInv, ServerKeeps
  <2>5. q \in Seq(M) /\ Single(q) /\ flaws \subseteq Flaws
    BY <1>3, <2>4 DEF ThreadInv, PageShows, ServerKeeps
  <2>6. M = ShownIn(thread.active, SaidIn(thread.active), sent)
    BY <1>3, <2>4
  <2>7. flaws' \subseteq Flaws
    BY <2>1, <2>5 DEF Flaws
  <2>8. M \subseteq ThreadMessage
    BY DEF ShownIn
  <2>a. IsAnswer(l)
    BY <2>2, <2>3, <2>4 DEF IsAnswer
  <2> HIDE DEF q, P, J, page
  <2>9. /\ J \in Seq(M) /\ Single(J) /\ SendingIn(J) = SendingIn(q)
        /\ \A i \in 1..Len(said[c]) : Shows(J, i) <=> Shows(q, i) \/ i \in page
    BY <2>a, <2>4, <2>5, PageJoined DEF J, P, page
  <2>10. ASSUME flaws' = {} PROVE flaws = {} /\ ~l.late /\ page \cap echoes = {}
    BY <2>1, <2>10
  <2>11. ASSUME flaws' = {} PROVE Ordered(J)
    <3> DEFINE n == Len(said[c])
               N == NotShown(l, q)
    <3>1. /\ Ordered(q)
          /\ \A i, j \in 1..n : i < j /\ Brought(q, echoes, i) => Brought(q, echoes, j)
      BY <2>4, <2>10, <2>11 DEF ThreadInv, PageWhole, Whole, q
    <3>2. /\ P \in Seq(M) /\ ToSet(P) = {Stored(c, i) : i \in N} /\ Ordered(P)
          /\ \A i \in N : i \in 1..l.upTo
          /\ \A i \in 1..Len(P) : IsStored(P[i])
      BY <2>a, <2>4, PageFacts DEF P
    <3>3. \A i \in N : i \in 1..n /\ Stored(c, i).seq = i /\ ~Brought(q, echoes, i)
      <4> TAKE i \in N
      <4>1. i \in 1..n
        BY <2>2, <2>3, <2>4, <3>2
      <4>2. Stored(c, i).seq = i
        BY <2>3, <2>4, <4>1, StoredIsShown
      <4> QED
        BY <2>10, <2>11, <4>1, <4>2 DEF Brought, NotShown, page
    <3> HIDE DEF N
    <3>4. \A i \in 1..Len(P) : P[i].seq \in N
      <4> TAKE i \in 1..Len(P)
      <4>1. P[i] \in ToSet(P)
        BY <3>2, Lists
      <4> QED
        BY <3>2, <3>3, <4>1
    <3>5. \A i \in 1..Len(q) : IsStored(q[i]) => q[i].seq \in 1..n /\ Brought(q, echoes, q[i].seq)
      <4> TAKE i \in 1..Len(q)
      <4> HAVE IsStored(q[i])
      <4>1. q[i] \in M
        <5> HIDE DEF M
        <5> QED
          BY <2>5
      <4>2. q[i].seq \in Nat /\ q[i].seq # 0 /\ q[i].seq <= n
        BY <4>1, ThreadBounds DEF ShownIn, ThreadMessage, IsStored
      <4>3. Shows(q, q[i].seq)
        BY <2>5, ShowsByPlace
      <4> QED
        BY <2>4, <4>2, <4>3 DEF Brought
    <3>6. \A x \in N, y \in 1..n : Brought(q, echoes, y) => x < y
      <4> TAKE x \in N, y \in 1..n
      <4> HAVE Brought(q, echoes, y)
      <4>1. x \in 1..n /\ ~Brought(q, echoes, x) /\ x # y
        BY <3>3
      <4>2. ~(y < x)
        BY <3>1, <4>1
      <4> QED
        BY <2>4, <4>1, <4>2
    <3> HIDE DEF M, n
    <3>7. /\ Len(P) \in Nat /\ Len(q) \in Nat /\ Len(J) = Len(P) + Len(q)
          /\ \A i \in 1..Len(P) : J[i] = P[i]
          /\ \A i \in 1..Len(q) : J[Len(P) + i] = q[i]
          /\ \A i \in 1..Len(J) : i \in 1..Len(P) \/ i - Len(P) \in 1..Len(q)
      BY <2>5, <3>2, Concatenated DEF J
    <3>8. \A i \in 1..Len(J) : i - Len(P) \in 1..Len(q) => J[i] = q[i - Len(P)]
      <4> TAKE i \in 1..Len(J)
      <4> HAVE i - Len(P) \in 1..Len(q)
      <4>1. Len(P) + (i - Len(P)) = i
        BY <3>7
      <4> QED
        BY <3>7, <4>1
    <3> SUFFICES ASSUME NEW i \in 1..Len(J), NEW j \in 1..Len(J), i < j, IsStored(J[j])
                 PROVE  IsStored(J[i]) /\ J[i].seq < J[j].seq
      BY DEF Ordered
    <3>9. CASE i \in 1..Len(P) /\ j \in 1..Len(P)
      <4>1. J[i] = P[i] /\ J[j] = P[j] /\ IsStored(P[i]) /\ IsStored(P[j])
        BY <3>2, <3>7, <3>9
      <4> QED
        BY <3>2, <3>9, <4>1 DEF Ordered
    <3>10. CASE i \in 1..Len(P) /\ j - Len(P) \in 1..Len(q)
      <4> DEFINE b == j - Len(P)
      <4>1. J[i] = P[i] /\ IsStored(P[i]) /\ P[i].seq \in N /\ b \in 1..Len(q) /\ J[j] = q[b]
        BY <3>2, <3>4, <3>7, <3>8, <3>10
      <4> HIDE DEF b
      <4>2. q[b].seq \in 1..n /\ Brought(q, echoes, q[b].seq)
        BY <3>5, <4>1
      <4> QED
        BY <3>6, <4>1, <4>2
    <3>11. CASE i - Len(P) \in 1..Len(q) /\ j - Len(P) \in 1..Len(q)
      <4> DEFINE d == i - Len(P)
                 b == j - Len(P)
      <4>1. d \in 1..Len(q) /\ b \in 1..Len(q) /\ d < b /\ J[i] = q[d] /\ J[j] = q[b]
        BY <3>7, <3>8, <3>11
      <4> HIDE DEF b, d
      <4> QED
        BY <3>1, <4>1 DEF Ordered
    <3>12. CASE i - Len(P) \in 1..Len(q) /\ j \in 1..Len(P)
      BY <3>7, <3>12
    <3> QED
      BY <3>7, <3>9, <3>10, <3>11, <3>12
  <2> HIDE DEF M
  <2> QED
    BY <1>1, <1>3, <2>1, <2>3, <2>4, <2>6, <2>7, <2>9, <2>10, <2>11, PagedStep DEF q, page
<1> QED
  BY <1>2, <1>3

-----------------------------------------------------------------------------
(* What the invariant says of the conversation that is open.                 *)

\* Every step keeps the invariant.
LEMMA ThreadInvStep ==
  ASSUME ThreadInv, [ThreadNext]_threadVars
  PROVE  ThreadInv'
<1>1. ASSUME NEW c \in Chats \cup {NoChat}, Open(c) PROVE ThreadInv'
  BY <1>1, OpenStep
<1>2. ASSUME NEW l \in loads, GetMessagePage(l) PROVE ThreadInv'
  BY <1>2, GetMessagePageStep
<1>3. ASSUME NEW l \in loads, FirstPageArrives(l) PROVE ThreadInv'
  BY <1>3, FirstPageStep
<1>4. ASSUME NEW l \in loads, FirstPageFails(l) \/ PreviousPageFails(l) PROVE ThreadInv'
  BY <1>4, PageFailsStep
<1>5. ASSUME NEW l \in loads, PreviousPageArrives(l) PROVE ThreadInv'
  BY <1>5, PreviousPageStep
<1>6. ASSUME HandleLoadPreviousMessages PROVE ThreadInv'
  BY <1>6, LoadPreviousStep
<1>7. ASSUME NEW c \in Chats, CustomerSpeaks(c) PROVE ThreadInv'
  BY <1>7, CustomerSpeaksStep
<1>8. ASSUME NEW f \in frames, ServeCounselorFrame(f) PROVE ThreadInv'
  BY <1>8, ServeFrameStep
<1>9. ASSUME NEW t \in Replies, HandleCounselorSend(t) PROVE ThreadInv'
  BY <1>9, SendStep
<1>10. ASSUME HandleRetryMessage PROVE ThreadInv'
  BY <1>10, RetryStep
<1>11. ASSUME AckTimeout PROVE ThreadInv'
  BY <1>11, AckTimeoutStep
<1>12. ASSUME HandleServerError PROVE ThreadInv'
  BY <1>12, ServerErrorStep
<1>13. ASSUME NEW i \in 1..MaxSaid, HandleChatMessage(i) PROVE ThreadInv'
  BY <1>13, ChatMessageStep
<1>14. CASE UNCHANGED threadVars
  <2>1. UNCHANGED <<said, frames, echoes, errors, thread, pendings, loads, sent, failures, flaws>>
    BY <1>14 DEF threadVars, threadServer
  <2> QED
    BY <2>1 DEF ThreadInv, ServerKeeps, PageShows, PageWaits, PageLoads, PageWhole, SaidIn
<1> QED
  BY <1>1, <1>2, <1>3, <1>4, <1>5, <1>6, <1>7, <1>8, <1>9, <1>10, <1>11, <1>12, <1>13, <1>14
  DEF ThreadNext

\* What is shown is the list of the open conversation.
LEMMA ShownList ==
  ASSUME ThreadInv
  PROVE  Visible = thread.messages
<1>1. thread.of \in {NoChat, thread.active} /\ (thread.of = NoChat => thread.messages = <<>>)
  BY DEF ThreadInv, PageShows
<1> QED
  BY <1>1 DEF Visible

\* The forms the variables have.
LEMMA ThreadHasItsForm ==
  ASSUME ThreadInv
  PROVE  ThreadTypeOK
<1>1. sent \in 0..MaxSent /\ MaxSent \in Nat
  BY ThreadBounds DEF ThreadInv, ServerKeeps
<1>2. pendings \in Seq([id : 1..MaxSent, chat : Chats, text : Replies])
  <2>1. PendingMessages(sent) \subseteq PendingMessages(MaxSent)
    BY <1>1 DEF PendingMessages
  <2>2. pendings \in Seq(PendingMessages(sent))
    BY DEF ThreadInv, PageWaits
  <2>3. pendings \in Seq(PendingMessages(MaxSent))
    BY <2>1, <2>2
  <2> QED
    BY <2>3 DEF PendingMessages
<1>3. \A l \in loads : l.chat \in Chats /\ l.page \in Nat /\ l.upTo <= Len(said[l.chat])
  BY DEF ThreadInv, PageLoads, LoadRecords
<1>4. thread.active # NoChat => \A i \in echoes : i <= Len(said[thread.active])
  <2>1. ServerKeeps /\ PageShows
    BY DEF ThreadInv
  <2>2. echoes \subseteq 1..SaidIn(thread.active)
    BY <2>1 DEF PageShows
  <2>3. thread.active # NoChat =>
          /\ SaidIn(thread.active) = Len(said[thread.active])
          /\ SaidIn(thread.active) \in Nat
    BY <2>1, SaidInFacts
  <2> QED
    BY <2>2, <2>3
<1>5. frames \subseteq [id : 1..MaxSent, chat : Chats, text : Replies]
  BY DEF ThreadInv, ServerKeeps, PendingMessages
<1> QED
  BY <1>1, <1>2, <1>3, <1>4, <1>5 DEF ThreadInv, ServerKeeps, PageShows, PageLoads, ThreadTypeOK

\* The messages shown are the open conversation's, each once.
LEMMA ShownOnce ==
  ASSUME ThreadInv
  PROVE  ThreadIsOfActive
<1> DEFINE q == thread.messages
           M == ShownIn(thread.active, SaidIn(thread.active), sent)
<1>1. Visible = q
  BY ShownList
<1>2. q \in Seq(M) /\ Single(q)
  BY DEF ThreadInv, PageShows
<1>3. \A m \in M : m.chat = thread.active
  BY DEF ShownIn
<1> HIDE DEF M, q
<1>4. \A m \in ToSet(q) : m.chat = thread.active
  BY <1>2, <1>3, Lists
<1>5. \A i, j \in 1..Len(q) : i # j /\ IsStored(q[i]) => q[i].seq # q[j].seq
  BY <1>2 DEF Single
<1> QED
  BY <1>1, <1>4, <1>5 DEF ThreadIsOfActive

\* With nothing under way nothing is missing behind the first message shown.
LEMMA ShownWhole ==
  ASSUME ThreadInv
  PROVE  ThreadIsComplete
<1> SUFFICES ASSUME flaws = {}, thread.active # NoChat
             PROVE  /\ InOrder
                    /\ loads = {} /\ echoes = {} =>
                         \A i \in 1..Len(said[thread.active]) :
                           Shows(Visible, i) =>
                             i = Len(said[thread.active]) \/ Shows(Visible, i + 1)
  BY DEF ThreadIsComplete
<1> DEFINE q == thread.messages
           n == Len(said[thread.active])
<1>1. Visible = q
  BY ShownList
<1>2. SaidIn(thread.active) = n /\ n \in Nat
  BY SaidInFacts DEF ThreadInv
<1>3. Whole(q, echoes, n, thread.next, loads)
  BY <1>2 DEF ThreadInv, PageWhole
<1> HIDE DEF q, n
<1>4. InOrder
  BY <1>1, <1>3 DEF InOrder, Ordered, Whole
<1>5. ASSUME echoes = {}, NEW i \in 1..n, Shows(q, i) PROVE i = n \/ Shows(q, i + 1)
  <2>1. i = n \/ (i + 1 \in 1..n /\ i < i + 1)
    BY <1>2
  <2>2. \A j \in 1..n : Brought(q, echoes, j) <=> Shows(q, j)
    BY <1>5 DEF Brought
  <2> QED
    BY <1>3, <1>5, <2>1, <2>2 DEF Whole
<1> QED
  BY <1>1, <1>4, <1>5 DEF n

\* The invariant of the open conversation: what is shown, waited for and loaded
\* fits together after every step.
THEOREM ThreadInvHolds == ThreadSpec => []ThreadInv
<1>1. ThreadInit => ThreadInv
  BY ThreadInvInit
<1>2. ThreadInv /\ [ThreadNext]_threadVars => ThreadInv'
  BY ThreadInvStep
<1> QED
  BY <1>1, <1>2, PTL DEF ThreadSpec

\* Every variable of the counselor's conversation keeps its form, and no more is
\* loaded at a time than the bound.
THEOREM ThreadTypes == ThreadSpec => []ThreadTypeOK
<1>1. ThreadInv => ThreadTypeOK
  BY ThreadHasItsForm
<1> QED
  BY <1>1, ThreadInvHolds, PTL

\* A message is shown as being sent exactly while a timer runs for it: echoes matched
\* by text, errors that name no message, retries and left conversations never leave
\* one "sending" for good (pendingMessagesRef of ConsultationPage).
THEOREM SendingAlwaysWatched == ThreadSpec => []SendingIsWatched
<1>1. ThreadInv => SendingIsWatched
  BY DEF ThreadInv, PageWaits, SendingIn, WatchedIn, SendingIsWatched
<1> QED
  BY <1>1, ThreadInvHolds, PTL

\* However late the answers for pages come in, what is shown is the open
\* conversation's, no saved message twice (mergeMessagesById, dedupePrependMessages).
THEOREM ThreadAlwaysOfActive == ThreadSpec => []ThreadIsOfActive
<1>1. ThreadInv => ThreadIsOfActive
  BY ShownOnce
<1> QED
  BY <1>1, ThreadInvHolds, PTL

\* Without a lost broadcast, an echo not recognised or an older page out of its time,
\* what is shown is in the server's order and, once nothing is under way, the latest
\* messages without a gap, for every page size and however many messages are saved
\* while the pages are loaded (sortMessagesByServerOrder, mergeMessagesById).
THEOREM ThreadAlwaysComplete == ThreadSpec => []ThreadIsComplete
<1>1. ThreadInv => ThreadIsComplete
  BY ShownWhole
<1> QED
  BY <1>1, ThreadInvHolds, PTL

=============================================================================
