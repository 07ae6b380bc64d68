------------------------- MODULE ConsultationQueue --------------------------
(***************************************************************************)
(* The counselor's queue (pages/consultation) and the rows it is a copy of.   *)
(*                                                                         *)
(* The page reads the queue once, then applies an event per change; it reads  *)
(* it again when the connection comes back, after a failed claim and on the   *)
(* counselor's request.  The address names the conversation that is open.     *)
(* Readings, events and answers overtake each other: none of them carries     *)
(* anything by which the page could tell which one is the older.             *)
(***************************************************************************)
EXTENDS ConsultationChats, Naturals, FiniteSets

CONSTANTS
  Me, Colleague, Nobody,
  Unlocked,      \* bound: transactions that write a row they read without its lock
  MaxChanges,    \* bound: changes of rows
  MaxReadings,   \* bound: readings of the queue under way
  MaxTroubles    \* bound: failed requests and lost connections

ASSUME QueueCounselorsAssumption == Cardinality({Me, Colleague, Nobody}) = 3
ASSUME QueueBoundsAssumption ==
  MaxChanges \in Nat /\ MaxReadings \in Nat \ {0} /\ MaxTroubles \in Nat

VARIABLES
  sessionRow,  \* chat_session
  changes,     \* how many changes of rows there were
  saving,      \* what a transaction that has read a row without its lock will write
  desk,        \* the page's state and refs
  readings,    \* requests for the queue under way
  claim,       \* the assignment request under way
  close,       \* the request of the open dialog: end or release
  events,      \* broadcasts of the queue's topic on their way
  online,      \* connectionStatus = "CONNECTED"
  troubles,
  seen,        \* history: the latest change of each row the page was told
  excuses      \* history: why the page need not mirror the rows

queueServer == <<sessionRow, changes, saving>>
queueNet == <<readings, claim, close, events, online>>
queueVars == <<queueServer, desk, queueNet, troubles, seen, excuses>>

Operational == {"OPEN", "ACTIVE"}
Finished == {"RESOLVED", "COMPLETED"}
QueueStatuses == {"absent"} \cup Operational \cup Finished

\* at: the number of the change that made the row what it is.
\* said: the last message is the customer's (lastMessageRole).
Row ==
  [status : QueueStatuses, counselor : {Me, Colleague, Nobody}, said : BOOLEAN, at : 0..MaxChanges]

FirstRow == [status |-> "absent", counselor |-> Nobody, said |-> FALSE, at |-> 0]

-----------------------------------------------------------------------------
(* The server.  Every change is followed by an event with its type and the     *)
(* committed row, except for two: the assistant's answer and the customer's     *)
(* name.                                                                    *)

Event(c, r, type) == [chat |-> c, row |-> r, type |-> type]

\* The row after a change and the event about it.
Change(c, r, type) ==
  /\ changes < MaxChanges
  /\ changes' = changes + 1
  /\ sessionRow' = [sessionRow EXCEPT ![c] = [r EXCEPT !.at = changes + 1]]
  /\ events' = IF online THEN events \cup {Event(c, sessionRow'[c], type)} ELSE events

\* CounselorService.assignSession with ChatSession.assignTo.  Its system message
\* is not entered as the last one.
Assignable(r) == r.status = "OPEN" /\ r.counselor = Nobody

Assigned(r, who) == [r EXCEPT !.status = "ACTIVE", !.counselor = who]

\* releaseSession with releaseFrom: by the counselor it is assigned to.
Releasable(r, who) == r.status = "ACTIVE" /\ r.counselor = who

Released(r) == [r EXCEPT !.status = "OPEN", !.counselor = Nobody]

\* Under the row's lock: a conversation starts, anybody's message or note is saved
\* or the mode of response is set, whatever the status, a colleague claims or
\* releases.
ChatStarts(c) ==
  sessionRow[c].status = "absent" /\ Change(c, [sessionRow[c] EXCEPT !.status = "OPEN"], "upserted")

MessageSaved(c) ==
  /\ sessionRow[c].status # "absent"
  /\ \E byCustomer \in BOOLEAN : Change(c, [sessionRow[c] EXCEPT !.said = byCustomer], "upserted")

ColleagueClaims(c) ==
  Assignable(sessionRow[c]) /\ Change(c, Assigned(sessionRow[c], Colleague), "upserted")

ColleagueReleases(c) ==
  Releasable(sessionRow[c], Colleague) /\ Change(c, Released(sessionRow[c]), "upserted")

\* LlmResponseHandler.saveAssistantMessage enters the answer as the last message
\* and tells the queue nothing.  It is not counted as a change.
AssistantAnswers(c) ==
  /\ sessionRow[c].said
  /\ sessionRow' = [sessionRow EXCEPT ![c].said = FALSE]
  /\ UNCHANGED <<changes, events>>

OthersChange ==
  /\ \E c \in Chats :
       ChatStarts(c) \/ MessageSaved(c) \/ ColleagueClaims(c) \/ ColleagueReleases(c) \/ AssistantAnswers(c)
  /\ UNCHANGED <<saving, desk, readings, claim, close, online, troubles, seen, excuses>>

\* updateSessionStatus: activate, resolve, closeSession, reopen.
MayBecome(r, status) ==
  \/ status = "ACTIVE" /\ r.status = "OPEN"
  \/ status = "RESOLVED" /\ r.status = "ACTIVE"
  \/ status = "COMPLETED" /\ r.status \in {"ACTIVE", "RESOLVED"}
  \/ status = "OPEN" /\ r.status = "RESOLVED"

Become(r, status) ==
  [r EXCEPT !.status = status, !.counselor = IF status \in {"COMPLETED", "OPEN"} THEN Nobody ELSE @]

QueueEventTypeFor(status) == IF status \in Operational THEN "upserted" ELSE "removed"

NoSave == [chat |-> NoChat, row |-> FirstRow, type |-> "none"]

\* A transaction reads a row without its lock, to write all of it: any member of
\* the workspace changes the status, a workflow hands over to a counselor, the
\* customer comes back to the conversation under another name.
ReadToSave(u, c) ==
  LET r == sessionRow[c]
      save(row, type) == saving' = [saving EXCEPT ![u] = [chat |-> c, row |-> row, type |-> type]]
  IN  /\ saving[u] = NoSave
      /\ r.status # "absent"
      /\ \/ \E status \in Operational \cup Finished :
              MayBecome(r, status) /\ save(Become(r, status), QueueEventTypeFor(status))
         \/ save(r, "upserted")
         \/ r.status \in Operational /\ save(r, "silent")
      /\ UNCHANGED <<sessionRow, changes, desk, queueNet, troubles, seen, excuses>>

\* What has been read before it changed silently may clear no excuse.
Doubted == {[r EXCEPT !.sound = ~r.read] : r \in readings}

\* It writes the row as it was then, with its change.  A new name alone is not
\* told to the queue: what else the row was is lost silently.
Save(u) ==
  LET s == saving[u]
  IN  /\ s # NoSave
      /\ saving' = [saving EXCEPT ![u] = NoSave]
      /\ \/ s.type # "silent" /\ Change(s.chat, s.row, s.type) /\ UNCHANGED <<readings, excuses>>
         \/ /\ s.type = "silent" /\ s.row = sessionRow[s.chat]
            /\ UNCHANGED <<sessionRow, changes, events, readings, excuses>>
         \/ /\ s.type = "silent" /\ s.row # sessionRow[s.chat]
            /\ changes < MaxChanges
            /\ changes' = changes + 1
            /\ sessionRow' = [sessionRow EXCEPT ![s.chat] = [s.row EXCEPT !.at = changes + 1]]
            /\ readings' = Doubted
            /\ excuses' = excuses \cup {"written silently"}
            /\ UNCHANGED events
      /\ UNCHANGED <<desk, claim, close, online, troubles, seen>>

-----------------------------------------------------------------------------
(* The page.                                                                *)

NotListed == [listed |-> FALSE, status |-> "absent", counselor |-> Nobody, said |-> FALSE,
              unread |-> FALSE]

\* toQueueCustomer.
ToQueueCustomer(r, unread) ==
  [listed |-> TRUE, status |-> r.status, counselor |-> r.counselor, said |-> r.said, unread |-> unread]

NoModal == [kind |-> "none", chat |-> NoChat, submitting |-> FALSE]

NoClose == [kind |-> "none", chat |-> NoChat, answer |-> "none", row |-> NotListed]

NoClaim == [chat |-> NoChat, answer |-> "none", row |-> NotListed]

\* pendings of the conversation go with it: see ConsultationThread.
ClearActiveConversation(d) == [d EXCEPT !.active = NoChat, !.modal = NoModal]

ToRoot(d) == [d EXCEPT !.route = NoChat]

ActivateCustomer(d, c) == [d EXCEPT !.active = c, !.queue[c].unread = FALSE]

\* Mutant: a conversation the queue does not list any more stays open.
MutRouteEffect(d) ==
  IF d.route = NoChat
  THEN IF d.active = NoChat THEN d ELSE ClearActiveConversation(d)
  ELSE IF ~d.loaded \/ d.loading \/ d.error \/ ~d.queue[d.route].listed THEN d
  ELSE ActivateCustomer(d, d.route)

\* The effect on the route, the queue and its loading: the conversation named
\* in the address is the open one.
RouteEffect(d) ==
  IF d.route = NoChat
  THEN IF d.active = NoChat THEN d ELSE ClearActiveConversation(d)
  ELSE IF ~d.loaded \/ d.loading \/ d.error THEN d
  ELSE IF d.queue[d.route].listed THEN ActivateCustomer(d, d.route)
  ELSE ClearActiveConversation(d)

\* What the page has been told of: information older than that has been overtaken.
Told(at) ==
  /\ seen' = [c \in Chats |-> IF at[c] > seen[c] THEN at[c] ELSE seen[c]]
  /\ excuses' = excuses \cup (IF \E c \in Chats : at[c] < seen[c] THEN {"overtaken"} ELSE {})

ToldOf(c, r) == Told([seen EXCEPT ![c] = r.at])

Trouble == troubles < MaxTroubles /\ troubles' = troubles + 1

Reading(kind, target) == [kind |-> kind, target |-> target, read |-> FALSE, rows |-> <<>>, sound |-> TRUE]

\* loadQueue up to its await.
LoadQueue(inFlight) ==
  /\ Cardinality(inFlight) < MaxReadings
  /\ desk' = [desk EXCEPT !.loading = TRUE, !.error = FALSE, !.loaded = FALSE]
  /\ readings' = inFlight \cup {Reading("load", NoChat)}

HandleQueueRetry ==
  /\ desk.error
  /\ ~desk.loading
  /\ LoadQueue(readings)
  /\ UNCHANGED <<queueServer, claim, close, events, online, troubles, seen, excuses>>

\* ConsultationService.getActiveQueue.
GetActiveQueue(r) ==
  /\ r \in readings
  /\ ~r.read
  /\ readings' = (readings \ {r}) \cup {[r EXCEPT !.read = TRUE, !.rows = sessionRow]}
  /\ UNCHANGED <<queueServer, desk, claim, close, events, online, troubles, seen, excuses>>

\* A reading replaces the whole queue; nobody in it is unread any more.
Listed(rows) ==
  [c \in Chats |->
    IF rows[c].status \in Operational THEN ToQueueCustomer(rows[c], FALSE) ELSE NotListed]

\* Mutant: the answer is applied to what is shown, what it does not list stays.
MutShown(d, rows) ==
  [d EXCEPT !.error = FALSE, !.loaded = TRUE,
            !.queue = [c \in Chats |-> IF Listed(rows)[c].listed THEN Listed(rows)[c] ELSE @[c]]]

Shown(d, rows) == [d EXCEPT !.queue = Listed(rows), !.error = FALSE, !.loaded = TRUE]

ToldOfAll(r) ==
  LET at == [c \in Chats |-> r.rows[c].at]
      overtaken == \E c \in Chats : at[c] < seen[c]
  IN  /\ seen' = [c \in Chats |-> IF overtaken /\ at[c] < seen[c] THEN seen[c] ELSE at[c]]
      /\ excuses' = IF overtaken THEN excuses \cup {"overtaken"}
                    ELSE IF r.sound THEN {} ELSE excuses

LoadArrives(r) ==
  /\ r \in readings
  /\ r.kind = "load"
  /\ r.read
  /\ readings' = readings \ {r}
  /\ desk' = RouteEffect([Shown(desk, r.rows) EXCEPT !.loading = FALSE])
  /\ ToldOfAll(r)
  /\ UNCHANGED <<queueServer, claim, close, events, online, troubles>>

LoadFails(r) ==
  /\ r \in readings
  /\ r.kind = "load"
  /\ Trouble
  /\ readings' = readings \ {r}
  /\ desk' = RouteEffect([desk EXCEPT !.error = TRUE, !.loaded = TRUE, !.loading = FALSE])
  /\ excuses' = excuses \cup {"load failed"}
  /\ UNCHANGED <<queueServer, claim, close, events, online, seen>>

\* handleQueueEvent: the event's type decides, whatever the row's status.  The
\* error of a failed load is taken for settled.
HandleQueueEvent(e) ==
  /\ e \in events
  /\ events' = events \ {e}
  /\ LET c == e.chat
         d == [desk EXCEPT !.error = FALSE]
         unread == desk.active # c /\ (e.row.said \/ desk.queue[c].unread)
     IN  desk' = RouteEffect(
           IF e.type = "upserted"
           THEN [d EXCEPT !.queue[c] = ToQueueCustomer(e.row, unread)]
           ELSE LET gone == [d EXCEPT !.queue[c] = NotListed]
                IN  IF desk.active = c THEN ToRoot(ClearActiveConversation(gone)) ELSE gone)
  /\ ToldOf(e.chat, e.row)
  /\ UNCHANGED <<queueServer, readings, claim, close, online, troubles>>

\* useConsultationRealtime: the queue is read again unless a reading is under way.
\* Mutant: the status before is not looked at, the queue is not read again.
MutReconnectReloads(d) == FALSE

ReconnectReloads(d) == d.loaded

Connect ==
  /\ ~online
  /\ online' = TRUE
  /\ IF ReconnectReloads(desk)
     THEN LoadQueue(Doubted) /\ UNCHANGED excuses
     ELSE /\ readings' = Doubted
          /\ excuses' = IF desk.loaded \/ "first connection" \in excuses THEN excuses
                        ELSE excuses \cup {"not read again"}
          /\ UNCHANGED desk
  /\ UNCHANGED <<queueServer, claim, close, events, troubles, seen>>

ConnectionLost ==
  /\ online
  /\ Trouble
  /\ online' = FALSE
  /\ events' = {}
  /\ UNCHANGED <<queueServer, desk, readings, claim, close, seen, excuses>>

-----------------------------------------------------------------------------
(* Choosing a conversation.                                                  *)

HandleSelectCustomer(c) ==
  /\ ~desk.loading
  /\ ~desk.error
  /\ desk.modal = NoModal
  /\ desk.queue[c].listed
  /\ desk' = RouteEffect(ActivateCustomer([desk EXCEPT !.route = c], c))
  /\ UNCHANGED <<queueServer, queueNet, troubles, seen, excuses>>

\* The address changes: back, forward.
RouteChanges ==
  /\ \E c \in Chats \cup {NoChat} : c # desk.route /\ desk' = RouteEffect([desk EXCEPT !.route = c])
  /\ Trouble
  /\ UNCHANGED <<queueServer, queueNet, seen, excuses>>

-----------------------------------------------------------------------------
(* Claiming.                                                                *)

HandleClaimSession ==
  LET c == desk.active
  IN  /\ c # NoChat
      /\ desk.modal = NoModal
      /\ desk.queue[c].listed
      /\ desk.queue[c].counselor = Nobody
      /\ desk.claiming = NoChat
      /\ desk' = [desk EXCEPT !.claiming = c]
      /\ claim' = [NoClaim EXCEPT !.chat = c]
      /\ UNCHANGED <<queueServer, readings, close, events, online, troubles, seen, excuses>>

ServeClaim ==
  /\ claim.chat # NoChat
  /\ claim.answer = "none"
  /\ \/ /\ Assignable(sessionRow[claim.chat])
        /\ Change(claim.chat, Assigned(sessionRow[claim.chat], Me), "upserted")
        /\ claim' = [claim EXCEPT !.answer = "ok", !.row = sessionRow'[claim.chat]]
     \/ /\ ~Assignable(sessionRow[claim.chat])
        /\ claim' = [claim EXCEPT !.answer = "refused"]
        /\ UNCHANGED <<queueServer, events>>
  /\ UNCHANGED <<saving, desk, readings, close, online, troubles, seen, excuses>>

\* The answer is entered where the conversation is still listed.
ClaimSucceeds ==
  /\ claim.answer = "ok"
  /\ LET c == claim.chat
         q == desk.queue[c]
     IN  /\ desk' = RouteEffect(
           [desk EXCEPT !.claiming = NoChat,
                        !.queue[c] = IF @.listed THEN ToQueueCustomer(claim.row, q.unread) ELSE @])
         /\ IF q.listed THEN ToldOf(c, claim.row) ELSE UNCHANGED <<seen, excuses>>
  /\ claim' = NoClaim
  /\ UNCHANGED <<queueServer, readings, close, events, online, troubles>>

\* synchronizeQueueAfterClaimFailure: the claim goes on until the queue is read.
ClaimFails ==
  /\ claim.chat # NoChat
  /\ claim.answer # "ok"
  /\ IF claim.answer = "refused" THEN UNCHANGED troubles ELSE Trouble
  /\ Cardinality(readings) < MaxReadings
  /\ readings' = readings \cup {Reading("claim", claim.chat)}
  /\ claim' = NoClaim
  /\ UNCHANGED <<queueServer, desk, close, events, online, seen, excuses>>

\* Mutant: a refused claim stays marked as being made.
MutClaimSettled(d) == d

ClaimSettled(d) == [d EXCEPT !.claiming = NoChat]

SynchronizedAfterClaim(r) ==
  /\ r \in readings
  /\ r.kind = "claim"
  /\ r.read
  /\ readings' = readings \ {r}
  /\ LET d == ClaimSettled(Shown(desk, r.rows))
         target == d.queue[r.target]
         lost == ~target.listed \/ target.counselor = Colleague
     IN  desk' = RouteEffect(IF lost THEN ToRoot(ClearActiveConversation(d)) ELSE d)
  /\ ToldOfAll(r)
  /\ UNCHANGED <<queueServer, claim, close, events, online, troubles>>

NotSynchronizedAfterClaim(r) ==
  /\ r \in readings
  /\ r.kind = "claim"
  /\ Trouble
  /\ readings' = readings \ {r}
  /\ desk' = RouteEffect(ClaimSettled([desk EXCEPT !.error = TRUE]))
  /\ UNCHANGED <<queueServer, claim, close, events, online, seen, excuses>>

-----------------------------------------------------------------------------
(* Ending and releasing: a dialog, a request, and the page is cleared.        *)

HandleOpenModal(kind) ==
  LET c == desk.active
  IN  /\ c # NoChat
      /\ desk.modal = NoModal
      /\ desk.queue[c].listed
      /\ desk.queue[c].counselor = Me
      /\ desk' = [desk EXCEPT !.modal = [kind |-> kind, chat |-> c, submitting |-> FALSE]]
      /\ UNCHANGED <<queueServer, queueNet, troubles, seen, excuses>>

HandleCancelModal ==
  /\ desk.modal # NoModal
  /\ ~desk.modal.submitting
  /\ desk' = [desk EXCEPT !.modal = NoModal]
  /\ UNCHANGED <<queueServer, queueNet, troubles, seen, excuses>>

\* Bound: one request of a dialog at a time.
HandleConfirm ==
  /\ desk.modal # NoModal
  /\ ~desk.modal.submitting
  /\ close = NoClose
  /\ desk' = [desk EXCEPT !.modal.submitting = TRUE]
  /\ close' = [NoClose EXCEPT !.kind = desk.modal.kind, !.chat = desk.modal.chat]
  /\ UNCHANGED <<queueServer, readings, claim, events, online, troubles, seen, excuses>>

\* The end is read and written in two steps, see ReadToSave.
CloseServed ==
  LET c == close.chat
      r == sessionRow[c]
  IN  /\ close # NoClose
      /\ \/ /\ close.answer = "none" /\ close.kind = "release" /\ Releasable(r, Me)
            /\ Change(c, Released(r), "upserted")
            /\ close' = [close EXCEPT !.answer = "ok", !.row = sessionRow'[c]]
         \/ /\ close.answer = "none" /\ close.kind = "end"
            /\ \E status \in Finished :
                 /\ MayBecome(r, status)
                 /\ close' = [close EXCEPT !.answer = "saving", !.row = Become(r, status)]
            /\ UNCHANGED <<queueServer, events>>
         \/ /\ close.answer = "saving"
            /\ Change(c, close.row, "removed")
            /\ close' = [close EXCEPT !.answer = "ok", !.row = sessionRow'[c]]
         \/ /\ close.answer = "none"
            /\ IF close.kind = "end" THEN \E status \in Finished : ~MayBecome(r, status)
                                     ELSE ~Releasable(r, Me)
            /\ close' = [close EXCEPT !.answer = "refused"]
            /\ UNCHANGED <<queueServer, events>>
      /\ UNCHANGED <<saving, desk, readings, claim, online, troubles, seen, excuses>>

\* Whichever conversation is open by then is closed with it.
CloseSucceeds ==
  /\ close.answer = "ok"
  /\ LET c == close.chat
         q == desk.queue[c]
         after == IF close.kind = "end" \/ ~q.listed THEN NotListed ELSE ToQueueCustomer(close.row, q.unread)
     IN  /\ desk' = RouteEffect(ToRoot(ClearActiveConversation([desk EXCEPT !.queue[c] = after])))
         /\ IF close.kind = "end" \/ q.listed THEN ToldOf(c, close.row) ELSE UNCHANGED <<seen, excuses>>
  /\ close' = NoClose
  /\ UNCHANGED <<queueServer, readings, claim, events, online, troubles>>

\* Mutant: the dialog is left as it is while the request failed.
MutNotSubmitting(modal) == modal

NotSubmitting(modal) == [modal EXCEPT !.submitting = FALSE]

CloseFails ==
  /\ close # NoClose
  /\ close.answer # "ok"
  /\ IF close.answer = "refused" THEN UNCHANGED troubles ELSE Trouble
  /\ desk' = [desk EXCEPT !.modal = IF @.kind = close.kind THEN NotSubmitting(@) ELSE @]
  /\ close' = NoClose
  /\ UNCHANGED <<queueServer, readings, claim, events, online, seen, excuses>>

-----------------------------------------------------------------------------
\* The page is mounted with or without a conversation in its address; the
\* connection is made while the queue is read.
QueueInit ==
  /\ sessionRow = [c \in Chats |-> FirstRow]
  /\ changes = 0
  /\ saving = [u \in Unlocked |-> NoSave]
  /\ desk \in [queue : {[c \in Chats |-> NotListed]}, active : {NoChat}, route : {NoChat} \cup Chats,
               loading : {TRUE}, loaded : {FALSE}, error : {FALSE},
               claiming : {NoChat}, modal : {NoModal}]
  /\ readings = {Reading("load", NoChat)}
  /\ claim = NoClaim
  /\ close = NoClose
  /\ events = {}
  /\ online = FALSE
  /\ troubles = 0
  /\ seen = [c \in Chats |-> 0]
  /\ excuses = {"first connection"}

QueueNext ==
  \/ OthersChange
  \/ \E u \in Unlocked : Save(u) \/ \E c \in Chats : ReadToSave(u, c)
  \/ HandleQueueRetry
  \/ \E r \in readings :
       \/ GetActiveQueue(r) \/ LoadArrives(r) \/ LoadFails(r)
       \/ SynchronizedAfterClaim(r) \/ NotSynchronizedAfterClaim(r)
  \/ \E e \in events : HandleQueueEvent(e)
  \/ Connect
  \/ ConnectionLost
  \/ \E c \in Chats : HandleSelectCustomer(c)
  \/ RouteChanges
  \/ HandleClaimSession
  \/ ServeClaim
  \/ ClaimSucceeds
  \/ ClaimFails
  \/ \E kind \in {"end", "release"} : HandleOpenModal(kind)
  \/ HandleCancelModal
  \/ HandleConfirm
  \/ CloseServed
  \/ CloseSucceeds
  \/ CloseFails

QueueSpec == QueueInit /\ [][QueueNext]_queueVars

-----------------------------------------------------------------------------
(* Properties.                                                              *)

Customer == [listed : BOOLEAN, status : QueueStatuses, counselor : {Me, Colleague, Nobody},
             said : BOOLEAN, unread : BOOLEAN]

Modal == [kind : {"none", "end", "release"}, chat : Chats \cup {NoChat}, submitting : BOOLEAN]

\* Every variable has the form its declaration names.
QueueTypeOK ==
  /\ sessionRow \in [Chats -> Row]
  /\ changes \in 0..MaxChanges
  /\ desk \in [queue : [Chats -> Customer], active : Chats \cup {NoChat},
               route : Chats \cup {NoChat}, loading : BOOLEAN, loaded : BOOLEAN,
               error : BOOLEAN, claiming : Chats \cup {NoChat}, modal : Modal]
  /\ Cardinality(readings) <= MaxReadings
  /\ \A r \in readings : r.kind \in {"load", "claim"} /\ (r.read => r.rows \in [Chats -> Row])
  /\ claim.chat \in Chats \cup {NoChat}
  /\ close.kind \in {"none", "end", "release"}
  /\ \A u \in Unlocked : saving[u].chat \in Chats \cup {NoChat} /\ saving[u].row \in Row
  /\ \A e \in events : e.chat \in Chats /\ e.row \in Row /\ e.type \in {"upserted", "removed"}
  /\ online \in BOOLEAN
  /\ troubles \in 0..MaxTroubles
  /\ seen \in [Chats -> 0..MaxChanges]
  /\ excuses \subseteq {"overtaken", "load failed", "not read again", "first connection", "written silently"}

\* Nothing is on its way to the page, which shows its queue without reserve.
Calm ==
  /\ online
  /\ events = {} /\ readings = {} /\ claim = NoClaim /\ close = NoClose
  /\ ~desk.loading /\ ~desk.error

\* A waiting or assigned conversation is listed as it is; a finished one is not, or
\* as finished: a message or a hand-over after its end lists it again.  That the
\* customer spoke last is never missed; that the assistant has answered may be.
Agrees(q, r) ==
  /\ r.status \in Operational => q.listed
  /\ q.listed => /\ q.status = r.status
                 /\ q.counselor = r.counselor
                 /\ r.said => q.said

\* A queue at rest agrees with the rows, across lost connections, failed requests
\* and stale rows written back: unless an older piece of information came in after
\* a younger one, a failed load was settled by an event, the connection came back
\* during a reading, or a new name was written over a row that had changed.
QueueMirrorsServer ==
  Calm /\ excuses = {} => \A c \in Chats : Agrees(desk.queue[c], sessionRow[c])

\* The conversation that is open is the one the address names, when the queue
\* lists it, and none otherwise, whatever events and answers have removed,
\* claimed or reloaded (the route effect).
RouteIsOpen ==
  desk.loaded /\ ~desk.loading /\ ~desk.error =>
    desk.active = IF desk.route = NoChat \/ ~desk.queue[desk.route].listed THEN NoChat
                  ELSE desk.route

\* A button or a dialog that is blocked waits for a request under way: no order
\* of failures and answers leaves the counselor blocked for good.
BlockedHasRequest ==
  /\ desk.loading => \E r \in readings : r.kind = "load"
  /\ desk.claiming # NoChat =>
       \/ claim.chat = desk.claiming
       \/ \E r \in readings : r.kind = "claim" /\ r.target = desk.claiming
  /\ desk.modal.submitting => close.kind = desk.modal.kind /\ close.chat = desk.modal.chat

=============================================================================
