----------------------------- MODULE ChatRuntime ------------------------------
(***************************************************************************)
(* One chat session of the server (workflowruntime, chatdemo): its row, its   *)
(* messages, the assistant that answers them and the counselors who take over.*)
(*                                                                         *)
(* Most operations read the row with findByIdForUpdate and hold its lock to   *)
(* the end of their transaction: one step, except the demo's append, which    *)
(* generates the answer while it holds it.  updateSessionStatus and the       *)
(* workflow's hand-off read the row without the lock and write every column   *)
(* back.  AiResponseGenerationGuard is taken as what it promises.             *)
(***************************************************************************)
EXTENDS Naturals, Sequences

CONSTANTS
  Counselors, NoCounselor,
  Handlers,      \* bound: auto responses under way (queued or on a thread of the pool)
  Demo,          \* the demo customer's request
  Writers,       \* bound: threads that have read the row without its lock
  MaxMessages    \* bound: messages of the session

ASSUME NoCounselorAssumption == NoCounselor \notin Counselors
ASSUME DemoAssumption == Demo \notin Handlers

VARIABLES
  row,        \* chat_session: status, assigned counselor, response mode
  posted,     \* chat_message: the committed messages
  handler,    \* LlmResponseHandler: how far each auto response is
  demo,       \* appendMessage: how far it is, its message's number, and whether it is answered
  leases,     \* of the guard
  writer,     \* the row a thread has read without the lock, and what it will do to it
  silenced,   \* history: a counselor has silenced the assistant
  overwritten \* history: a row was written back over one that had changed

chatVars == <<row, posted, handler, demo, leases, writer, silenced, overwritten>>

Statuses == {"OPEN", "ACTIVE", "RESOLVED", "COMPLETED"}
Modes == {"AI_ACTIVE", "HUMAN_ACTIVE", "AI_ASSIST_ONLY"}
Roles == {"USER", "ASSISTANT", "SYSTEM", "COUNSELOR", "AGENT", "NOTE"}
Rows == [status : Statuses, counselor : Counselors \cup {NoCounselor}, mode : Modes]

Chat == "chat"
Generation == INSTANCE GenerationLease WITH Workers <- Handlers \cup {Demo}, ChatIds <- {Chat}

-----------------------------------------------------------------------------
(* ChatSession.                                                              *)

NewRow == [status |-> "OPEN", counselor |-> NoCounselor, mode |-> "AI_ACTIVE"]

AssignTo(r, c) == [r EXCEPT !.status = "ACTIVE", !.counselor = c, !.mode = "HUMAN_ACTIVE"]

\* Mutant: the response mode is kept.
MutReleaseFrom(r) == [r EXCEPT !.status = "OPEN", !.counselor = NoCounselor]

ReleaseFrom(r) == [r EXCEPT !.status = "OPEN", !.counselor = NoCounselor, !.mode = "AI_ACTIVE"]

AllowsAiAutoResponse(r) == r.mode = "AI_ACTIVE"

\* switchResponseMode, for the assigned counselor.
MaySwitchTo(r, mode) ==
  /\ r.status \in {"OPEN", "ACTIVE"}
  /\ mode = "AI_ACTIVE" \/ r.counselor # NoCounselor

\* What is done to a row read without the lock: the statuses of
\* updateSessionStatus, and recordHandoff, which changes the metadata only.
Changes == {"activate", "resolve", "closeSession", "reopen", "recordHandoff"}

May(change, r) ==
  \/ change = "activate" /\ r.status = "OPEN"
  \/ change = "resolve" /\ r.status = "ACTIVE"
  \/ change = "closeSession" /\ r.status \in {"ACTIVE", "RESOLVED"}
  \/ change = "reopen" /\ r.status = "RESOLVED"
  \/ change = "recordHandoff"

Changed(change, r) ==
  CASE change = "activate" -> [r EXCEPT !.status = "ACTIVE"]
    [] change = "resolve" -> [r EXCEPT !.status = "RESOLVED"]
    [] change = "closeSession" -> [r EXCEPT !.status = "COMPLETED", !.counselor = NoCounselor]
    [] change = "reopen" -> NewRow
    [] change = "recordHandoff" -> r

-----------------------------------------------------------------------------
\* findByIdForUpdate returns: the demo's append does not hold the row.
\* Mutant: the row is read without the lock.
MutRowFree == TRUE

RowFree == demo.at \notin {"holding", "leaving"}

\* The number after the last message of the session.
NextSeqNo == IF posted = <<>> THEN 1 ELSE posted[Len(posted)].seqNo + 1

ChatMessage(n, role) == [seqNo |-> n, role |-> role]

Post(role) ==
  /\ Len(posted) < MaxMessages
  /\ posted' = Append(posted, ChatMessage(NextSeqNo, role))

\* ChatWebSocketService.saveAndBroadcast; the event is published after the commit.
SaveAndBroadcast ==
  /\ RowFree
  /\ row.status \in {"OPEN", "ACTIVE"}
  /\ Post("USER")
  /\ \E h \in Handlers :
       handler[h] = "idle" /\ handler' = [handler EXCEPT ![h] = "received"]
  /\ UNCHANGED <<row, demo, leases, writer, silenced, overwritten>>

\* ConsultationService.sendMessage, for a counselor's message or note of any status.
SendMessage ==
  /\ RowFree
  /\ Post("AGENT")
  /\ UNCHANGED <<row, handler, demo, leases, writer, silenced, overwritten>>

-----------------------------------------------------------------------------
(* CounselorService.                                                         *)

AssignSession(c) ==
  /\ RowFree
  /\ row.status = "OPEN" /\ row.counselor = NoCounselor
  /\ row' = AssignTo(row, c)
  /\ silenced' = TRUE
  /\ Post("SYSTEM")
  /\ UNCHANGED <<handler, demo, leases, writer, overwritten>>

ReleaseSession(c) ==
  /\ RowFree
  /\ row.status = "ACTIVE" /\ row.counselor = c
  /\ row' = ReleaseFrom(row)
  /\ silenced' = FALSE
  /\ UNCHANGED <<posted, handler, demo, leases, writer, overwritten>>

SendCounselorMessage(c) ==
  /\ RowFree
  /\ row.status = "ACTIVE" /\ row.counselor = c
  /\ \/ Post("COUNSELOR") /\ row' = [row EXCEPT !.mode = "HUMAN_ACTIVE"] /\ silenced' = TRUE
     \/ Post("NOTE") /\ UNCHANGED <<row, silenced>>
  /\ UNCHANGED <<handler, demo, leases, writer, overwritten>>

UpdateResponseMode(c, mode) ==
  /\ RowFree
  /\ row.counselor = c
  /\ MaySwitchTo(row, mode)
  /\ row' = [row EXCEPT !.mode = mode]
  /\ silenced' = (mode # "AI_ACTIVE")
  /\ UNCHANGED <<posted, handler, demo, leases, writer, overwritten>>

-----------------------------------------------------------------------------
(* updateSessionStatus and advance: the row is read, and written later.       *)

NoWriter == [change |-> "none", row |-> NewRow]

ReadRow(w, change) ==
  /\ writer[w].change = "none"
  /\ May(change, row)
  /\ writer' = [writer EXCEPT ![w] = [change |-> change, row |-> row]]
  /\ UNCHANGED <<row, posted, handler, demo, leases, silenced, overwritten>>

WriteRow(w) ==
  /\ writer[w].change # "none"
  /\ RowFree
  /\ row' = Changed(writer[w].change, writer[w].row)
  /\ overwritten' = (overwritten \/ writer[w].row # row)
  /\ silenced' = (silenced /\ writer[w].change # "reopen")
  /\ writer' = [writer EXCEPT ![w] = NoWriter]
  /\ UNCHANGED <<posted, handler, demo, leases>>

-----------------------------------------------------------------------------
(* LlmResponseHandler.                                                       *)

\* loadConversationContextIfAutoResponseEnabled.
LoadContext(h) ==
  /\ handler[h] = "received"
  /\ handler' = [handler EXCEPT ![h] = IF AllowsAiAutoResponse(row) THEN "allowed" ELSE "idle"]
  /\ UNCHANGED <<row, posted, demo, leases, writer, silenced, overwritten>>

\* Without a lease the customer is told that an answer is being generated.
TryEnter(h) ==
  /\ handler[h] = "allowed"
  /\ IF \E l \in leases : l[2] = Chat
     THEN handler' = [handler EXCEPT ![h] = "idle"] /\ UNCHANGED leases
     ELSE handler' = [handler EXCEPT ![h] = "generating"] /\ Generation!Take(h, Chat)
  /\ UNCHANGED <<row, posted, demo, writer, silenced, overwritten>>

\* Mutant: the mode is not asked again once the answer is there.
MutMayAnswer == TRUE

MayAnswer == AllowsAiAutoResponse(row)

\* saveAssistantMessage, or the generation has failed.
SaveAssistantMessage(h) ==
  /\ handler[h] = "generating"
  /\ \/ RowFree /\ MayAnswer /\ Post("ASSISTANT")
     \/ RowFree /\ ~MayAnswer /\ UNCHANGED posted
     \/ UNCHANGED posted
  /\ handler' = [handler EXCEPT ![h] = "idle"]
  /\ Generation!GiveBack(h, Chat)
  /\ UNCHANGED <<row, demo, writer, silenced, overwritten>>

-----------------------------------------------------------------------------
(* DemoChatSessionRegistrationService.appendMessage.                          *)

NoDemo == [at |-> "idle", seqNo |-> 0, answers |-> FALSE]

\* Refused while an answer is being generated.
DemoEnters ==
  /\ demo.at = "idle"
  /\ Generation!Take(Demo, Chat)
  /\ demo' = [demo EXCEPT !.at = "entered"]
  /\ UNCHANGED <<row, posted, handler, writer, silenced, overwritten>>

\* The message is saved, and stays uncommitted while its answer is generated.
DemoReadsRow ==
  /\ demo.at = "entered"
  /\ Len(posted) + 2 <= MaxMessages
  /\ demo' = [at |-> "holding", seqNo |-> NextSeqNo, answers |-> AllowsAiAutoResponse(row)]
  /\ UNCHANGED <<row, posted, handler, leases, writer, silenced, overwritten>>

\* The lease is closed before the transaction ends.
DemoLeaves ==
  /\ demo.at = "holding"
  /\ demo' = [demo EXCEPT !.at = "leaving"]
  /\ Generation!GiveBack(Demo, Chat)
  /\ UNCHANGED <<row, posted, handler, writer, silenced, overwritten>>

\* Message and answer are committed together, or rolled back.
DemoCommits ==
  /\ demo.at = "leaving"
  /\ \/ /\ demo.answers
        /\ posted' = posted \o <<ChatMessage(demo.seqNo, "USER"), ChatMessage(demo.seqNo + 1, "ASSISTANT")>>
     \/ ~demo.answers /\ posted' = Append(posted, ChatMessage(demo.seqNo, "USER"))
     \/ UNCHANGED posted
  /\ demo' = NoDemo
  /\ UNCHANGED <<row, handler, leases, writer, silenced, overwritten>>

-----------------------------------------------------------------------------
ChatInit ==
  /\ row = NewRow
  /\ posted = <<ChatMessage(1, "ASSISTANT")>>
  /\ handler = [h \in Handlers |-> "idle"]
  /\ demo = NoDemo
  /\ leases = {}
  /\ writer = [w \in Writers |-> NoWriter]
  /\ silenced = FALSE
  /\ overwritten = FALSE

CounselorActs(c) ==
  \/ AssignSession(c)
  \/ ReleaseSession(c)
  \/ SendCounselorMessage(c)
  \/ \E mode \in Modes : UpdateResponseMode(c, mode)

ChatNext ==
  \/ SaveAndBroadcast
  \/ SendMessage
  \/ \E c \in Counselors : CounselorActs(c)
  \/ \E w \in Writers : (\E change \in Changes : ReadRow(w, change)) \/ WriteRow(w)
  \/ \E h \in Handlers : LoadContext(h) \/ TryEnter(h) \/ SaveAssistantMessage(h)
  \/ DemoEnters
  \/ DemoReadsRow
  \/ DemoLeaves
  \/ DemoCommits

ChatSpec == ChatInit /\ [][ChatNext]_chatVars

-----------------------------------------------------------------------------
(* Properties.                                                              *)

ChatRuntimeTypeOK ==
  /\ row \in Rows
  /\ posted \in Seq([seqNo : Nat, role : Roles])
  /\ handler \in [Handlers -> {"idle", "received", "allowed", "generating"}]
  /\ demo \in [at : {"idle", "entered", "holding", "leaving"}, seqNo : Nat, answers : BOOLEAN]
  /\ leases \subseteq (Handlers \cup {Demo}) \X {Chat}
  /\ writer \in [Writers -> [change : Changes \cup {"none"}, row : Rows]]
  /\ silenced \in BOOLEAN
  /\ overwritten \in BOOLEAN

Consistent(r) ==
  /\ r.status = "OPEN" => r.counselor = NoCounselor /\ AllowsAiAutoResponse(r)
  /\ r.counselor # NoCounselor => r.status \in {"ACTIVE", "RESOLVED"}
  /\ ~AllowsAiAutoResponse(r) => r.counselor # NoCounselor \/ r.status = "COMPLETED"

\* Whatever is done to the session, and however stale the rows that are written
\* back: a session that waits for a counselor has none and is the assistant's, a
\* counselor is assigned only to one that is open for work, and the assistant is
\* silent only where a counselor is assigned or the session is over.
RowConsistent == Consistent(row)

\* The messages of a session are numbered in the order of their commits,
\* without a gap, although the demo keeps its number while it generates.
NumberedInOrder == \A i \in DOMAIN posted : posted[i].seqNo = i

\* Once a counselor has claimed the session, or taken it by a message of the live
\* chat (sendCounselorMessage), the assistant says nothing, not even what it began to
\* generate before, until the counselor or a reopening gives it the session back; a
\* message over REST (sendMessage) silences nobody.  Unless a row read before was
\* written over the counselor's.
AssistantYields ==
  [][\A i \in DOMAIN posted' \ DOMAIN posted :
       posted'[i].role = "ASSISTANT" => ~silenced \/ overwritten]_chatVars

=============================================================================
