---------------------------- MODULE ServiceParts -----------------------------
(***************************************************************************)
(* The parts around chat sessions, signed-in browsers and the improvement of   *)
(* workflows, side by side.  They share no state at this level of detail: the  *)
(* server seen from a page is in that page's own module.  A behaviour is one   *)
(* of the part it has picked, with the others at rest.                         *)
(***************************************************************************)
EXTENDS UserChat, ConsultationQueue, ConsultationThread, AuthSession, GenerationGate, ChatRuntime,
        SimulationReview, ProfileBuildQueue

VARIABLE part

vars == <<part, userChatVars, queueVars, threadVars, authVars, gateVars, chatVars,
          reviewVars, queueOfBuildsVars>>

\* Where a part may begin in several states only the picked one does so.
PartsInit ==
  /\ part \in {"user chat", "queue", "thread", "browser", "guard", "runtime",
               "review", "builds"}
  /\ UserChatInit /\ (part # "user chat" => mode = "demo")
  /\ QueueInit /\ (part # "queue" => desk.route = NoChat)
  /\ ThreadInit /\ (part # "thread" => \A c \in Chats : said[c] = <<>>)
  /\ AuthInit
  /\ GateInit /\ \A w \in Workers : worker[w].chat = CHOOSE c \in ChatIds : TRUE
  /\ ChatInit
  /\ ReviewInit
  /\ BuildQueueInit

PartsNext ==
  \/ /\ part = "user chat" /\ UserChatNext
     /\ UNCHANGED <<part, queueVars, threadVars, authVars, gateVars,
                    chatVars, reviewVars, queueOfBuildsVars>>
  \/ /\ part = "queue" /\ QueueNext
     /\ UNCHANGED <<part, userChatVars, threadVars, authVars, gateVars,
                    chatVars, reviewVars, queueOfBuildsVars>>
  \/ /\ part = "thread" /\ ThreadNext
     /\ UNCHANGED <<part, userChatVars, queueVars, authVars, gateVars,
                    chatVars, reviewVars, queueOfBuildsVars>>
  \/ /\ part = "browser" /\ AuthNext
     /\ UNCHANGED <<part, userChatVars, queueVars, threadVars, gateVars,
                    chatVars, reviewVars, queueOfBuildsVars>>
  \/ /\ part = "guard" /\ GateNext
     /\ UNCHANGED <<part, userChatVars, queueVars, threadVars, authVars,
                    chatVars, reviewVars, queueOfBuildsVars>>
  \/ /\ part = "runtime" /\ ChatNext
     /\ UNCHANGED <<part, userChatVars, queueVars, threadVars, authVars,
                    gateVars, reviewVars, queueOfBuildsVars>>
  \/ /\ part = "review" /\ ReviewNext
     /\ UNCHANGED <<part, userChatVars, queueVars, threadVars, authVars,
                    gateVars, chatVars, queueOfBuildsVars>>
  \/ /\ part = "builds" /\ BuildQueueNext
     /\ UNCHANGED <<part, userChatVars, queueVars, threadVars, authVars,
                    gateVars, chatVars, reviewVars>>

PartsSpec == PartsInit /\ [][PartsNext]_vars

\* The variables of the picked part have the form that part names.
TypeOK ==
  /\ part = "user chat" => ChatTypeOK
  /\ part = "queue" => QueueTypeOK
  /\ part = "thread" => ThreadTypeOK
  /\ part = "browser" => AuthTypeOK
  /\ part = "guard" => GateTypeOK
  /\ part = "runtime" => ChatRuntimeTypeOK
  /\ part = "review" => ReviewTypeOK
  /\ part = "builds" => BuildQueueTypeOK

=============================================================================
