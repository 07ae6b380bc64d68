------------------------ MODULE ServiceParts_proof ---------------------------
(***************************************************************************)
(* Proofs about ServiceParts: what is proved of a part alone holds where the  *)
(* parts are checked side by side.                                           *)
(***************************************************************************)
EXTENDS ServiceParts, UserChat_proof, Consultation_proof, SmallParts_proof

-----------------------------------------------------------------------------
\* A part begins as it does on its own.
LEMMA PartsBegin ==
  PartsInit => /\ UserChatInit /\ QueueInit /\ ThreadInit /\ AuthInit
               /\ GateInit /\ ChatInit /\ ReviewInit /\ BuildQueueInit
BY DEF PartsInit

\* A step of the whole is a step of each part or leaves it alone.
LEMMA PartsMove ==
  ASSUME [PartsNext]_vars
  PROVE  /\ [UserChatNext]_userChatVars /\ [QueueNext]_queueVars /\ [ThreadNext]_threadVars
         /\ [AuthNext]_authVars /\ [GateNext]_gateVars /\ [ChatNext]_chatVars
         /\ [ReviewNext]_reviewVars /\ [BuildQueueNext]_queueOfBuildsVars
<1>1. CASE PartsNext
  BY <1>1 DEF PartsNext
<1>2. CASE UNCHANGED vars
  BY <1>2 DEF vars
<1> QED
  BY <1>1, <1>2

\* Seen from one part, a behaviour of the whole is a behaviour of that part, as the
\* whole is written.
LEMMA EachOnItsOwn ==
  PartsSpec => /\ UserChatSpec /\ QueueSpec /\ ThreadSpec /\ AuthSpec
               /\ GateSpec /\ ChatSpec /\ ReviewSpec /\ BuildQueueSpec
<1>1. PartsInit => /\ UserChatInit /\ QueueInit /\ ThreadInit /\ AuthInit
                   /\ GateInit /\ ChatInit /\ ReviewInit /\ BuildQueueInit
  BY PartsBegin
<1>2. [PartsNext]_vars =>
        /\ [UserChatNext]_userChatVars /\ [QueueNext]_queueVars /\ [ThreadNext]_threadVars
        /\ [AuthNext]_authVars /\ [GateNext]_gateVars /\ [ChatNext]_chatVars
        /\ [ReviewNext]_reviewVars /\ [BuildQueueNext]_queueOfBuildsVars
  BY PartsMove
<1> QED
  BY <1>1, <1>2, PTL
  DEF PartsSpec, UserChatSpec, QueueSpec, ThreadSpec, AuthSpec, GateSpec, ChatSpec, ReviewSpec,
      BuildQueueSpec

\* The variables of every part keep the form that part names, whichever is picked.
THEOREM PartsTypes == PartsSpec => []TypeOK
<1>1. /\ ChatTypeOK /\ QueueTypeOK /\ ThreadTypeOK /\ AuthTypeOK
      /\ GateTypeOK /\ ChatRuntimeTypeOK /\ ReviewTypeOK /\ BuildQueueTypeOK
      => TypeOK
  BY DEF TypeOK
<1> QED
  BY <1>1, EachOnItsOwn, ChatTypeCorrect, QueueTypeCorrect, ThreadTypes, AuthTypeCorrect, GateType,
     ChatRuntimeType, ReviewTypeCorrect, BuildQueueTypeCorrect, PTL

\* The pages: what the customer, the counselor and the signed-in browser are shown
\* and wait for, side by side.
THEOREM PagesStaySafe ==
  PartsSpec => /\ [](OwnConversationOnly /\ ScreenInOrder /\ TypedShownOnce /\ TypingIndicatorEnds)
               /\ SavedStaysOnScreen
               /\ [](RouteIsOpen /\ BlockedHasRequest /\ QueueMirrorsServer)
               /\ [](SendingIsWatched /\ ThreadIsOfActive /\ ThreadIsComplete)
               /\ [](BlankAwaitsRefresh /\ SessionLasts)
BY EachOnItsOwn, NothingOfAnotherConversation, OrderOnScreen, NeverShownTwice, IndicatorHasAnEnd,
   SavedStayShown, OpenFollowsRoute, NothingStaysBlocked, QueueIsMirrored, SendingAlwaysWatched,
   ThreadAlwaysOfActive, ThreadAlwaysComplete, BlankPagesAwaitRefresh, SessionsLast, PTL

\* Behind the pages: the guard of the assistant's answers, the session's row and
\* messages, the review of simulation feedback and the builds of the profiles.
THEOREM WorkersStaySafe ==
  PartsSpec => /\ []NoGateLeaks /\ GateImplementsLease
               /\ [](RowConsistent /\ NumberedInOrder) /\ AssistantYields
               /\ []DecidedOnce /\ []ActiveIsLatest
BY EachOnItsOwn, GatesAreRemoved, GateRefinesLease, RowStaysConsistent, MessagesNumbered,
   AssistantAlwaysYields, CandidateDecidedOnce, ProfilesAreLatest, PTL

=============================================================================
