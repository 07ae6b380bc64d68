-------------------------- MODULE ConsultationChats --------------------------
(***************************************************************************)
(* What the two halves of the counselor's page (pages/consultation) share: the *)
(* conversations of the workspace.                                           *)
(***************************************************************************)
CONSTANTS Chats, NoChat

ASSUME ChatsAssumption == NoChat \notin Chats

=============================================================================
