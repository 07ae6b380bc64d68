--------------------------- MODULE GenerationLease ---------------------------
(***************************************************************************)
(* What AiResponseGenerationGuard promises its callers: at any moment at most *)
(* one of them generates the answer of a chat session.                       *)
(***************************************************************************)
CONSTANTS Workers, ChatIds

VARIABLE leases  \* pairs of a worker and the chat it may answer

Take(w, c) ==
  /\ \A l \in leases : l[2] # c
  /\ leases' = leases \cup {<<w, c>>}

GiveBack(w, c) ==
  /\ <<w, c>> \in leases
  /\ leases' = leases \ {<<w, c>>}

LeaseInit == leases = {}

LeaseNext == \E w \in Workers, c \in ChatIds : Take(w, c) \/ GiveBack(w, c)

LeaseSpec == LeaseInit /\ [][LeaseNext]_leases

=============================================================================
