--------------------------- MODULE MCServiceParts ----------------------------
(* Model values and bounds of the run of ServiceParts.                       *)
EXTENDS ServiceParts, TLC

CONSTANTS v1, v2, v3, v4

Symmetry == Permutations({v1, v2}) \cup Permutations({v3, v4})

\* The customer's later sessions are opened and left, nothing is written there;
\* three things under way or gone wrong, two once a counselor has come in.
FirstSessionIsBusy ==
  /\ \A s \in 2..MaxSessions : typed[s] = <<>> /\ ~human[s]
  /\ Cardinality(starts) + Cardinality(sends) + Cardinality(wire) + mishaps
       <= (IF human[1] THEN 2 ELSE 3)

\* Three readings, events, failures and excuses together, two once a second
\* conversation has begun or a row has changed a third time; a row that is about to
\* be written back counts as two.
CalmQueue ==
  LET begun == {c \in Chats : sessionRow[c].status # "absent"}
  IN  Cardinality(events) + Cardinality(readings) + troubles + Cardinality(excuses)
        + 2 * Cardinality({u \in Unlocked : saving[u] # NoSave})
        <= (IF Cardinality(begun) <= 1 /\ changes < MaxChanges THEN 3 ELSE 2)

\* One of the counselor's conversations has messages, the others are opened and
\* left; three things under way or gone wrong.
OneBusyChat ==
  /\ \E x \in Chats : \A y \in Chats \ {x} : said[y] = <<>>
  /\ Cardinality(frames) + Cardinality(echoes) + Cardinality(loads) + errors
       + failures + Cardinality(flaws) <= 3

\* One login or logout at a time, one cause for the end of a session, and the
\* fewer things under way the more tokens were issued.
OneSign ==
  /\ Cardinality(signs) <= 1
  /\ Cardinality(causes) <= 1
  /\ Cardinality(signs) + Cardinality(refreshes) + Cardinality(requests) + Cardinality(Issued)
       <= (IF Cardinality(Issued) = MaxTokens THEN 4 ELSE 5)

Bounds ==
  /\ part = "user chat" => FirstSessionIsBusy
  /\ part = "queue" => CalmQueue
  /\ part = "thread" => OneBusyChat
  /\ part = "browser" => OneSign

=============================================================================
