--------------------------- MODULE GenerationGate ----------------------------
(***************************************************************************)
(* AiResponseGenerationGuard: a gate (one permit, a count of references) per  *)
(* chat session in a concurrent map.  compute and computeIfPresent are atomic *)
(* for one key; the permit and the count are changed outside them.  The       *)
(* threads that call it generate an answer while they hold the permit.        *)
(***************************************************************************)
EXTENDS Naturals, FiniteSets

CONSTANTS
  Workers,       \* the threads that call tryEnter
  ChatIds,
  Gates,         \* bound: SessionGate objects alive at one time
  NoGate

ASSUME GateAssumption == NoGate \notin Gates
ASSUME WorkersAssumption == IsFiniteSet(Workers)

VARIABLES
  gateOf,     \* sessionGates
  references, \* of a gate
  permits,    \* of a gate's semaphore
  worker      \* where a thread is, with the arguments of its call

gateVars == <<gateOf, references, permits, worker>>

Stages == {"idle", "retained", "refused", "leased", "releasing", "dropped"}

\* An object is new when nothing refers to it.
Unused(g) ==
  /\ \A c \in ChatIds : gateOf[c] # g
  /\ \A w \in Workers : worker[w].at # "idle" => worker[w].gate # g

At(w, stage) == worker[w].at = stage

GoTo(w, stage) == worker' = [worker EXCEPT ![w].at = stage]

-----------------------------------------------------------------------------
\* tryEnter's compute: the gate there is, or a new one, and a reference to it.
Enter(w, c) ==
  /\ At(w, "idle")
  /\ \E g \in Gates :
       /\ IF gateOf[c] = NoGate
          THEN /\ Unused(g)
               /\ references' = [references EXCEPT ![g] = 1]
               /\ permits' = [permits EXCEPT ![g] = 1]
          ELSE /\ g = gateOf[c]
               /\ references' = [references EXCEPT ![g] = @ + 1]
               /\ UNCHANGED permits
       /\ gateOf' = [gateOf EXCEPT ![c] = g]
       /\ worker' = [worker EXCEPT ![w] = [at |-> "retained", chat |-> c, gate |-> g]]

TryAcquire(w) ==
  /\ At(w, "retained")
  /\ IF permits[worker[w].gate] > 0
     THEN permits' = [permits EXCEPT ![worker[w].gate] = @ - 1] /\ GoTo(w, "leased")
     ELSE UNCHANGED permits /\ GoTo(w, "refused")
  /\ UNCHANGED <<gateOf, references>>

\* Lease.close, once the answer is saved or has failed.
Release(w) ==
  /\ At(w, "leased")
  /\ permits' = [permits EXCEPT ![worker[w].gate] = @ + 1]
  /\ GoTo(w, "releasing")
  /\ UNCHANGED <<gateOf, references>>

DropReference(w) ==
  /\ At(w, "refused") \/ At(w, "releasing")
  /\ references' = [references EXCEPT ![worker[w].gate] = @ - 1]
  /\ GoTo(w, "dropped")
  /\ UNCHANGED <<gateOf, permits>>

\* Mutant: the count of references is not asked.
MutCanRemove(g) == permits[g] = 1

CanRemove(g) == references[g] = 0 /\ permits[g] = 1

\* Mutant: the gate is removed only by a thread that finds no other in the guard.
MutRemovesGate(w) == CanRemove(worker[w].gate) /\ \A v \in Workers \ {w} : At(v, "idle")

RemovesGate(w) == gateOf[worker[w].chat] = worker[w].gate /\ CanRemove(worker[w].gate)

\* releaseReference's computeIfPresent.
RemoveGate(w) ==
  /\ At(w, "dropped")
  /\ gateOf' = IF RemovesGate(w) THEN [gateOf EXCEPT ![worker[w].chat] = NoGate] ELSE gateOf
  /\ GoTo(w, "idle")
  /\ UNCHANGED <<references, permits>>

GateInit ==
  /\ gateOf = [c \in ChatIds |-> NoGate]
  /\ references = [g \in Gates |-> 0]
  /\ permits = [g \in Gates |-> 1]
  /\ \E c \in ChatIds : worker = [w \in Workers |-> [at |-> "idle", chat |-> c, gate |-> NoGate]]

GateNext ==
  \E w \in Workers :
    \/ \E c \in ChatIds : Enter(w, c)
    \/ TryAcquire(w) \/ Release(w) \/ DropReference(w) \/ RemoveGate(w)

GateSpec == GateInit /\ [][GateNext]_gateVars

-----------------------------------------------------------------------------
(* Properties.                                                              *)

GateTypeOK ==
  /\ gateOf \in [ChatIds -> Gates \cup {NoGate}]
  /\ references \in [Gates -> Nat]
  /\ permits \in [Gates -> {0, 1}]
  /\ worker \in [Workers -> [at : Stages, chat : ChatIds, gate : Gates \cup {NoGate}]]
  /\ \A w \in Workers : ~At(w, "idle") => worker[w].gate \in Gates

Leases == {<<w, worker[w].chat>> : w \in {v \in Workers : At(v, "leased")}}

Lease == INSTANCE GenerationLease WITH leases <- Leases

\* One generation for a chat at a time, although gates come and go: a thread
\* that got its gate just before another removed it from the map never holds
\* the permit of a gate while a third holds that of the gate that replaced it.
GateImplementsLease == Lease!LeaseSpec

\* The map keeps no gate nobody will remove: a chat has one only while some
\* thread is between tryEnter and the end of releaseReference for it.
NoGateLeaks ==
  \A c \in ChatIds : gateOf[c] # NoGate =>
    \E w \in Workers : ~At(w, "idle") /\ worker[w].chat = c /\ worker[w].gate = gateOf[c]

=============================================================================
