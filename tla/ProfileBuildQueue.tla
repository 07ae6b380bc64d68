-------------------------- MODULE ProfileBuildQueue --------------------------
(***************************************************************************)
(* The durable queue of workflow matching profile builds, for one version of  *)
(* a domain pack: an edit puts a build in the queue, one scheduled worker of   *)
(* each server claims builds, embeds the texts and replaces the ACTIVE         *)
(* profiles.  A profile stands for those of all the version's workflows that   *)
(* one build made of one text.                                              *)
(***************************************************************************)
EXTENDS Naturals

CONSTANTS
  Servers,       \* each runs one worker
  MaxBuilds,     \* bound: builds put in the queue
  MaxRetries,    \* max_retries of a build
  MaxText        \* bound: revisions of the version's texts

ASSUME MaxRetriesAssumption == MaxRetries \in Nat \ {0}
ASSUME MaxBuildsAssumption == MaxBuilds \in Nat \ {0}
ASSUME MaxTextAssumption == MaxText \in Nat \ {0}

VARIABLES
  text,       \* workflow and intent definitions: revision of their texts
  build,      \* workflow_matching_profile_build: status, retry_count, age
  stored,     \* workflow_matching_profile: the committed rows
  active,     \* those of them that are ACTIVE, the others are STALE
  builder,    \* the worker of each server
  overlapped  \* history: the last build to commit had another commit beside it

queueOfBuildsVars == <<text, build, stored, active, builder, overlapped>>

Builds == 1..MaxBuilds
Revisions == 1..MaxText
NoBuild == 0
Profiles == Builds \X Revisions
Queued == [status |-> "QUEUED", retries |-> 0, expired |-> FALSE]
Unqueued == [status |-> "NONE", retries |-> 0, expired |-> FALSE]
Resting == [at |-> "idle", build |-> NoBuild, text |-> 1, replaced |-> {}, raced |-> FALSE]

\* The profile the worker of s makes.
Made(s) == <<builder[s].build, builder[s].text>>

\* SKIP LOCKED has nothing to skip: the row is locked for one statement.
\* Mutant: a failed build is not taken up again.
MutClaimable(b) ==
  \/ build[b].status = "QUEUED"
  \/ build[b].status = "RUNNING" /\ build[b].expired /\ build[b].retries < MaxRetries

Claimable(b) ==
  \/ build[b].status = "QUEUED"
  \/ build[b].status = "FAILED" /\ build[b].retries < MaxRetries
  \/ build[b].status = "RUNNING" /\ build[b].expired /\ build[b].retries < MaxRetries

-----------------------------------------------------------------------------
\* An edit of a workflow or an intent and its build, in one transaction;
\* activating or deploying the version queues a build of texts as they are.
Edit ==
  \E b \in Builds, revision \in {text, text + 1} :
    /\ build[b].status = "NONE"
    /\ \A c \in 1..(b - 1) : build[c].status # "NONE"
    /\ revision \in Revisions
    /\ text' = revision
    /\ build' = [build EXCEPT ![b] = Queued]
    /\ UNCHANGED <<stored, active, builder, overlapped>>

\* markExhaustedRunningJobsFailed, the first statement of claimNext.
StartPoll(s) ==
  /\ builder[s].at = "idle"
  /\ builder' = [builder EXCEPT ![s].at = "polling"]
  /\ build' = [b \in Builds |->
       IF build[b].status = "RUNNING" /\ build[b].expired /\ build[b].retries >= MaxRetries
         THEN [build[b] EXCEPT !.status = "FAILED"] ELSE build[b]]
  /\ UNCHANGED <<text, stored, active, overlapped>>

\* The second: the oldest build that may be claimed, if there is one.
ClaimNext(s) ==
  /\ builder[s].at = "polling"
  /\ \/ /\ \A b \in Builds : ~Claimable(b)
        /\ builder' = [builder EXCEPT ![s] = Resting]
        /\ UNCHANGED build
     \/ \E b \in Builds :
          /\ Claimable(b)
          /\ \A c \in 1..(b - 1) : ~Claimable(c)
          /\ build' = [build EXCEPT ![b] =
               [status |-> "RUNNING", retries |-> @.retries + 1, expired |-> FALSE]]
          /\ builder' = [builder EXCEPT ![s].at = "claimed", ![s].build = b]
  /\ UNCHANGED <<text, stored, active, overlapped>>

\* buildJob reads the texts, then embeds them one by one.
ReadTexts(s) ==
  /\ builder[s].at = "claimed"
  /\ builder' = [builder EXCEPT ![s].at = "embedding", ![s].text = text]
  /\ UNCHANGED <<text, build, stored, active, overlapped>>

\* replaceActiveProfileVersionAndMarkSucceeded, up to its commit: its own rows
\* are inserted, once another worker with the same ones has ended, unless the
\* build has stored this text before, and those ACTIVE now are to be STALE.
Replace(s) ==
  /\ builder[s].at = "embedding"
  /\ Made(s) \notin stored
  /\ \A o \in Servers \ {s} : builder[o].at = "replacing" => Made(o) # Made(s)
  /\ builder' = [builder EXCEPT ![s].at = "replacing", ![s].replaced = active]
  /\ UNCHANGED <<text, build, stored, active, overlapped>>

\* The commit, whatever the build's row says by now; its answer may be lost.
Commit(s) ==
  /\ builder[s].at = "replacing"
  /\ stored' = stored \cup {Made(s)}
  /\ active' = (active \ builder[s].replaced) \cup {Made(s)}
  /\ build' = [build EXCEPT ![builder[s].build].status = "SUCCEEDED"]
  /\ overlapped' = builder[s].raced
  /\ \E next \in {Resting, [builder[s] EXCEPT !.at = "failing"]} :
       builder' = [o \in Servers |->
         IF o = s THEN next
         ELSE [builder[o] EXCEPT !.raced = builder[o].at \in {"embedding", "replacing"}]]
  /\ UNCHANGED text

\* The embedding fails, a row is there already, or the transaction fails.
Fail(s) ==
  /\ builder[s].at \in {"claimed", "embedding", "replacing"}
  /\ builder' = [builder EXCEPT ![s].at = "failing"]
  /\ UNCHANGED <<text, build, stored, active, overlapped>>

\* markFailed, which does not look at the status it overwrites.
MarkFailed(s) ==
  /\ builder[s].at = "failing"
  /\ build' = [build EXCEPT ![builder[s].build].status = "FAILED"]
  /\ builder' = [builder EXCEPT ![s] = Resting]
  /\ UNCHANGED <<text, stored, active, overlapped>>

\* The server stops, or markFailed does not reach the database.
Crash(s) ==
  /\ builder[s].at # "idle"
  /\ builder' = [builder EXCEPT ![s] = Resting]
  /\ UNCHANGED <<text, build, stored, active, overlapped>>

\* profileBuildRunningTimeout passes, the worker may still be at it.
Expire(b) ==
  /\ build[b].status = "RUNNING"
  /\ build' = [build EXCEPT ![b].expired = TRUE]
  /\ UNCHANGED <<text, stored, active, builder, overlapped>>

-----------------------------------------------------------------------------
\* The version's draft has been saved, with its first build.
BuildQueueInit ==
  /\ text = 1
  /\ build = [b \in Builds |-> IF b = 1 THEN Queued ELSE Unqueued]
  /\ stored = {}
  /\ active = {}
  /\ builder = [s \in Servers |-> Resting]
  /\ overlapped = FALSE

BuildQueueNext ==
  \/ Edit
  \/ \E s \in Servers :
       \/ StartPoll(s) \/ ClaimNext(s) \/ ReadTexts(s) \/ Replace(s) \/ Commit(s)
       \/ Fail(s) \/ MarkFailed(s) \/ Crash(s)
  \/ \E b \in Builds : Expire(b)

BuildQueueSpec == BuildQueueInit /\ [][BuildQueueNext]_queueOfBuildsVars

\* Every variable has the form its comment gives it.
BuildQueueTypeOK ==
  /\ text \in Revisions
  /\ build \in [Builds -> [status : {"NONE", "QUEUED", "RUNNING", "SUCCEEDED", "FAILED"},
                           retries : 0..MaxRetries, expired : BOOLEAN]]
  /\ stored \subseteq Profiles
  /\ active \subseteq stored
  /\ builder \in [Servers ->
       [at : {"idle", "polling", "claimed", "embedding", "replacing", "failing"},
        build : Builds \cup {NoBuild}, text : Revisions,
        replaced : SUBSET Profiles, raced : BOOLEAN]]
  /\ overlapped \in BOOLEAN

\* When nothing is left to build the ACTIVE profiles are those of the current
\* texts and of one build, whatever failed, expired or was built twice on the
\* way: unless the newest build has used up its retries, or the last one to
\* commit had read its texts before another one's commit.
ActiveIsLatest ==
  \A newest \in Builds :
    /\ build[newest].status # "NONE"
    /\ \A b \in Builds : b > newest => build[b].status = "NONE"
    /\ \A b \in Builds : build[b].status # "RUNNING" /\ ~Claimable(b)
    /\ build[newest].status = "FAILED" => build[newest].retries < MaxRetries
    /\ ~overlapped
    => \E profile \in stored : active = {profile} /\ profile[2] = text

=============================================================================
