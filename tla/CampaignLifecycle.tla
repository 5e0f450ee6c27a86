------------------------- MODULE CampaignLifecycle -------------------------
(***************************************************************************)
(* The status vocabularies of campaigns, episodes and queue rows, and the  *)
(* transition tables the repository checks every status change against.    *)
(***************************************************************************)
EXTENDS Integers, Sequences

CampaignStatus == {"CREATED", "VALIDATING", "READY", "RUNNING", "CANCELLING",
                   "FAILED", "COMPLETED", "REJECTED", "BLOCKED"}

TerminalCampaign == {"COMPLETED", "FAILED", "REJECTED", "BLOCKED"}

EarlyExits == {"CANCELLING", "FAILED", "REJECTED", "BLOCKED"}

CampaignTransitions ==
  [CREATED    |-> {"VALIDATING"} \cup EarlyExits,
   VALIDATING |-> {"READY"} \cup EarlyExits,
   READY      |-> {"RUNNING"} \cup EarlyExits,
   RUNNING    |-> {"CANCELLING", "FAILED", "COMPLETED", "BLOCKED"},
   CANCELLING |-> {"FAILED", "COMPLETED"},
   FAILED     |-> {},
   COMPLETED  |-> {},
   REJECTED   |-> {},
   BLOCKED    |-> {}]

-----------------------------------------------------------------------------

EpisodeStatus == {"PENDING", "PROVISIONING", "READY", "EXECUTING", "VERIFYING",
                  "SUCCEEDED", "EXHAUSTED", "FAILED", "DESTROYED"}

\* An episode some attempt still has to bring to an end.
OpenEpisode == {"PENDING", "PROVISIONING", "READY", "EXECUTING", "VERIFYING"}

\* An episode with its result on record and its capsule possibly still up.
JudgedEpisode == {"SUCCEEDED", "EXHAUSTED", "FAILED"}

EpisodeTransitions ==
  [PENDING      |-> {"PROVISIONING", "FAILED"},
   PROVISIONING |-> {"READY", "FAILED"},
   READY        |-> {"EXECUTING", "FAILED"},
   EXECUTING    |-> {"VERIFYING", "FAILED"},
   VERIFYING    |-> JudgedEpisode,
   SUCCEEDED    |-> {"DESTROYED"},
   EXHAUSTED    |-> {"DESTROYED"},
   FAILED       |-> {"DESTROYED"},
   DESTROYED    |-> {}]

-----------------------------------------------------------------------------

JobStatus == {"PENDING", "LEASED", "COMPLETED", "FAILED", "CANCELLED"}

SettledJob == {"COMPLETED", "FAILED", "CANCELLED"}

\* Positions of the episodes of the list es that are still open.
OpenIn(es) == {i \in DOMAIN es : es[i] \in OpenEpisode}

\* Variant: whatever is not destroyed counts as stale.
FailEpisodesAll(es, stale) ==
  [i \in DOMAIN es |-> IF es[i] = "DESTROYED" THEN es[i] ELSE "FAILED"]

\* _fail_stale_episodes: the listed episodes are recorded as FAILED.
FailEpisodes(es, stale) ==
  [i \in DOMAIN es |-> IF i \in stale THEN "FAILED" ELSE es[i]]
=============================================================================
