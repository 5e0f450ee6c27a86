----------------------------- MODULE ArtifactProofs -----------------------------
(* Theorems about ResearchArtifacts, for any finite set of uploads and any *)
(* number of handlers, runs, case pairs and attempts.                      *)
EXTENDS ResearchArtifacts, SumProofs, TLAPS

(***************************************************************************)
(* Uploads.  A handler awaits the bytes and the store with the row         *)
(* unlocked, and whoever gives the upload up meanwhile removes the file    *)
(* under it, before its transaction commits.  What makes a finalized       *)
(* upload whole is that at most one handler is at work on an upload, at a  *)
(* place its status allows, and that a status given up never comes back.   *)
(***************************************************************************)
Receiving == {"opening", "receiving", "received", "broken", "cleared"}
Storing == {"storing", "stored", "unstored"}
Busy == Receiving \cup Storing \cup {"completed"}

GivenUp == {"cancelled", "expired"}

UploadStatus ==
  {"none", "pending", "uploading", "failed", "uploaded", "finalizing", "completed"} \cup GivenUp

UploadTypes ==
  /\ upload \in [Upload -> UploadStatus]
  /\ file \in [Upload -> Content]
  /\ calls \in [Call -> [at : Busy, upload : Upload] \cup {Idle}]
  /\ artifacts \in [Upload \cup Kind -> Nat]
  /\ giving \in [uploads : SUBSET Upload, as : GivenUp \cup {None}]

Works(c, u) == calls[c] # Idle /\ calls[c].upload = u

\* A handler is where the status of its upload lets it be, or the upload was given up.
PlaceFits(at, status, content) ==
  /\ at \in Receiving => status \in {"uploading"} \cup GivenUp
  /\ at \in Storing => status \in {"finalizing"} \cup GivenUp
  /\ at = "completed" => status = "completed"
  /\ at = "receiving" /\ status = "uploading" => content # "none"
  /\ at = "received" /\ status = "uploading" => content \in {"whole", "lost"}

\* What a transaction gives up has not changed since it looked.
Giving == \A u \in giving.uploads : Abandonable(u) /\ giving.as \in GivenUp

\* A file that is left of an upload given up is one its handler still removes.
Going(u) == upload[u] \in GivenUp \/ u \in giving.uploads

Removes(at) == at \in {"receiving", "received", "broken"}

FileOwned(u) ==
  Going(u) /\ ~ restarted /\ IsThere(file[u])
    => \E c \in Call : Works(c, u) /\ Removes(calls[c].at)

Whole(status, content, count) ==
  /\ status \in {"uploaded", "finalizing"} => content \in {"whole", "lost"}
  /\ count = IF status = "completed" THEN 1 ELSE 0

UploadInv ==
  /\ UploadTypes
  /\ Giving
  /\ \A c \in Call, u \in Upload : Works(c, u) => PlaceFits(calls[c].at, upload[u], file[u])
  /\ \A c, d \in Call, u \in Upload : Works(c, u) /\ Works(d, u) => c = d
  /\ \A u \in Upload : Whole(upload[u], file[u], artifacts[u]) /\ FileOwned(u)

-----------------------------------------------------------------------------
\* A step on one upload's row and file.
Touches(u, status, content) ==
  /\ upload' = [upload EXCEPT ![u] = status]
  /\ file' = [file EXCEPT ![u] = content]
  /\ restarted' = restarted
  /\ artifacts' \in [Upload \cup Kind -> Nat]
  /\ \A v \in Upload \ {u} : artifacts'[v] = artifacts[v]
  /\ Whole(status, content, artifacts'[u])

LEMMA Touched ==
  ASSUME UploadTypes, NEW u \in Upload, NEW s \in UploadStatus, NEW f \in Content, Touches(u, s, f)
  PROVE  /\ upload' \in [Upload -> UploadStatus]
         /\ file' \in [Upload -> Content]
         /\ upload'[u] = s /\ file'[u] = f
         /\ \A v \in Upload \ {u} : upload'[v] = upload[v] /\ file'[v] = file[v]
BY DEF UploadTypes, Touches

\* Without the owner's lock nobody changes a status.
LEMMA GivingStays ==
  ASSUME UploadInv, UNCHANGED giving, NEW u \in Upload,
         \A v \in Upload \ {u} : upload'[v] = upload[v],
         Unlocked \/ upload'[u] = upload[u]
  PROVE  Giving'
<1>1. Unlocked => giving'.uploads = {}
  BY DEF Unlocked, Nobody
<1>2. giving.uploads \subseteq Upload
  BY DEF UploadInv, UploadTypes
<1> QED
  BY <1>1, <1>2 DEF UploadInv, Giving, Abandonable

\* The handler goes on, and has the upload to itself.
LEMMA HandlerStep ==
  ASSUME UploadInv, NEW c \in Call, NEW u \in Upload, Works(c, u),
         NEW at \in Busy \cup {"idle"}, Goes(c, at),
         NEW s \in UploadStatus, NEW f \in Content, Touches(u, s, f),
         at # "idle" => PlaceFits(at, s, f),
         UNCHANGED giving, Unlocked \/ s = upload[u],
         (s \in GivenUp \/ u \in giving.uploads) /\ ~ restarted /\ IsThere(f) => Removes(at)
  PROVE  UploadInv'
<1>1. /\ upload' \in [Upload -> UploadStatus] /\ file' \in [Upload -> Content]
      /\ upload'[u] = s /\ file'[u] = f /\ restarted' = restarted
      /\ \A v \in Upload \ {u} : upload'[v] = upload[v] /\ file'[v] = file[v] /\ artifacts'[v] = artifacts[v]
  BY Touched DEF UploadInv, Touches
<1>2. /\ calls' \in [Call -> [at : Busy, upload : Upload] \cup {Idle}]
      /\ \A d \in Call \ {c} : calls'[d] = calls[d]
      /\ IF at = "idle" THEN calls'[c] = Idle
         ELSE calls'[c] # Idle /\ calls'[c].at = at /\ calls'[c].upload = u
  <2>1. calls[c] \in [at : Busy, upload : Upload] /\ calls[c].upload = u
    BY DEF UploadInv, UploadTypes, Works
  <2>2. CASE at = "idle"
    BY <2>2 DEF UploadInv, UploadTypes, Goes
  <2>3. CASE at # "idle"
    <3>1. [calls[c] EXCEPT !.at = at] \in [at : Busy, upload : Upload]
      BY <2>1, <2>3
    <3>2. \A x \in [at : Busy, upload : Upload] : x # Idle
      BY DEF Idle, Busy, Receiving, Storing
    <3>3. calls' = [calls EXCEPT ![c] = [calls[c] EXCEPT !.at = at]]
      BY <2>3 DEF Goes
    <3> QED
      BY <2>1, <2>3, <3>1, <3>2, <3>3 DEF UploadInv, UploadTypes
  <2> QED
    BY <2>2, <2>3
<1>3. ASSUME NEW d \in Call, NEW v \in Upload, Works(d, v)'
      PROVE  /\ Works(d, v)
             /\ d = c => v = u /\ at # "idle" /\ calls'[d].at = at
             /\ d # c => v # u /\ calls'[d] = calls[d]
  <2>1. CASE d = c
    BY <1>2, <1>3, <2>1 DEF Works
  <2>2. CASE d # c
    BY <1>2, <1>3, <2>2 DEF Works, UploadInv
  <2> QED
    BY <2>1, <2>2
<1>4. UploadTypes'
  BY <1>1, <1>2 DEF UploadInv, UploadTypes, Touches
<1>5. ASSUME NEW d \in Call, NEW v \in Upload, Works(d, v)'
      PROVE  PlaceFits(calls[d].at, upload[v], file[v])'
  <2>1. CASE d = c
    BY <1>1, <1>3, <1>5, <2>1
  <2>2. CASE d # c
    BY <1>1, <1>3, <1>5, <2>2 DEF UploadInv
  <2> QED
    BY <2>1, <2>2
<1>6. \A d, e \in Call, v \in Upload : Works(d, v)' /\ Works(e, v)' => d = e
  BY <1>3 DEF UploadInv
<1>7. ASSUME NEW v \in Upload PROVE (Whole(upload[v], file[v], artifacts[v]) /\ FileOwned(v))'
  <2>1. CASE v = u
    <3>1. ASSUME s \in GivenUp \/ u \in giving.uploads, ~ restarted, IsThere(f)
          PROVE  (\E d \in Call : Works(d, u) /\ Removes(calls[d].at))'
      <4>1. Removes(at) /\ at # "idle"
        BY <3>1 DEF Removes
      <4> QED
        BY <4>1, <1>2 DEF Works
    <3> QED
      BY <1>1, <2>1, <3>1 DEF FileOwned, Going, Touches
  <2>2. CASE v # u
    <3>1. \A d \in Call : Works(d, v) => Works(d, v)' /\ calls'[d] = calls[d]
      BY <1>2, <2>2 DEF Works
    <3> QED
      BY <1>1, <2>2, <3>1 DEF FileOwned, Going, UploadInv
  <2> QED
    BY <2>1, <2>2
<1>8. Giving'
  BY <1>1, GivingStays
<1> QED
  BY <1>4, <1>5, <1>6, <1>7, <1>8 DEF UploadInv

\* Nobody is at work on the upload, and a handler starts.
LEMMA HandlerStarts ==
  ASSUME UploadInv, NEW c \in Call, calls[c] = Idle, NEW u \in Upload, \A d \in Call : ~ Works(d, u),
         NEW at \in Busy, calls' = [calls EXCEPT ![c] = [at |-> at, upload |-> u]],
         NEW s \in UploadStatus \ GivenUp, Touches(u, s, file[u]), PlaceFits(at, s, file[u]),
         Unlocked, UNCHANGED giving
  PROVE  UploadInv'
<1>0. file[u] \in Content
  BY DEF UploadInv, UploadTypes
<1>1. /\ upload' \in [Upload -> UploadStatus] /\ file' \in [Upload -> Content]
      /\ upload'[u] = s /\ file'[u] = file[u] /\ restarted' = restarted
      /\ \A v \in Upload \ {u} : upload'[v] = upload[v] /\ file'[v] = file[v] /\ artifacts'[v] = artifacts[v]
  BY <1>0, Touched DEF UploadInv, Touches
<1>2. /\ calls' \in [Call -> [at : Busy, upload : Upload] \cup {Idle}]
      /\ \A d \in Call \ {c} : calls'[d] = calls[d]
      /\ calls'[c].at = at /\ calls'[c].upload = u
  BY DEF UploadInv, UploadTypes
<1>3. ASSUME NEW d \in Call, NEW v \in Upload, Works(d, v)'
      PROVE  IF d = c THEN v = u ELSE v # u /\ Works(d, v) /\ calls'[d] = calls[d]
  BY <1>2, <1>3 DEF Works
<1>4. UploadTypes'
  BY <1>1, <1>2 DEF UploadInv, UploadTypes, Touches
<1>5. ASSUME NEW d \in Call, NEW v \in Upload, Works(d, v)'
      PROVE  PlaceFits(calls[d].at, upload[v], file[v])'
  <2>1. CASE d = c
    BY <1>1, <1>2, <1>3, <1>5, <2>1
  <2>2. CASE d # c
    BY <1>1, <1>3, <1>5, <2>2 DEF UploadInv
  <2> QED
    BY <2>1, <2>2
<1>6. \A d, e \in Call, v \in Upload : Works(d, v)' /\ Works(e, v)' => d = e
  BY <1>3 DEF UploadInv
<1>7. ASSUME NEW v \in Upload PROVE (Whole(upload[v], file[v], artifacts[v]) /\ FileOwned(v))'
  <2>1. CASE v = u
    BY <1>1, <2>1 DEF FileOwned, Going, Touches, Unlocked, Nobody
  <2>2. CASE v # u
    <3>1. \A d \in Call : Works(d, v) => Works(d, v)' /\ calls'[d] = calls[d]
      BY <1>2, <2>2 DEF Works
    <3> QED
      BY <1>1, <2>2, <3>1 DEF FileOwned, Going, UploadInv
  <2> QED
    BY <2>1, <2>2
<1>8. Giving'
  BY <1>1, GivingStays
<1> QED
  BY <1>4, <1>5, <1>6, <1>7, <1>8 DEF UploadInv

\* The row or the file changes under the handlers.
LEMMA RowStep ==
  ASSUME UploadInv, NEW u \in Upload, NEW s \in UploadStatus, NEW f \in Content, Touches(u, s, f),
         calls' = calls, s \in GivenUp => ~ IsThere(f), Unlocked, UNCHANGED giving,
         \A c \in Call : Works(c, u) => PlaceFits(calls[c].at, s, f)
  PROVE  UploadInv'
<1>1. /\ upload' \in [Upload -> UploadStatus] /\ file' \in [Upload -> Content]
      /\ upload'[u] = s /\ file'[u] = f /\ restarted' = restarted
      /\ \A v \in Upload \ {u} : upload'[v] = upload[v] /\ file'[v] = file[v] /\ artifacts'[v] = artifacts[v]
  BY Touched DEF UploadInv, Touches
<1>2. \A c \in Call, v \in Upload : Works(c, v)' <=> Works(c, v)
  BY DEF Works
<1>3. UploadTypes'
  BY <1>1 DEF UploadTypes, UploadInv, Touches
<1>4. ASSUME NEW c \in Call, NEW v \in Upload, Works(c, v)
      PROVE  PlaceFits(calls[c].at, upload[v], file[v])'
  <2>1. CASE v = u
    BY <1>1, <1>4, <2>1
  <2>2. CASE v # u
    BY <1>1, <1>4, <2>2 DEF UploadInv
  <2> QED
    BY <2>1, <2>2
<1>5. ASSUME NEW v \in Upload PROVE (Whole(upload[v], file[v], artifacts[v]) /\ FileOwned(v))'
  <2>1. CASE v = u
    BY <1>1, <2>1 DEF FileOwned, Going, Touches, Unlocked, Nobody
  <2>2. CASE v # u
    BY <1>1, <1>2, <2>2 DEF FileOwned, Going, UploadInv
  <2> QED
    BY <2>1, <2>2
<1>6. Giving'
  BY <1>1, GivingStays
<1> QED
  BY <1>2, <1>3, <1>4, <1>5, <1>6 DEF UploadInv

LEMMA UploadsUntouched ==
  ASSUME UploadInv, UNCHANGED uploading, artifacts' \in [Upload \cup Kind -> Nat],
         \A u \in Upload : artifacts'[u] = artifacts[u]
  PROVE  UploadInv'
<1>1. Giving'
  BY DEF UploadInv, Giving, Abandonable, uploading
<1> QED
  BY <1>1 DEF UploadInv, UploadTypes, uploading, Works, FileOwned, Going

LEMMA UploadInit == Init => UploadInv
<1> SUFFICES ASSUME Init PROVE UploadInv
  OBVIOUS
<1> QED
  BY DEF Init, UploadInv, UploadTypes, UploadStatus, Content, IsThere, Works, FileOwned, Going, GivenUp,
         Whole, Nobody, Giving

-----------------------------------------------------------------------------
\* What the handler of an upload knows of its row.
LEMMA AtWork ==
  ASSUME UploadInv, NEW c \in Call, calls[c].at # "idle"
  PROVE  \E u \in Upload : /\ Works(c, u) /\ u = calls[c].upload
                           /\ calls[c].at \in Busy /\ upload[u] \in UploadStatus /\ file[u] \in Content
                           /\ artifacts[u] \in Nat
                           /\ PlaceFits(calls[c].at, upload[u], file[u])
                           /\ Whole(upload[u], file[u], artifacts[u])
                           /\ FileOwned(u)
<1>1. calls[c] # Idle
  BY DEF Idle
<1>2. calls[c] \in [at : Busy, upload : Upload]
  BY <1>1 DEF UploadInv, UploadTypes
<1> QED
  BY <1>1, <1>2 DEF UploadInv, UploadTypes, Works

LEMMA Unchanged ==
  ASSUME UploadTypes, NEW u \in Upload
  PROVE  /\ [upload EXCEPT ![u] = upload[u]] = upload
         /\ [file EXCEPT ![u] = file[u]] = file
BY DEF UploadTypes

LEMMA HandlingKeeps ==
  ASSUME UploadInv, Handling
  PROVE  UploadInv'
<1> PICK c \in Call : \/ Open(c) \/ Receive(c) \/ Received(c) \/ FailTransfer(c)
                      \/ PutFile(c) \/ Stored(c) \/ DropFile(c) \/ FailComplete(c)
  BY DEF Handling
<1>1. calls[c].at # "idle"
  BY DEF Open, Receive, Received, FailTransfer, Unlink, TryAgain, PutFile, Stored, DropFile, FailComplete
<1>2. PICK u \in Upload : /\ Works(c, u) /\ u = calls[c].upload
                           /\ calls[c].at \in Busy /\ upload[u] \in UploadStatus /\ file[u] \in Content
                           /\ artifacts[u] \in Nat
                           /\ PlaceFits(calls[c].at, upload[u], file[u])
                           /\ Whole(upload[u], file[u], artifacts[u])
                           /\ FileOwned(u)
  BY <1>1, AtWork
<1>3. UploadTypes /\ artifacts \in [Upload \cup Kind -> Nat]
  BY DEF UploadInv, UploadTypes
<1>4. /\ [upload EXCEPT ![u] = upload[u]] = upload
      /\ [file EXCEPT ![u] = file[u]] = file
  BY <1>3, Unchanged
<1>5. \* the only handler of a row that was given up
      (upload[u] \in GivenUp \/ u \in giving.uploads) /\ ~ restarted /\ IsThere(file[u])
        => Removes(calls[c].at)
  BY <1>2 DEF FileOwned, Going, UploadInv
<1>15. Unlocked => u \notin giving.uploads
  BY DEF Unlocked, Nobody
<1> USE DEF PlaceFits, Whole, Receiving, Storing, Busy, GivenUp, UploadStatus, Content, IsThere, Removes
<1>6. CASE Open(c)
  <2>1. Touches(u, upload[u], "partial") /\ Goes(c, "receiving")
    BY <1>2, <1>3, <1>4, <1>6 DEF Open, File, Touches
  <2> QED
    BY <1>2, <1>6, <2>1, HandlerStep DEF Open
<1>7. CASE Receive(c)
  <2>1. CASE Goes(c, "received") /\ ~ IsThere(file[u]) /\ UNCHANGED file
    <3>1. Touches(u, upload[u], file[u])
      BY <1>2, <1>3, <1>4, <1>7, <2>1 DEF Receive, Touches
    <3> QED
      BY <1>2, <1>7, <2>1, <3>1, HandlerStep DEF Receive
  <2>2. CASE Goes(c, "received") /\ IsThere(file[u]) /\ File(u, "whole")
    <3>1. Touches(u, upload[u], "whole")
      BY <1>2, <1>3, <1>4, <1>7, <2>2 DEF Receive, File, Touches
    <3> QED
      BY <1>2, <1>7, <2>2, <3>1, HandlerStep DEF Receive
  <2>3. CASE Goes(c, "broken") /\ UNCHANGED file
    <3>1. Touches(u, upload[u], file[u])
      BY <1>2, <1>3, <1>4, <1>7, <2>3 DEF Receive, Touches
    <3> QED
      BY <1>2, <1>7, <2>3, <3>1, HandlerStep DEF Receive
  <2> QED
    BY <1>2, <1>7, <2>1, <2>2, <2>3 DEF Receive
<1>8. CASE Received(c)
  <2>1. CASE upload[u] = "uploading"
    <3>1. Touches(u, "uploaded", file[u]) /\ Goes(c, "idle")
      BY <1>2, <1>3, <1>4, <1>8, <2>1 DEF Received, Status, Returned, Touches
    <3> QED
      BY <1>2, <1>15, <1>8, <2>1, <3>1, HandlerStep DEF Received
  <2>2. CASE upload[u] # "uploading"
    <3>1. Touches(u, upload[u], file[u]) /\ Goes(c, "broken")
      BY <1>2, <1>3, <1>4, <1>8, <2>2 DEF Received, Touches
    <3> QED
      BY <1>2, <1>8, <2>2, <3>1, HandlerStep DEF Received
  <2> QED
    BY <2>1, <2>2
<1>9. CASE Unlink(c, "broken", "cleared")
  <2>1. Touches(u, upload[u], "none") /\ Goes(c, "cleared")
    BY <1>2, <1>3, <1>4, <1>9 DEF Unlink, File, Touches
  <2> QED
    BY <1>2, <1>9, <2>1, HandlerStep DEF Unlink
<1>10. CASE TryAgain(c, "cleared", "idle")
  <2>1. CASE upload[u] = "uploading"
    <3>1. Touches(u, "failed", file[u]) /\ Goes(c, "idle")
      BY <1>2, <1>3, <1>4, <1>10, <2>1 DEF TryAgain, Status, Touches
    <3> QED
      BY <1>2, <1>15, <1>10, <2>1, <3>1, HandlerStep DEF TryAgain
  <2>2. CASE upload[u] # "uploading"
    <3>1. Touches(u, upload[u], file[u]) /\ Goes(c, "idle")
      BY <1>2, <1>3, <1>4, <1>10, <2>2 DEF TryAgain, Touches
    <3> QED
      BY <1>2, <1>5, <1>10, <2>2, <3>1, HandlerStep DEF TryAgain
  <2> QED
    BY <2>1, <2>2
<1>11. CASE PutFile(c)
  <2>1. Touches(u, upload[u], file[u])
    BY <1>2, <1>3, <1>4, <1>11 DEF PutFile, Touches
  <2>2. PICK at \in {"stored", "unstored"} : Goes(c, at)
    BY <1>11 DEF PutFile
  <2> QED
    BY <1>2, <1>5, <1>11, <2>1, <2>2, HandlerStep DEF PutFile
<1>12. CASE Stored(c)
  <2>1. CASE upload[u] = "finalizing"
    <3>1. artifacts' = [artifacts EXCEPT ![u] = artifacts[u] + 1]
      BY <1>2, <1>12, <2>1 DEF Stored, Finalizing
    <3>2. Touches(u, "completed", file[u]) /\ Goes(c, "completed")
      BY <1>2, <1>3, <1>4, <1>12, <2>1, <3>1 DEF Stored, Finalizing, Status, Touches
    <3> QED
      BY <1>2, <1>12, <1>15, <2>1, <3>2, HandlerStep DEF Stored
  <2>2. CASE upload[u] # "finalizing"
    <3>1. Touches(u, upload[u], file[u]) /\ Goes(c, "unstored")
      BY <1>2, <1>3, <1>4, <1>12, <2>2 DEF Stored, Finalizing, Touches
    <3> QED
      BY <1>2, <1>5, <1>12, <2>2, <3>1, HandlerStep DEF Stored
  <2> QED
    BY <2>1, <2>2
<1>13. CASE DropFile(c)
  <2>1. Touches(u, upload[u], "none") /\ Goes(c, "idle")
    BY <1>2, <1>3, <1>4, <1>13 DEF DropFile, File, Returned, Touches
  <2> QED
    BY <1>2, <1>13, <2>1, HandlerStep DEF DropFile
<1>14. CASE FailComplete(c)
  <2>1. CASE upload[u] = "finalizing"
    <3>1. PICK s \in {"uploaded", "failed"} : s = IF IsThere(file[u]) THEN "uploaded" ELSE "failed"
      OBVIOUS
    <3>2. Touches(u, s, file[u]) /\ Goes(c, "idle")
      BY <1>2, <1>3, <1>4, <1>14, <2>1, <3>1 DEF FailComplete, Status, Returned, Touches
    <3> QED
      BY <1>2, <1>14, <1>15, <2>1, <3>1, <3>2, HandlerStep DEF FailComplete
  <2>2. CASE upload[u] # "finalizing"
    <3>1. Touches(u, upload[u], file[u]) /\ Goes(c, "idle")
      BY <1>2, <1>3, <1>4, <1>14, <2>2 DEF FailComplete, Returned, Touches
    <3> QED
      BY <1>2, <1>5, <1>14, <2>2, <3>1, HandlerStep DEF FailComplete
  <2> QED
    BY <2>1, <2>2
<1> QED
  BY <1>6, <1>7, <1>8, <1>9, <1>10, <1>11, <1>12, <1>13, <1>14 DEF FailTransfer

\* The requests for an upload; a second one finds its status changed.
LEMMA RequestKeeps ==
  ASSUME UploadInv, NEW u \in Upload,
         \/ Initiate(u) \/ CancelAgain(u)
         \/ \E status \in {"cancelled", "expired"} : Discard(u, status)
         \/ \E c \in Call : Transfer(c, u) \/ Complete(c, u)
  PROVE  UploadInv'
<1> USE DEF PlaceFits, Whole, Receiving, Storing, Busy, GivenUp, UploadStatus, Content, IsThere
<1>1. /\ UploadTypes /\ artifacts \in [Upload \cup Kind -> Nat]
      /\ upload[u] \in UploadStatus /\ file[u] \in Content
      /\ Whole(upload[u], file[u], artifacts[u]) /\ FileOwned(u)
      /\ \A c \in Call : Works(c, u) => /\ calls[c].at \in Busy
                                        /\ PlaceFits(calls[c].at, upload[u], file[u])
  <2>1. ASSUME NEW c \in Call, Works(c, u) PROVE calls[c].at \in Busy
    BY <2>1 DEF UploadInv, UploadTypes, Works
  <2> QED
    BY <2>1 DEF UploadInv, UploadTypes
<1>2. /\ [upload EXCEPT ![u] = upload[u]] = upload
      /\ [file EXCEPT ![u] = file[u]] = file
  BY <1>1, Unchanged
<1>3. CASE Initiate(u)
  <2>1. Touches(u, "pending", file[u]) /\ calls' = calls
    BY <1>1, <1>2, <1>3 DEF Initiate, Status, Touches
  <2> QED
    BY <1>1, <1>3, <2>1, RowStep DEF Initiate
<1>4. CASE CancelAgain(u)
  <2>1. Touches(u, upload[u], "none") /\ calls' = calls
    BY <1>1, <1>2, <1>4 DEF CancelAgain, File, Touches
  <2> QED
    BY <1>1, <1>4, <2>1, RowStep DEF CancelAgain
<1>5. ASSUME NEW status \in {"cancelled", "expired"}, Discard(u, status) PROVE UploadInv'
  <2> HIDE DEF PlaceFits, Whole, Receiving, Storing, Busy, UploadStatus
  <2>1. /\ UNCHANGED <<upload, calls, artifacts, restarted>>
        /\ file'[u] = "lost" /\ file' \in [Upload -> Content]
        /\ \A v \in Upload \ {u} : file'[v] = file[v]
    BY <1>1, <1>5 DEF Discard, File, UploadTypes
  <2>2. giving' = [uploads |-> giving.uploads \cup {u}, as |-> status]
    BY <1>5 DEF Discard
  <2>3. UploadTypes'
    BY <1>1, <2>1, <2>2 DEF UploadTypes
  <2>4. Giving'
    BY <1>5, <2>1, <2>2 DEF UploadInv, Giving, Discard, Abandonable
  <2>5. ASSUME NEW c \in Call, NEW v \in Upload, Works(c, v)'
        PROVE  PlaceFits(calls[c].at, upload[v], file[v])'
    <3>1. Works(c, v)
      BY <2>1, <2>5 DEF Works
    <3>2. CASE v = u
      BY <2>1, <3>1, <3>2 DEF PlaceFits, UploadInv
    <3>3. CASE v # u
      BY <2>1, <3>1, <3>3 DEF UploadInv
    <3> QED
      BY <3>2, <3>3
  <2>6. ASSUME NEW v \in Upload PROVE (Whole(upload[v], file[v], artifacts[v]) /\ FileOwned(v))'
    <3>1. CASE v = u
      BY <2>1, <3>1, <1>1 DEF Whole, FileOwned, IsThere
    <3>2. CASE v # u
      <4>1. Going(v)' => Going(v)
        BY <2>1, <2>2, <3>2 DEF Going
      <4>2. Whole(upload[v], file[v], artifacts[v])' /\ FileOwned(v)
        BY <2>1, <3>2 DEF UploadInv
      <4> QED
        BY <2>1, <3>2, <4>1, <4>2 DEF FileOwned, Works
    <3> QED
      BY <3>1, <3>2
  <2>7. \A c, d \in Call, v \in Upload : Works(c, v)' /\ Works(d, v)' => c = d
    BY <2>1 DEF Works, UploadInv
  <2> QED
    BY <2>3, <2>4, <2>5, <2>6, <2>7 DEF UploadInv
<1>6. ASSUME NEW c \in Call, Transfer(c, u) PROVE UploadInv'
  <2>1. Touches(u, "uploading", file[u]) /\ calls[c] = Idle
        /\ calls' = [calls EXCEPT ![c] = [at |-> "opening", upload |-> u]]
    BY <1>1, <1>2, <1>6 DEF Transfer, Starts, Status, Touches
  <2>2. \A d \in Call : ~ Works(d, u)
    BY <1>1, <1>6 DEF Transfer
  <2>3. PlaceFits("opening", "uploading", file[u]) /\ "opening" \in Busy /\ "uploading" \in UploadStatus \ GivenUp
    BY <1>1, <1>6 DEF Transfer
  <2>4. Unlocked /\ UNCHANGED giving
    BY <1>6 DEF Transfer
  <2> HIDE DEF PlaceFits, Whole, Receiving, Storing, Busy, GivenUp, UploadStatus, Content, IsThere
  <2> QED
    BY <2>1, <2>2, <2>3, <2>4, HandlerStarts
<1>7. ASSUME NEW c \in Call, Complete(c, u) PROVE UploadInv'
  <2>1. Touches(u, "finalizing", file[u]) /\ calls[c] = Idle
        /\ calls' = [calls EXCEPT ![c] = [at |-> "storing", upload |-> u]]
    BY <1>1, <1>2, <1>7 DEF Complete, Starts, Status, Touches
  <2>2. \A d \in Call : ~ Works(d, u)
    BY <1>1, <1>7 DEF Complete
  <2>3. PlaceFits("storing", "finalizing", file[u]) /\ "storing" \in Busy /\ "finalizing" \in UploadStatus \ GivenUp
    BY <1>1, <1>7 DEF Complete
  <2>4. Unlocked /\ UNCHANGED giving
    BY <1>7 DEF Complete
  <2> HIDE DEF PlaceFits, Whole, Receiving, Storing, Busy, GivenUp, UploadStatus, Content, IsThere
  <2> QED
    BY <2>1, <2>2, <2>3, <2>4, HandlerStarts
<1> QED
  BY <1>3, <1>4, <1>5, <1>6, <1>7

\* The transaction that gives uploads up commits.
LEMMA GiveUpKeeps ==
  ASSUME UploadInv, GiveUp
  PROVE  UploadInv'
<1>1. /\ UNCHANGED <<file, calls, artifacts, restarted>>
      /\ giving.uploads \subseteq Upload /\ giving'.uploads = {}
      /\ giving' \in [uploads : SUBSET Upload, as : GivenUp \cup {None}]
  BY DEF GiveUp, UploadInv, UploadTypes, Nobody
<1>2. ASSUME NEW u \in Upload
      PROVE  IF u \in giving.uploads THEN upload'[u] \in GivenUp /\ upload[u] # "completed" /\ artifacts[u] = 0
             ELSE upload'[u] = upload[u]
  BY DEF GiveUp, UploadInv, Giving, Abandonable, Whole
<1>3. UploadTypes'
  BY <1>1, <1>2 DEF GiveUp, UploadInv, UploadTypes, UploadStatus
<1>4. Giving'
  BY <1>1 DEF Giving
<1>5. ASSUME NEW c \in Call, NEW u \in Upload, Works(c, u)'
      PROVE  PlaceFits(calls[c].at, upload[u], file[u])'
  <2>1. Works(c, u)
    BY <1>1, <1>5 DEF Works
  <2>2. PlaceFits(calls[c].at, upload[u], file[u])
    BY <2>1 DEF UploadInv
  <2> QED
    BY <1>1, <1>2, <2>2 DEF PlaceFits, GivenUp, Receiving, Storing
<1>6. ASSUME NEW u \in Upload PROVE (Whole(upload[u], file[u], artifacts[u]) /\ FileOwned(u))'
  <2>1. Whole(upload[u], file[u], artifacts[u]) /\ FileOwned(u)
    BY DEF UploadInv
  <2>2. Going(u)' => Going(u)
    BY <1>1, <1>2 DEF Going
  <2>3. Whole(upload[u], file[u], artifacts[u])'
    BY <1>1, <1>2, <2>1 DEF Whole, GivenUp
  <2> QED
    BY <1>1, <2>1, <2>2, <2>3 DEF FileOwned, Works
<1>7. \A c, d \in Call, u \in Upload : Works(c, u)' /\ Works(d, u)' => c = d
  BY <1>1 DEF Works, UploadInv
<1> QED
  BY <1>3, <1>4, <1>5, <1>6, <1>7 DEF UploadInv

\* It does not: the files are lost, and the rows as they were.
LEMMA RollBackKeeps ==
  ASSUME UploadInv, RollBack
  PROVE  UploadInv'
<1>1. /\ UNCHANGED <<upload, file, calls, artifacts, restarted>> /\ giving'.uploads = {}
      /\ giving' \in [uploads : SUBSET Upload, as : GivenUp \cup {None}]
  BY DEF RollBack, Nobody
<1>2. Giving' /\ \A u \in Upload : Going(u)' => Going(u)
  BY <1>1 DEF Giving, Going
<1> QED
  BY <1>1, <1>2 DEF UploadInv, UploadTypes, FileOwned, Works

LEMMA RestartKeeps == UploadInv /\ Restart => UploadInv'
<1> SUFFICES ASSUME UploadInv, Restart PROVE UploadInv'
  OBVIOUS
<1>1. \A c \in Call, u \in Upload : ~ Works(c, u)'
  BY DEF Restart, Works
<1>2. UploadTypes'
  BY DEF UploadInv, UploadTypes, Restart, Nobody
<1>4. Giving'
  BY DEF UploadInv, Giving, Abandonable, Restart, Nobody
<1>3. \A u \in Upload : Whole(upload[u], file[u], artifacts[u])' /\ FileOwned(u)'
  BY DEF UploadInv, Restart, FileOwned
<1> QED
  BY <1>1, <1>2, <1>3, <1>4 DEF UploadInv

(***************************************************************************)
(* Jobs.  Runs of one job work side by side, and each may be late: that    *)
(* they agree is because a dataset's cutoff is a number of operations that *)
(* have completed, and because a session that is over stays as it is.      *)
(***************************************************************************)
Sample == (1..Pairs) \X Role \X {"completed", "failed"}

JobRun ==
  [at : {"idle", "read", "freeze", "schedule", "store", "record"}, kind : Kind \cup {None},
   attempt : 0..MaxAttempts, owned : BOOLEAN, todo : SUBSET (1..Pairs), samples : SUBSET Sample]

RecordName == Kind \cup {"dataset_freeze", "dataset_result", "evaluation_result"}

JobTypes ==
  /\ record = [k \in RecordName |-> record[k]]
  /\ done \in Nat
  /\ sessions = [c \in Case |-> sessions[c]]
  /\ runs \in [Run -> JobRun]
  /\ artifacts \in [Upload \cup Kind -> Nat]

\* What a run has judged is over, and its samples are these sessions' outcomes.
Judged(todo, samples) ==
  /\ \A c \in Case : c[1] \notin todo => Over(c)
  /\ samples = {<<c[1], c[2], sessions[c]>> : c \in {d \in Case : d[1] \notin todo}}

RunFits(run) ==
  /\ run.at # "idle" <=> run.kind \in Kind
  /\ run.owned => run.kind \in Kind
  /\ run.at = "read" => run.samples = {}
  /\ run.kind = "dataset" =>
       /\ record["dataset"] # None
       /\ run.at # "schedule"
       /\ run.at \in {"store", "record"} => record["dataset_freeze"] # None
  /\ run.kind = "evaluation" =>
       /\ run.at # "freeze"
       /\ run.at = "schedule" => Judged(run.todo, run.samples)
       /\ run.at \in {"store", "record"} => Judged({}, run.samples)

\* No job of a dataset before its cutoff is on record.
PendingFits ==
  /\ pending \in [Kind -> [0..MaxAttempts -> Nat]]
  /\ \A a \in 0..MaxAttempts : pending["dataset"][a] > 0 => record["dataset"] # None

DatasetFits ==
  /\ record["dataset"] # None => record["dataset"] \in 0..done
  /\ record["dataset_freeze"] \in {None, record["dataset"]}
  /\ record["dataset_result"] \in {None, record["dataset"]}

EvaluationFits == Recorded("evaluation") => Judged({}, record["evaluation_result"])

Counted == \A k \in Kind : artifacts[k] = IF Recorded(k) THEN 1 ELSE 0

JobInv ==
  /\ JobTypes
  /\ \A r \in Run : RunFits(runs[r])
  /\ PendingFits
  /\ DatasetFits
  /\ EvaluationFits
  /\ Counted

\* What is on record stays there, and a session that is over stays as it is.
Grows ==
  /\ \A k \in RecordName : record[k] # None => record'[k] = record[k]
  /\ \A c \in Case : Over(c) => sessions'[c] = sessions[c]

-----------------------------------------------------------------------------
LEMMA JudgedStays ==
  ASSUME Grows, NEW todo, NEW samples, Judged(todo, samples)
  PROVE  Judged(todo, samples)'
<1>1. \A c \in Case : c[1] \notin todo => Over(c) /\ sessions'[c] = sessions[c]
  BY DEF Judged, Grows
<1>2. \A c \in Case : c[1] \notin todo => Over(c)'
  BY <1>1 DEF Over
<1>3. {<<c[1], c[2], sessions[c]>> : c \in {d \in Case : d[1] \notin todo}}
        = {<<c[1], c[2], sessions'[c]>> : c \in {d \in Case : d[1] \notin todo}}
  BY <1>1
<1> QED
  BY <1>2, <1>3 DEF Judged, Case

LEMMA RunStays ==
  ASSUME Grows, NEW run \in JobRun, RunFits(run)
  PROVE  RunFits(run)'
<1>1. \A k \in RecordName : record[k] # None => record'[k] # None
  BY DEF Grows
<1>2. {"dataset", "dataset_freeze"} \subseteq RecordName
  BY DEF RecordName, Kind
<1>3. Judged(run.todo, run.samples) => Judged(run.todo, run.samples)'
  BY JudgedStays
<1>4. Judged({}, run.samples) => Judged({}, run.samples)'
  BY JudgedStays
<1> QED
  BY <1>1, <1>2, <1>3, <1>4 DEF RunFits

LEMMA RunsStep ==
  ASSUME JobInv, Grows, NEW r \in Run, NEW run \in JobRun, runs' = [runs EXCEPT ![r] = run], RunFits(run)'
  PROVE  runs' \in [Run -> JobRun] /\ \A q \in Run : RunFits(runs[q])'
<1>1. runs' \in [Run -> JobRun] /\ runs'[r] = run /\ \A q \in Run \ {r} : runs'[q] = runs[q]
  BY DEF JobInv, JobTypes
<1>2. ASSUME NEW q \in Run \ {r} PROVE RunFits(runs[q])'
  <2>1. RunFits(runs[q]) /\ runs[q] \in JobRun
    BY DEF JobInv, JobTypes
  <2>2. PICK other \in JobRun : other = runs[q]
    BY <2>1
  <2> QED
    BY <1>1, <2>1, <2>2, RunStays
<1> QED
  BY <1>1, <1>2

LEMMA RunsStay ==
  ASSUME JobInv, Grows, runs' = runs
  PROVE  runs' \in [Run -> JobRun] /\ \A q \in Run : RunFits(runs[q])'
<1>2. ASSUME NEW q \in Run PROVE RunFits(runs[q])'
  <2>1. RunFits(runs[q]) /\ runs[q] \in JobRun
    BY DEF JobInv, JobTypes
  <2>2. PICK other \in JobRun : other = runs[q]
    BY <2>1
  <2> QED
    BY <2>1, <2>2, RunStays
<1> QED
  BY <1>2 DEF JobInv, JobTypes

LEMMA NoRunFits == NoRun \in JobRun /\ RunFits(NoRun)'
<1>1. None \notin Kind /\ 0 \in 0..MaxAttempts
  BY ArtifactConstants
<1> QED
  BY <1>1 DEF NoRun, JobRun, RunFits, Kind

LEMMA PendingStays ==
  ASSUME PendingFits, Grows, UNCHANGED pending
  PROVE  PendingFits'
<1>1. "dataset" \in RecordName
  BY DEF RecordName, Kind
<1> QED
  BY <1>1 DEF PendingFits, Grows

LEMMA EnqueueFits ==
  ASSUME PendingFits, Grows, NEW k \in Kind, NEW n \in 0..MaxAttempts, pending' = Enqueued(pending, k, n),
         k = "dataset" => record'["dataset"] # None
  PROVE  PendingFits'
<1>1. "dataset" \in RecordName /\ "dataset" \in Kind
  BY DEF RecordName, Kind
<1>2. pending' = [pending EXCEPT ![k] = [pending[k] EXCEPT ![n] = pending[k][n] + 1]]
  BY DEF Enqueued
<1>3. pending[k] \in [0..MaxAttempts -> Nat] /\ pending[k][n] + 1 \in Nat
  <2>1. pending[k] \in [0..MaxAttempts -> Nat]
    BY DEF PendingFits
  <2>2. pending[k][n] \in Nat
    BY <2>1
  <2> QED
    BY <2>1, <2>2
<1>4. pending' \in [Kind -> [0..MaxAttempts -> Nat]]
  BY <1>2, <1>3 DEF PendingFits
<1>5. CASE k = "dataset"
  BY <1>4, <1>5 DEF PendingFits
<1>6. CASE k # "dataset"
  BY <1>1, <1>2, <1>4, <1>6 DEF PendingFits, Grows
<1> QED
  BY <1>5, <1>6

LEMMA ReleaseFits ==
  ASSUME JobInv, Grows, NEW r \in Run, runs[r].owned, Released(runs[r].kind, runs[r].attempt)
  PROVE  PendingFits'
<1>1. /\ runs[r].kind \in Kind /\ runs[r].attempt \in 0..MaxAttempts
      /\ runs[r].kind = "dataset" => record["dataset"] # None
  BY DEF JobInv, JobTypes, JobRun, RunFits
<1>2. PendingFits /\ ("dataset" \in RecordName)
  BY DEF JobInv, RecordName, Kind
<1>3. PICK k, n : k = runs[r].kind /\ n = runs[r].attempt
  OBVIOUS
<1>4. CASE pending' = Enqueued(pending, k, n)
  BY <1>1, <1>2, <1>3, <1>4, EnqueueFits DEF Grows
<1>5. CASE UNCHANGED pending
  BY <1>2, <1>5, PendingStays
<1> QED
  BY <1>3, <1>4, <1>5 DEF Released

LEMMA RaiseFits ==
  ASSUME JobInv, Grows, NEW r \in Run, Raises(r) \/ Returns(r)
  PROVE  PendingFits' /\ runs' \in [Run -> JobRun] /\ \A q \in Run : RunFits(runs[q])'
<1>1. runs' = [runs EXCEPT ![r] = NoRun]
  BY DEF Raises, Returns
<1>2. PICK run \in JobRun : run = NoRun /\ RunFits(run)'
  BY NoRunFits
<1>3. PendingFits'
  <2>1. CASE runs[r].owned /\ Released(runs[r].kind, runs[r].attempt)
    BY <2>1, ReleaseFits
  <2>2. CASE UNCHANGED pending
    BY <2>2, PendingStays DEF JobInv
  <2> QED
    BY <2>1, <2>2 DEF Raises, Returns
<1> QED
  BY <1>1, <1>2, <1>3, RunsStep

\* The tables of the jobs as they are.
LEMMA TablesStay ==
  ASSUME JobInv, UNCHANGED <<record, done, sessions>>, \A k \in Kind : artifacts'[k] = artifacts[k],
         artifacts' \in [Upload \cup Kind -> Nat],
         PendingFits', runs' \in [Run -> JobRun], \A r \in Run : RunFits(runs[r])'
  PROVE  JobInv'
<1>1. Grows
  BY DEF Grows
<1>2. PICK result : result = record["evaluation_result"]
  OBVIOUS
<1>3. EvaluationFits'
  BY <1>1, <1>2, JudgedStays DEF EvaluationFits, JobInv, Recorded, Result
<1>4. JobTypes' /\ DatasetFits'
  BY DEF JobInv, JobTypes, DatasetFits
<1>5. Counted'
  BY DEF JobInv, Counted, Recorded, Kind
<1> QED
  BY <1>3, <1>4, <1>5 DEF JobInv

LEMMA JobsUntouched ==
  ASSUME JobInv, UNCHANGED computing, artifacts' \in [Upload \cup Kind -> Nat],
         \A k \in Kind : artifacts'[k] = artifacts[k]
  PROVE  JobInv'
<1>1. Grows /\ UNCHANGED <<record, done, sessions, pending, runs>>
  BY DEF Grows, computing
<1>2. PendingFits' /\ runs' \in [Run -> JobRun] /\ \A r \in Run : RunFits(runs[r])'
  BY <1>1, PendingStays, RunsStay DEF JobInv
<1> QED
  BY <1>1, <1>2, TablesStay

LEMMA JobInit == Init => JobInv
<1> SUFFICES ASSUME Init PROVE JobInv
  OBVIOUS
<1>1. RecordName = Kind \union {"dataset_freeze"} \union {Result(k) : k \in Kind}
  BY DEF RecordName, Kind, Result
<1>2. JobTypes /\ DatasetFits /\ EvaluationFits /\ Counted
  <2>1. record = [k \in RecordName |-> None] /\ NoRun \in JobRun
    BY <1>1, NoRunFits DEF Init
  <2> QED
    BY <2>1 DEF Init, JobTypes, DatasetFits, EvaluationFits, Counted, Recorded, Result, RecordName, Kind
<1>3. PendingFits
  BY DEF Init, PendingFits, Kind
<1>4. RunFits(NoRun)
  BY ArtifactConstants DEF NoRun, RunFits, Kind
<1> QED
  BY <1>2, <1>3, <1>4 DEF Init, JobInv

-----------------------------------------------------------------------------
LEMMA MinIn ==
  ASSUME NEW S, S \subseteq Nat, S # {}
  PROVE  Min(S) \in S
BY SmallestElement DEF Min

LEMMA AllOfDataset ==
  ASSUME JobInv, record["dataset"] # None
  PROVE  Selected(record["dataset"]) = record["dataset"]
BY DEF JobInv, JobTypes, DatasetFits, Selected

\* A session that ends or begins is none that was over.
LEMMA EndingKeeps ==
  ASSUME JobInv, Ending
  PROVE  JobInv'
<1>1. PICK case \in Case : (\E outcome \in Outcome[case] : SessionEnds(case, outcome)) \/ ScheduleAgain(case)
  BY DEF Ending
<1>2. ASSUME NEW outcome, SessionEnds(case, outcome) PROVE JobInv'
  <2>1. /\ UNCHANGED <<artifacts, record, done, pending, runs>>
        /\ sessions' = [c \in Case |-> sessions'[c]]
        /\ Grows
    BY <1>2 DEF SessionEnds, JobInv, JobTypes, Grows, Over
  <2>2. PendingFits' /\ runs' \in [Run -> JobRun] /\ \A r \in Run : RunFits(runs[r])'
    BY <2>1, PendingStays, RunsStay DEF JobInv
  <2>3. PICK result : result = record["evaluation_result"]
    OBVIOUS
  <2>4. EvaluationFits'
    BY <2>1, <2>3, JudgedStays DEF EvaluationFits, JobInv, Recorded, Result
  <2>5. JobTypes' /\ DatasetFits' /\ Counted'
    BY <2>1, <2>2 DEF JobInv, JobTypes, DatasetFits, Counted, Recorded
  <2> QED
    BY <2>2, <2>4, <2>5 DEF JobInv
<1>3. CASE ScheduleAgain(case)
  <2>1. /\ UNCHANGED <<artifacts, record, done, sessions, runs>>
        /\ pending' = Enqueued(pending, "evaluation", 0) \/ UNCHANGED pending
    BY <1>3 DEF ScheduleAgain, Schedule
  <2>2. Grows /\ "evaluation" \in Kind /\ 0 \in 0..MaxAttempts
    BY <2>1, ArtifactConstants DEF Grows, Kind
  <2>3. PendingFits'
    BY <2>1, <2>2, EnqueueFits, PendingStays DEF JobInv
  <2> QED
    BY <2>1, <2>2, <2>3, RunsStay, TablesStay DEF JobInv, JobTypes
<1> QED
  BY <1>1, <1>2, <1>3

\* What the researcher asks for is on record before its first job.
LEMMA AskingKeeps ==
  ASSUME JobInv, Snapshot \/ Evaluate \/ OperationCompletes
  PROVE  JobInv'
<1>1. CASE Snapshot \/ Evaluate
  <2>1. PICK k, v : /\ k \in Kind /\ record[k] = None /\ record' = [record EXCEPT ![k] = v]
                    /\ pending' = Enqueued(pending, k, 0)
                    /\ k = "dataset" => v = done
                    /\ k = "evaluation" => v = TRUE
                    /\ UNCHANGED <<artifacts, done, sessions, runs>>
    BY <1>1 DEF Snapshot, Evaluate, Schedule, Kind
  <2>2. /\ record' = [n \in RecordName |-> record'[n]]
        /\ record'[k] = v /\ \A n \in RecordName \ {k} : record'[n] = record[n]
    BY <2>1 DEF JobInv, JobTypes, RecordName
  <2>3. Grows
    BY <2>1, <2>2 DEF Grows
  <2>4. PendingFits'
    <3>1. k = "dataset" => record'["dataset"] # None
      BY <2>1, <2>2, ArtifactConstants DEF JobInv, JobTypes
    <3> QED
      BY <2>1, <2>3, <3>1, EnqueueFits, ArtifactConstants DEF JobInv
  <2>5. runs' \in [Run -> JobRun] /\ \A r \in Run : RunFits(runs[r])'
    BY <2>1, <2>3, RunsStay
  <2>6. \A n \in RecordName \ Kind : record'[n] = record[n]
    BY <2>1, <2>2
  <2>7. {"dataset_freeze", "dataset_result", "evaluation_result"} \cap Kind = {}
        /\ {"dataset_freeze", "dataset_result", "evaluation_result"} \subseteq RecordName
        /\ "dataset" \in RecordName
    BY DEF Kind, RecordName
  <2>8. DatasetFits'
    <3>1. record'["dataset"] # None => record'["dataset"] \in 0..done
      BY <2>1, <2>2, <2>7 DEF JobInv, JobTypes, DatasetFits
    <3>2. record["dataset"] = None \/ record'["dataset"] = record["dataset"]
      BY <2>1, <2>2, <2>7
    <3> QED
      BY <2>1, <2>6, <2>7, <3>1, <3>2 DEF JobInv, DatasetFits
  <2>9. EvaluationFits' /\ Counted'
    <3>1. PICK result : result = record["evaluation_result"]
      OBVIOUS
    <3>2. EvaluationFits'
      BY <2>3, <2>6, <2>7, <3>1, JudgedStays DEF EvaluationFits, JobInv, Recorded, Result
    <3>3. Counted'
      BY <2>1, <2>6, <2>7 DEF Counted, JobInv, Recorded, Result, Kind
    <3> QED
      BY <3>2, <3>3
  <2> QED
    BY <2>1, <2>2, <2>4, <2>5, <2>8, <2>9 DEF JobInv, JobTypes
<1>2. CASE OperationCompletes
  <2>1. done' = done + 1 /\ UNCHANGED <<artifacts, record, sessions, pending, runs>>
    BY <1>2 DEF OperationCompletes
  <2>2. Grows
    BY <2>1 DEF Grows
  <2>3. PendingFits' /\ runs' \in [Run -> JobRun] /\ \A r \in Run : RunFits(runs[r])'
    BY <2>1, <2>2, PendingStays, RunsStay DEF JobInv
  <2>4. PICK result : result = record["evaluation_result"]
    OBVIOUS
  <2>5. EvaluationFits'
    BY <2>1, <2>2, <2>4, JudgedStays DEF EvaluationFits, JobInv, Recorded, Result
  <2>6. JobTypes' /\ DatasetFits' /\ Counted'
    BY <2>1, <2>3 DEF JobInv, JobTypes, DatasetFits, Counted, Recorded
  <2> QED
    BY <2>3, <2>5, <2>6 DEF JobInv
<1> QED
  BY <1>1, <1>2

-----------------------------------------------------------------------------
\* A step of a run that leaves the tables alone but for the jobs.
LEMMA RunMoves ==
  ASSUME JobInv, UNCHANGED <<artifacts, record, done, sessions>>, NEW r \in Run, PendingFits',
         NEW run \in JobRun, runs' = [runs EXCEPT ![r] = run], RunFits(run)
  PROVE  JobInv'
<1>1. Grows
  BY DEF Grows
<1>2. RunFits(run)'
  BY <1>1, RunStays
<1>3. runs' \in [Run -> JobRun] /\ \A q \in Run : RunFits(runs[q])'
  BY <1>1, <1>2, RunsStep
<1> QED
  BY <1>3, TablesStay DEF JobInv, JobTypes

LEMMA PendingSame ==
  ASSUME JobInv, UNCHANGED <<record, sessions, pending>>
  PROVE  PendingFits'
<1>1. Grows
  BY DEF Grows
<1> QED
  BY <1>1, PendingStays DEF JobInv

LEMMA RunOf ==
  ASSUME JobInv, NEW r \in Run
  PROVE  runs[r] \in JobRun /\ RunFits(runs[r])
BY DEF JobInv, JobTypes

\* The run ends, or its worker does.
LEMMA LeavingKeeps ==
  ASSUME JobInv, NEW r \in Run, UNCHANGED <<artifacts, record, done, sessions>>, Raises(r) \/ Returns(r)
  PROVE  JobInv'
<1>1. Grows
  BY DEF Grows
<1> QED
  BY <1>1, RaiseFits, TablesStay DEF JobInv, JobTypes

LEMMA LosingKeeps ==
  ASSUME JobInv, NEW r \in Run, LoseLease(r) \/ Die(r) \/ PutFailed(r)
  PROVE  JobInv'
<1>1. CASE Die(r) \/ PutFailed(r)
  BY <1>1, LeavingKeeps DEF Die, PutFailed
<1>2. CASE LoseLease(r)
  <2>1. Grows
    BY <1>2 DEF LoseLease, Grows
  <2>2. PendingFits'
    BY <1>2, <2>1, ReleaseFits DEF LoseLease
  <2>3. PICK run : run = [runs[r] EXCEPT !.owned = FALSE]
    OBVIOUS
  <2>4. run \in JobRun /\ runs' = [runs EXCEPT ![r] = run]
    BY <1>2, <2>3, RunOf DEF LoseLease, JobRun
  <2>5. RunFits(run)
    <3>1. /\ run.at = runs[r].at /\ run.kind = runs[r].kind /\ run.owned = FALSE
          /\ run.todo = runs[r].todo /\ run.samples = runs[r].samples
      BY <2>3, RunOf DEF JobRun
    <3> QED
      BY <3>1, RunOf DEF RunFits
  <2> QED
    BY <1>2, <2>2, <2>4, <2>5, RunMoves DEF LoseLease
<1> QED
  BY <1>1, <1>2

LEMMA ClaimKeeps ==
  ASSUME JobInv, NEW r \in Run, NEW kind \in Kind, NEW attempt \in 0..MaxAttempts, Claim(r, kind, attempt)
  PROVE  JobInv'
<1>1. /\ attempt < MaxAttempts /\ pending[kind][attempt] > 0
      /\ pending' = [pending EXCEPT ![kind] = [pending[kind] EXCEPT ![attempt] = pending[kind][attempt] - 1]]
      /\ UNCHANGED <<artifacts, record, done, sessions>>
  BY DEF Claim
<1>2. pending[kind] \in [0..MaxAttempts -> Nat]
  BY DEF JobInv, PendingFits
<1>3. pending[kind][attempt] - 1 \in Nat
  <2>1. pending[kind][attempt] \in Nat
    BY <1>2
  <2> QED
    BY <1>1, <2>1
<1>4. pending' \in [Kind -> [0..MaxAttempts -> Nat]]
  BY <1>1, <1>2, <1>3 DEF JobInv, PendingFits
<1>5. kind = "dataset" => record["dataset"] # None
  BY <1>1 DEF JobInv, PendingFits
<1>6. PendingFits'
  <2>1. CASE kind = "dataset"
    BY <1>1, <1>4, <1>5, <2>1 DEF PendingFits
  <2>2. CASE kind # "dataset"
    BY <1>1, <1>4, <2>2 DEF PendingFits, JobInv, Kind
  <2> QED
    BY <2>1, <2>2
<1>7. PICK run : run = [NoRun EXCEPT !.at = "read", !.kind = kind, !.owned = TRUE, !.attempt = attempt + 1]
  OBVIOUS
<1>8. runs' = [runs EXCEPT ![r] = run]
  BY <1>7 DEF Claim
<1>9. attempt + 1 \in 0..MaxAttempts
  BY <1>1, ArtifactConstants
<1>10. run \in JobRun /\ run.at = "read" /\ run.kind = kind /\ run.samples = NoRun.samples
  BY <1>7, <1>9, NoRunFits DEF JobRun
<1>11. RunFits(run)
  BY <1>5, <1>10 DEF RunFits, NoRun
<1> QED
  BY <1>1, <1>6, <1>8, <1>10, <1>11, RunMoves

LEMMA ReadKeeps ==
  ASSUME JobInv, NEW r \in Run, Read(r)
  PROVE  JobInv'
<1>1. UNCHANGED <<artifacts, record, done, sessions>>
  BY DEF Read
<1>2. CASE Returns(r)
  BY <1>1, <1>2, LeavingKeeps
<1>3. CASE ~ Returns(r)
  <2>1. PICK run : run = [runs[r] EXCEPT
            !.at = IF runs[r].kind = "evaluation" THEN "schedule"
                   ELSE IF record["dataset_freeze"] = None THEN "freeze" ELSE "store",
            !.todo = IF runs[r].kind = "evaluation" THEN 1..Pairs ELSE {}]
    OBVIOUS
  <2>2. runs' = [runs EXCEPT ![r] = run] /\ UNCHANGED pending
    BY <1>3, <2>1, RunOf DEF Read, JobRun, JobInv, JobTypes
  <2>3. /\ runs[r].at = "read" /\ runs[r].kind \in Kind /\ runs[r].samples = {}
        /\ runs[r].kind = "dataset" => record["dataset"] # None
    BY RunOf DEF Read, RunFits
  <2>4. /\ run \in JobRun /\ run.kind = runs[r].kind /\ run.samples = {}
        /\ run.at \in {"schedule", "freeze", "store"}
        /\ run.kind = "evaluation" => run.at = "schedule" /\ run.todo = 1..Pairs
        /\ run.kind = "dataset" =>
             run.at # "schedule" /\ (run.at = "store" => record["dataset_freeze"] # None)
    BY <2>1, <2>3, RunOf DEF JobRun, Kind
  <2>5. Judged(1..Pairs, {})
    BY DEF Judged, Case
  <2>6. RunFits(run)
    BY <2>3, <2>4, <2>5 DEF RunFits
  <2> QED
    BY <1>1, <2>2, <2>4, <2>6, PendingSame, RunMoves
<1> QED
  BY <1>2, <1>3

LEMMA PutKeeps ==
  ASSUME JobInv, NEW r \in Run, Put(r)
  PROVE  JobInv'
<1>1. PICK run : run = [runs[r] EXCEPT !.at = "record"]
  OBVIOUS
<1>2. runs' = [runs EXCEPT ![r] = run] /\ UNCHANGED <<artifacts, record, done, sessions, pending>>
  BY <1>1, RunOf DEF Put, At, JobRun
<1>3. /\ run \in JobRun /\ run.kind = runs[r].kind /\ run.samples = runs[r].samples
      /\ run.at = "record" /\ runs[r].at = "store" /\ run.owned = runs[r].owned
  BY <1>1, RunOf DEF JobRun, Put
<1>4. RunFits(run)
  BY <1>3, RunOf DEF RunFits
<1> QED
  BY <1>2, <1>3, <1>4, PendingSame, RunMoves

LEMMA FreezeKeeps ==
  ASSUME JobInv, NEW r \in Run, Freeze(r)
  PROVE  JobInv'
<1>1. /\ runs[r].at = "freeze" /\ runs[r].kind = "dataset" /\ record["dataset"] # None
      /\ runs[r].owned => runs[r].kind \in Kind
  BY RunOf DEF Freeze, RunFits, Kind
<1>2. Selected(record["dataset"]) = record["dataset"]
  BY <1>1, AllOfDataset
<1>3. CASE Raises(r) /\ UNCHANGED record
  BY <1>3, LeavingKeeps DEF Freeze
<1>4. CASE /\ record' = [record EXCEPT !["dataset_freeze"] = record["dataset"]] /\ At(r, "store")
           /\ UNCHANGED <<artifacts, done, sessions, pending>>
           /\ record["dataset_freeze"] \in {None, record["dataset"]}
  <2>1. /\ record' = [n \in RecordName |-> record'[n]]
        /\ record'["dataset_freeze"] = record["dataset"]
        /\ \A n \in RecordName \ {"dataset_freeze"} : record'[n] = record[n]
    BY <1>4 DEF JobInv, JobTypes, RecordName
  <2>2. Grows
    BY <1>4, <2>1 DEF Grows
  <2>3. PICK run : run = [runs[r] EXCEPT !.at = "store"]
    OBVIOUS
  <2>4. /\ run \in JobRun /\ run.kind = "dataset" /\ run.at = "store"
        /\ runs' = [runs EXCEPT ![r] = run]
    BY <1>1, <1>4, <2>3, RunOf DEF JobRun, At
  <2>5. {"dataset", "dataset_result", "evaluation_result"} \subseteq RecordName \ {"dataset_freeze"}
    BY DEF RecordName, Kind
  <2>6. RunFits(run)'
    BY <1>1, <2>1, <2>4, <2>5 DEF RunFits, Kind
  <2>7. runs' \in [Run -> JobRun] /\ \A q \in Run : RunFits(runs[q])'
    BY <2>2, <2>4, <2>6, RunsStep
  <2>8. PendingFits'
    BY <1>4, <2>2, PendingStays DEF JobInv
  <2>9. DatasetFits'
    BY <1>4, <2>1, <2>5 DEF JobInv, DatasetFits
  <2>10. PICK result : result = record["evaluation_result"]
    OBVIOUS
  <2>11. EvaluationFits'
    BY <2>1, <2>2, <2>5, <2>10, JudgedStays DEF EvaluationFits, JobInv, Recorded, Result
  <2>12. Counted'
    BY <1>4, <2>1, <2>5 DEF Counted, JobInv, Recorded, Result, Kind
  <2> QED
    BY <1>4, <2>1, <2>7, <2>8, <2>9, <2>11, <2>12 DEF JobInv, JobTypes
<1> QED
  BY <1>2, <1>3, <1>4 DEF Freeze

-----------------------------------------------------------------------------
\* A run that records finds nobody's result; what it writes is the only one.
LEMMA RecordKeeps ==
  ASSUME JobInv, NEW r \in Run, Record(r)
  PROVE  JobInv'
<1>1. CASE (Returns(r) \/ Raises(r)) /\ UNCHANGED <<artifacts, record>>
  BY <1>1, LeavingKeeps DEF Record
<1>2. CASE ~ ((Returns(r) \/ Raises(r)) /\ UNCHANGED <<artifacts, record>>)
  <2>1. PICK k : k = runs[r].kind
    OBVIOUS
  <2>2. PICK v : v = IF k = "dataset" THEN record["dataset_freeze"] ELSE runs[r].samples
    OBVIOUS
  <2>3. /\ record[Result(k)] = None
        /\ artifacts' = [artifacts EXCEPT ![k] = artifacts[k] + 1]
        /\ record' = [record EXCEPT ![Result(k)] = v]
        /\ Returns(r) /\ UNCHANGED <<done, sessions>>
    BY <1>2, <2>1, <2>2 DEF Record, Recorded
  <2>4. k \in Kind /\ runs[r].at = "record"
    BY <2>1, RunOf DEF Record, RunFits
  <2>5. v # None
    <3>1. CASE k = "dataset"
      BY <2>1, <2>2, <2>4, <3>1, RunOf DEF RunFits
    <3>2. CASE k = "evaluation"
      BY <2>2, <3>2, RunOf, ArtifactConstants DEF JobRun, Sample
    <3> QED
      BY <2>4, <3>1, <3>2 DEF Kind
  <2>6. /\ Result(k) \in RecordName \ (Kind \cup {"dataset_freeze"})
        /\ \A j \in Kind \ {k} : Result(j) \in RecordName \ {Result(k)}
        /\ "dataset" \in RecordName /\ "dataset_freeze" \in RecordName
    BY <2>4 DEF Result, Kind, RecordName
  <2>7. /\ record' = [n \in RecordName |-> record'[n]]
        /\ record'[Result(k)] = v /\ \A n \in RecordName \ {Result(k)} : record'[n] = record[n]
    BY <2>3, <2>6 DEF JobInv, JobTypes
  <2>8. Grows
    BY <2>3, <2>7 DEF Grows
  <2>9. PendingFits' /\ runs' \in [Run -> JobRun] /\ \A q \in Run : RunFits(runs[q])'
    BY <2>3, <2>8, RaiseFits
  <2>10. DatasetFits'
    <3>1. CASE k = "dataset"
      BY <2>2, <2>3, <2>6, <2>7, <3>1 DEF JobInv, DatasetFits, Result, Kind
    <3>2. CASE k = "evaluation"
      BY <2>3, <2>6, <2>7, <3>2 DEF JobInv, DatasetFits, Result, Kind
    <3> QED
      BY <2>4, <3>1, <3>2 DEF Kind
  <2>11. EvaluationFits'
    <3>1. CASE k = "evaluation"
      <4>1. PICK samples : samples = runs[r].samples
        OBVIOUS
      <4>2. Judged({}, samples)
        BY <2>1, <2>4, <3>1, <4>1, RunOf DEF RunFits
      <4>3. Judged({}, samples)'
        BY <2>8, <4>2, JudgedStays
      <4> QED
        BY <2>2, <2>7, <3>1, <4>1, <4>3 DEF EvaluationFits, Result
    <3>2. CASE k = "dataset"
      <4>1. PICK result : result = record["evaluation_result"]
        OBVIOUS
      <4>2. "evaluation_result" \in RecordName \ {Result(k)}
        BY <3>2 DEF RecordName, Result
      <4> QED
        BY <2>7, <2>8, <4>1, <4>2, JudgedStays DEF EvaluationFits, JobInv, Recorded, Result
    <3> QED
      BY <2>4, <3>1, <3>2 DEF Kind
  <2>12. artifacts' \in [Upload \cup Kind -> Nat] /\ Counted'
    <3>1. artifacts[k] \in Nat /\ artifacts[k] = 0
      BY <2>3, <2>4 DEF JobInv, JobTypes, Counted, Recorded
    <3>2. /\ artifacts' \in [Upload \cup Kind -> Nat] /\ artifacts'[k] = 1
          /\ \A j \in Kind \ {k} : artifacts'[j] = artifacts[j]
      BY <2>3, <2>4, <3>1 DEF JobInv, JobTypes
    <3>3. \A j \in Kind \ {k} : Recorded(j)' <=> Recorded(j)
      BY <2>6, <2>7 DEF Recorded
    <3>4. Recorded(k)'
      BY <2>5, <2>7 DEF Recorded
    <3> QED
      BY <3>2, <3>3, <3>4 DEF Counted, JobInv
  <2> QED
    BY <2>3, <2>7, <2>9, <2>10, <2>11, <2>12 DEF JobInv, JobTypes
<1> QED
  BY <1>1, <1>2

\* Its samples are the outcomes of sessions that are over.
LEMMA JudgeKeeps ==
  ASSUME JobInv, NEW r \in Run, Judge(r)
  PROVE  JobInv'
<1>1. UNCHANGED <<artifacts, record, done, sessions>>
  BY DEF Judge
<1>2. CASE Returns(r)
  BY <1>1, <1>2, LeavingKeeps
<1>3. CASE ~ Returns(r)
  <2>1. PICK p : p = NextPair(r)
    OBVIOUS
  <2>2. PICK new : new = {<<p, role, sessions[<<p, role>>]>> : role \in Role}
    OBVIOUS
  <2>3. PICK run : run = [runs[r] EXCEPT
            !.todo = @ \ {p},
            !.at = IF runs[r].todo = {p} THEN "store" ELSE "schedule",
            !.samples = @ \cup new]
    OBVIOUS
  <2>4. runs' = [runs EXCEPT ![r] = run] /\ UNCHANGED pending /\ PairOver(p) /\ runs[r].at = "schedule"
        /\ runs[r].todo # {}
    <3>1. PairOver(p) /\ UNCHANGED pending /\ runs[r].at = "schedule" /\ runs[r].todo # {}
      BY <1>3, <2>1 DEF Judge
    <3>2. runs' = [runs EXCEPT
            ![r].todo = @ \ {p},
            ![r].at = IF runs[r].todo = {p} THEN "store" ELSE "schedule",
            ![r].samples = @ \cup new]
      <4>1. runs' = [runs EXCEPT
              ![r].todo = @ \ {NextPair(r)},
              ![r].at = IF runs[r].todo = {NextPair(r)} THEN "store" ELSE "schedule",
              ![r].samples = @ \cup {<<NextPair(r), role, sessions[<<NextPair(r), role>>]>> : role \in Role}]
        BY <1>3, Zenon DEF Judge
      <4> QED
        BY <2>1, <2>2, <4>1, Zenon
    <3>3. runs' = [runs EXCEPT ![r] = run]
      BY <2>3, <3>2, RunOf DEF JobInv, JobTypes, JobRun
    <3> QED
      BY <3>1, <3>3
  <2>5. runs[r].kind = "evaluation" /\ Judged(runs[r].todo, runs[r].samples)
    BY <2>4, RunOf DEF RunFits, Kind
  <2>6. p \in runs[r].todo /\ runs[r].todo \subseteq 1..Pairs
    BY <2>1, <2>4, RunOf, MinIn DEF NextPair, JobRun
  <2>7. new \subseteq Sample
    <3>1. p \in 1..Pairs /\ \A role \in Role : sessions[<<p, role>>] \in {"completed", "failed"}
      BY <2>4, <2>6 DEF PairOver, Over
    <3>2. ASSUME NEW x \in new PROVE x \in Sample
      <4>1. PICK role \in Role : x = <<p, role, sessions[<<p, role>>]>>
        BY <2>2, <3>2
      <4> QED
        BY <3>1, <4>1 DEF Sample
    <3> QED
      BY <3>2
  <2>8. /\ run \in JobRun /\ run.kind = runs[r].kind /\ run.owned = runs[r].owned
        /\ run.at \in {"store", "schedule"}
        /\ run.at = "store" => runs[r].todo \ {p} = {}
        /\ run.todo = runs[r].todo \ {p} /\ run.samples = runs[r].samples \cup new
    BY <2>3, <2>7, RunOf DEF JobRun
  <2>9. Judged(runs[r].todo \ {p}, runs[r].samples \cup new)
    <3>1. ASSUME NEW c \in Case, c[1] \notin runs[r].todo \ {p}
          PROVE  c[1] \notin runs[r].todo \/ (\E role \in Role : c = <<p, role>>)
      BY <3>1 DEF Case
    <3>2. \A c \in Case : c[1] \notin runs[r].todo \ {p} => Over(c)
      BY <2>4, <2>5, <3>1 DEF Judged, PairOver
    <3>3. \A role \in Role : <<p, role>> \in Case
      BY <2>6 DEF Case
    <3>4. {<<c[1], c[2], sessions[c]>> : c \in {d \in Case : d[1] \notin runs[r].todo \ {p}}}
            \subseteq runs[r].samples \cup new
      <4>1. ASSUME NEW c \in Case, c[1] \notin runs[r].todo \ {p}
            PROVE  <<c[1], c[2], sessions[c]>> \in runs[r].samples \cup new
        <5>1. CASE c[1] \notin runs[r].todo
          BY <2>5, <5>1 DEF Judged
        <5>2. CASE \E role \in Role : c = <<p, role>>
          BY <2>2, <5>2
        <5> QED
          BY <3>1, <4>1, <5>1, <5>2
      <4> QED
        BY <4>1
    <3>5. runs[r].samples \cup new
            \subseteq {<<c[1], c[2], sessions[c]>> : c \in {d \in Case : d[1] \notin runs[r].todo \ {p}}}
      <4>1. ASSUME NEW x \in new
            PROVE  \E c \in Case : c[1] \notin runs[r].todo \ {p} /\ x = <<c[1], c[2], sessions[c]>>
        <5>1. PICK role \in Role : x = <<p, role, sessions[<<p, role>>]>>
          BY <2>2, <4>1
        <5> QED
          BY <3>3, <5>1
      <4>2. ASSUME NEW x \in runs[r].samples
            PROVE  \E c \in Case : c[1] \notin runs[r].todo \ {p} /\ x = <<c[1], c[2], sessions[c]>>
        BY <2>5, <4>2 DEF Judged
      <4> QED
        BY <4>1, <4>2
    <3> QED
      BY <3>2, <3>4, <3>5 DEF Judged
  <2>10. RunFits(run)
    <3>1. /\ run.kind = "evaluation" /\ run.at \in {"store", "schedule"} /\ Judged(run.todo, run.samples)
          /\ run.at = "store" => run.todo = {}
      BY <2>5, <2>8, <2>9
    <3> QED
      BY <3>1 DEF RunFits, Kind
  <2> QED
    BY <1>1, <2>4, <2>8, <2>10, PendingSame, RunMoves
<1> QED
  BY <1>2, <1>3

LEMMA CreatingKeeps ==
  ASSUME JobInv, NEW r \in Run, NEW role \in Role, CreateSession(r, role)
  PROVE  JobInv'
<1>1. UNCHANGED <<artifacts, record, done>>
  BY DEF CreateSession
<1>2. CASE Raises(r) /\ UNCHANGED sessions
  BY <1>1, <1>2, LeavingKeeps
<1>3. CASE /\ sessions' = [sessions EXCEPT ![<<NextPair(r), role>>] = "open"]
           /\ sessions[<<NextPair(r), role>>] = "none" /\ UNCHANGED <<runs, pending>>
  <2>1. sessions' = [c \in Case |-> sessions'[c]] /\ Grows
    BY <1>1, <1>3 DEF JobInv, JobTypes, Grows, Over
  <2>2. PendingFits' /\ runs' \in [Run -> JobRun] /\ \A q \in Run : RunFits(runs[q])'
    BY <1>3, <2>1, PendingStays, RunsStay DEF JobInv
  <2>3. PICK result : result = record["evaluation_result"]
    OBVIOUS
  <2>4. EvaluationFits'
    BY <1>1, <2>1, <2>3, JudgedStays DEF EvaluationFits, JobInv, Recorded, Result
  <2>5. JobTypes' /\ DatasetFits' /\ Counted'
    BY <1>1, <2>1, <2>2 DEF JobInv, JobTypes, DatasetFits, Counted, Recorded
  <2> QED
    BY <2>2, <2>4, <2>5 DEF JobInv
<1> QED
  BY <1>2, <1>3 DEF CreateSession

LEMMA WorkingKeeps ==
  ASSUME JobInv, NEW r \in Run, Working(r)
  PROVE  JobInv'
BY ClaimKeeps, ReadKeeps, FreezeKeeps, PutKeeps, RecordKeeps, JudgeKeeps, CreatingKeeps DEF Working

-----------------------------------------------------------------------------
(* Both together. *)

ArtifactInv == UploadInv /\ JobInv

\* Jobs count artifacts of their kinds only, handlers those of uploads.
LEMMA JobsKeepUploads ==
  ASSUME ArtifactInv,
         \/ Snapshot \/ Evaluate \/ OperationCompletes \/ Ending
         \/ \E r \in Run : Working(r) \/ LoseLease(r) \/ Die(r) \/ PutFailed(r)
  PROVE  UploadInv'
<1> USE DEF ArtifactInv
<1>1. UNCHANGED uploading
  BY DEF Snapshot, Evaluate, OperationCompletes, Ending, SessionEnds, ScheduleAgain, Working, Claim, Read,
         Freeze, Put, Record, Judge, CreateSession, LoseLease, Die, PutFailed
<1>2. UNCHANGED artifacts \/ \E r \in Run : Record(r)
  BY DEF Snapshot, Evaluate, OperationCompletes, Ending, SessionEnds, ScheduleAgain, Working, Claim, Read,
         Freeze, Put, Judge, CreateSession, LoseLease, Die, PutFailed
<1>3. artifacts \in [Upload \cup Kind -> Nat]
  BY DEF UploadInv, UploadTypes
<1>4. ASSUME NEW r \in Run, Record(r) PROVE UploadInv'
  <2>1. runs[r].kind \in Kind
    BY <1>4, RunOf DEF Record, RunFits
  <2>2. UNCHANGED artifacts \/ artifacts' = [artifacts EXCEPT ![runs[r].kind] = artifacts[runs[r].kind] + 1]
    BY <1>4 DEF Record
  <2>3. artifacts' \in [Upload \cup Kind -> Nat] /\ \A u \in Upload : artifacts'[u] = artifacts[u]
    BY <1>3, <2>1, <2>2, ArtifactConstants
  <2> QED
    BY <1>1, <2>3, UploadsUntouched
<1> QED
  BY <1>1, <1>2, <1>3, <1>4, UploadsUntouched

LEMMA UploadsKeepJobs ==
  ASSUME ArtifactInv, UploadInv',
         \/ Handling \/ GiveUp \/ RollBack \/ Restart
         \/ \E u \in Upload :
              \/ Initiate(u) \/ CancelAgain(u)
              \/ \E status \in {"cancelled", "expired"} : Discard(u, status)
              \/ \E c \in Call : Transfer(c, u) \/ Complete(c, u)
  PROVE  JobInv'
<1> USE DEF ArtifactInv
<1>1. UNCHANGED computing
  BY DEF Handling, Open, Receive, Received, FailTransfer, Unlink, TryAgain, PutFile, Stored, DropFile,
         FailComplete, Restart, Initiate, CancelAgain, Discard, GiveUp, RollBack, Transfer, Complete
<1>2. UNCHANGED artifacts \/ \E c \in Call : Stored(c)
  BY DEF Handling, Open, Receive, Received, FailTransfer, Unlink, TryAgain, PutFile, DropFile,
         FailComplete, Restart, Initiate, CancelAgain, Discard, GiveUp, RollBack, Transfer, Complete
<1>3. artifacts' \in [Upload \cup Kind -> Nat]
  BY DEF UploadInv, UploadTypes
<1>4. ASSUME NEW c \in Call, Stored(c) PROVE \A k \in Kind : artifacts'[k] = artifacts[k]
  <2>1. calls[c].at # "idle"
    BY <1>4 DEF Stored
  <2>2. calls[c].upload \in Upload
    BY <2>1 DEF UploadInv, UploadTypes, Idle
  <2>3. \/ UNCHANGED artifacts
        \/ artifacts' = [artifacts EXCEPT ![calls[c].upload] = artifacts[calls[c].upload] + 1]
    BY <1>4 DEF Stored
  <2> QED
    BY <2>2, <2>3, ArtifactConstants DEF UploadInv, UploadTypes
<1> QED
  BY <1>1, <1>2, <1>3, <1>4, JobsUntouched

LEMMA ArtifactInvNext == ArtifactInv /\ [Next]_vars => ArtifactInv'
<1> SUFFICES ASSUME ArtifactInv, [Next]_vars PROVE ArtifactInv'
  OBVIOUS
<1>1. CASE \/ Handling \/ GiveUp \/ RollBack \/ Restart
           \/ \E u \in Upload :
                \/ Initiate(u) \/ CancelAgain(u)
                \/ \E status \in {"cancelled", "expired"} : Discard(u, status)
                \/ \E c \in Call : Transfer(c, u) \/ Complete(c, u)
  <2>1. UploadInv'
    BY <1>1, HandlingKeeps, GiveUpKeeps, RollBackKeeps, RestartKeeps, RequestKeeps DEF ArtifactInv
  <2> QED
    BY <1>1, <2>1, UploadsKeepJobs DEF ArtifactInv
<1>2. CASE Snapshot \/ Evaluate \/ OperationCompletes
  BY <1>2, JobsKeepUploads, AskingKeeps DEF ArtifactInv
<1>3. CASE Ending
  BY <1>3, JobsKeepUploads, EndingKeeps DEF ArtifactInv
<1>4. CASE \E r \in Run : Working(r) \/ LoseLease(r) \/ Die(r) \/ PutFailed(r)
  BY <1>4, JobsKeepUploads, WorkingKeeps, LosingKeeps DEF ArtifactInv
<1>5. CASE UNCHANGED vars
  <2>1. UNCHANGED <<artifacts, uploading, computing>>
    BY <1>5 DEF vars
  <2>2. artifacts \in [Upload \cup Kind -> Nat]
    BY DEF ArtifactInv, UploadInv, UploadTypes
  <2> QED
    BY <2>1, <2>2, UploadsUntouched, JobsUntouched DEF ArtifactInv
<1> QED
  BY <1>1, <1>2, <1>3, <1>4, <1>5 DEF Next, Requests

LEMMA ArtifactInvAlways == Spec => []ArtifactInv
<1>1. Init => ArtifactInv
  BY UploadInit, JobInit DEF ArtifactInv
<1> QED
  BY <1>1, ArtifactInvNext, PTL DEF Spec

\* An upload that may be finalized has its whole file, or lost it to a transaction that
\* gives it up and may not commit; a completed one has its one artifact, and nothing is
\* left of one that was given up once its handler has returned: however handlers,
\* cancellations, expiry, rollbacks and restarts meet.
THEOREM UploadsAlwaysWhole == Spec => []UploadsAreWhole
<1>1. UploadInv => UploadsAreWhole
  <2> SUFFICES ASSUME UploadInv, NEW u \in Upload
               PROVE  /\ upload[u] \in {"uploaded", "finalizing"} => file[u] \in {"whole", "lost"}
                      /\ artifacts[u] = IF upload[u] = "completed" THEN 1 ELSE 0
                      /\ upload[u] \in {"cancelled", "expired"} /\ ~restarted
                           /\ (\A c \in Call : calls[c].upload # u) => ~ IsThere(file[u])
    BY DEF UploadsAreWhole
  <2> QED
    BY DEF UploadInv, Whole, FileOwned, Going, GivenUp, Works
<1> QED
  BY <1>1, ArtifactInvAlways, PTL DEF ArtifactInv

\* A dataset is what had completed at its cutoff, and a report is over all
\* sessions with the outcomes they ended with: however late, however often and
\* by however many runs at once they are computed.
THEOREM ResultsAlwaysFaithful == Spec => []ResultsAreFaithful
<1>1. JobInv => ResultsAreFaithful
  <2> SUFFICES ASSUME JobInv PROVE ResultsAreFaithful
    OBVIOUS
  <2>1. ASSUME Recorded("evaluation")
        PROVE  /\ record["evaluation_result"] = {<<c[1], c[2], sessions[c]>> : c \in Case}
               /\ \A c \in Case : Over(c)
    <3>1. Judged({}, record["evaluation_result"])
      BY <2>1 DEF JobInv, EvaluationFits
    <3>2. {d \in Case : d[1] \notin {}} = Case
      OBVIOUS
    <3> QED
      BY <3>1, <3>2 DEF Judged
  <2> QED
    BY <2>1 DEF JobInv, DatasetFits, Counted, ResultsAreFaithful
<1> QED
  BY <1>1, ArtifactInvAlways, PTL DEF ArtifactInv

-----------------------------------------------------------------------------
(***************************************************************************)
(* The owner's storage.  Every step that changes what is reserved changes  *)
(* the status of one upload into or out of those that count, or records    *)
(* the result of one kind; a step that records finds none on record, in    *)
(* the same transaction.                                                   *)
(***************************************************************************)
Counts(u) == upload[u] \notin {"none", "cancelled", "expired"}
Live == {u \in Upload : Counts(u)}
Reported == {k \in Kind : Recorded(k)}

LEMMA SizesAreNumbers == \A u \in Upload : Size[u] \in Nat
BY ArtifactConstants

LEMMA LiveIsFinite == IsFiniteSet(Live) /\ IsFiniteSet(Reported)
<1>1. IsFiniteSet(Live)
  BY ArtifactConstants, FS_Subset DEF Live
<1>2. IsFiniteSet(Kind)
  <2>1. Kind = ({} \cup {"dataset"}) \cup {"evaluation"}
    BY DEF Kind
  <2> QED
    BY <2>1, FS_EmptySet, FS_AddElement
<1> QED
  BY <1>1, <1>2, FS_Subset DEF Reported

LEMMA StorageMoves ==
  ASSUME StorageAddsUp, NEW u \in Upload,
         \/ u \notin Live /\ Live' = Live \cup {u} /\ reserved' = reserved + Size[u] /\ reserved' <= Quota
         \/ u \in Live /\ Live' = Live \ {u} /\ reserved' = reserved - Size[u],
         Reported' = Reported
  PROVE  StorageAddsUp'
<1> DEFINE Used(S) == SumFunctionOnSet(Size, S)
           Reports == ReportSize * Cardinality(Reported)
<1>1. IsFiniteSet(Live) /\ (\A v \in Live \cup {u} : Size[v] \in Nat) /\ Size[u] \in Nat
  BY LiveIsFinite, SizesAreNumbers DEF Live
<1>2. reserved = Used(Live) + Reports /\ reserved <= Quota
  BY DEF StorageAddsUp, Live, Reported, Counts
<1>3. Used(Live) \in Nat /\ Used(Live \ {u}) \in Nat
  BY <1>1, SumType, FS_Subset
<1>4. Cardinality(Reported) \in Nat /\ ReportSize \in Nat /\ Quota \in Nat
  BY LiveIsFinite, FS_CardinalityType, ArtifactConstants
<1>5. Reports \in Nat
  BY <1>4
<1>6. reserved' = Used(Live') + Reports /\ reserved' <= Quota
  <2>1. CASE u \notin Live /\ Live' = Live \cup {u} /\ reserved' = reserved + Size[u] /\ reserved' <= Quota
    <3>1. Used(Live \cup {u}) = Used(Live) + Size[u]
      BY <1>1, <2>1, SumAdd
    <3> HIDE DEF Used, Reports
    <3> QED
      BY <1>1, <1>2, <1>3, <1>5, <2>1, <3>1
  <2>2. CASE u \in Live /\ Live' = Live \ {u} /\ reserved' = reserved - Size[u]
    <3>1. Used(Live) = Size[u] + Used(Live \ {u})
      BY <1>1, <2>2, SumRemove
    <3> HIDE DEF Used, Reports
    <3> QED
      BY <1>1, <1>2, <1>3, <1>4, <1>5, <2>2, <3>1
  <2> QED
    BY <2>1, <2>2
<1>7. Reports = ReportSize * Cardinality(Reported')
  OBVIOUS
<1> QED
  BY <1>6, <1>7 DEF StorageAddsUp, Live, Reported, Counts

LEMMA ReportMoves ==
  ASSUME StorageAddsUp, NEW k \in Kind, k \notin Reported, Reported' = Reported \cup {k}, Live' = Live,
         reserved' = reserved + ReportSize, reserved' <= Quota
  PROVE  StorageAddsUp'
<1> DEFINE Used == SumFunctionOnSet(Size, Live)
<1>1. reserved = Used + ReportSize * Cardinality(Reported)
  BY DEF StorageAddsUp, Live, Reported, Counts
<1>2. Cardinality(Reported') = Cardinality(Reported) + 1 /\ Cardinality(Reported) \in Nat
  BY LiveIsFinite, FS_AddElement, FS_CardinalityType
<1>3. Used \in Nat
  BY LiveIsFinite, SizesAreNumbers, SumType DEF Live
<1>4. ReportSize * Cardinality(Reported') = ReportSize * Cardinality(Reported) + ReportSize
  <2>1. \A n \in Nat : ReportSize * (n + 1) = ReportSize * n + ReportSize
    BY ArtifactConstants
  <2> QED
    BY <1>2, <2>1
<1>5. ReportSize * Cardinality(Reported) \in Nat
  BY <1>2, ArtifactConstants
<1>6. reserved' = Used + ReportSize * Cardinality(Reported')
  <2> HIDE DEF Used
  <2> QED
    BY <1>1, <1>3, <1>4, <1>5, ArtifactConstants
<1> QED
  BY <1>6 DEF StorageAddsUp, Live, Reported, Counts

\* Other steps of uploads change a status that counts into another one.
LEMMA StorageStays ==
  ASSUME StorageAddsUp, UNCHANGED reserved, Live' = Live, Reported' = Reported
  PROVE  StorageAddsUp'
BY DEF StorageAddsUp, Live, Reported, Counts

LEMMA StatusMoves ==
  ASSUME UploadInv, NEW u \in Upload, NEW s, upload' = [upload EXCEPT ![u] = s]
  PROVE  /\ s \notin {"none", "cancelled", "expired"} => Live' = Live \cup {u}
         /\ s \in {"cancelled", "expired"} => Live' = Live \ {u}
<1>1. upload'[u] = s /\ \A v \in Upload \ {u} : upload'[v] = upload[v]
  BY DEF UploadInv, UploadTypes
<1> QED
  BY <1>1 DEF Live, Counts

LEMMA HandlersKeepStorage ==
  ASSUME ArtifactInv, StorageAddsUp, Handling
  PROVE  StorageAddsUp'
<1>1. PICK c \in Call : \/ Open(c) \/ Receive(c) \/ Received(c) \/ FailTransfer(c)
                        \/ PutFile(c) \/ Stored(c) \/ DropFile(c) \/ FailComplete(c)
  BY DEF Handling
<1>2. UNCHANGED <<reserved, record>>
  BY <1>1 DEF Open, Receive, Received, FailTransfer, Unlink, TryAgain, PutFile, Stored, DropFile,
              FailComplete, computing
<1>3. \/ UNCHANGED upload
      \/ /\ upload[calls[c].upload] \in {"uploading", "finalizing"}
         /\ \E s \in {"uploaded", "failed", "completed"} : Status(calls[c].upload, s)
         /\ calls[c].at # "idle"
  BY <1>1 DEF Open, Receive, Received, FailTransfer, Unlink, TryAgain, PutFile, Stored, DropFile,
              FailComplete, Finalizing
<1>4. Live' = Live
  <2>1. CASE UNCHANGED upload
    BY <2>1 DEF Live, Counts
  <2>2. CASE /\ upload[calls[c].upload] \in {"uploading", "finalizing"}
             /\ \E s \in {"uploaded", "failed", "completed"} : Status(calls[c].upload, s)
             /\ calls[c].at # "idle"
    <3>1. PICK u \in Upload : u = calls[c].upload
      BY <2>2, AtWork DEF ArtifactInv
    <3>2. PICK s \in {"uploaded", "failed", "completed"} : upload' = [upload EXCEPT ![u] = s]
      BY <2>2, <3>1 DEF Status
    <3>3. u \in Live
      BY <2>2, <3>1 DEF Live, Counts
    <3>4. Live' = Live \cup {u}
      BY <3>2, StatusMoves DEF ArtifactInv
    <3> QED
      BY <3>3, <3>4
  <2> QED
    BY <1>3, <2>1, <2>2
<1>5. Reported' = Reported
  BY <1>2 DEF Reported, Recorded
<1> QED
  BY <1>2, <1>4, <1>5, StorageStays

LEMMA RequestsKeepStorage ==
  ASSUME ArtifactInv, StorageAddsUp, NEW u \in Upload,
         \/ Initiate(u) \/ CancelAgain(u)
         \/ \E status \in {"cancelled", "expired"} : Discard(u, status)
         \/ \E c \in Call : Transfer(c, u) \/ Complete(c, u)
  PROVE  StorageAddsUp'
<1>1. Reported' = Reported
  BY DEF Initiate, CancelAgain, Discard, Transfer, Complete, computing, Reported, Recorded
<1>2. CASE Initiate(u)
  <2>1. upload' = [upload EXCEPT ![u] = "pending"] /\ reserved' = reserved + Size[u] /\ reserved' <= Quota
    BY <1>2 DEF Initiate, Status, Fits
  <2>2. u \notin Live /\ Live' = Live \cup {u}
    <3>0. PICK s \in {"pending"} : upload' = [upload EXCEPT ![u] = s]
      BY <2>1
    <3>1. Live' = Live \cup {u}
      BY <3>0, StatusMoves DEF ArtifactInv
    <3> QED
      BY <1>2, <3>1 DEF Initiate, Live, Counts
  <2> QED
    BY <1>1, <2>1, <2>2, StorageMoves
<1>3. ASSUME NEW status \in {"cancelled", "expired"}, Discard(u, status) PROVE StorageAddsUp'
  BY <1>1, <1>3, StorageStays DEF Discard, Live, Counts
<1>4. CASE CancelAgain(u)
  BY <1>1, <1>4, StorageStays DEF CancelAgain, Live, Counts
<1>5. ASSUME NEW c \in Call, Transfer(c, u) \/ Complete(c, u) PROVE StorageAddsUp'
  <2>1. /\ reserved' = reserved /\ upload[u] \in {"pending", "failed", "uploaded"}
        /\ \E s \in {"uploading", "finalizing"} : upload' = [upload EXCEPT ![u] = s]
    BY <1>5 DEF Transfer, Complete, Status
  <2>2. u \in Live
    BY <2>1 DEF Live, Counts
  <2>3. Live' = Live
    <3>1. PICK s \in {"uploading", "finalizing"} : upload' = [upload EXCEPT ![u] = s]
      BY <2>1
    <3>2. Live' = Live \cup {u}
      BY <3>1, StatusMoves DEF ArtifactInv
    <3> QED
      BY <2>2, <3>2
  <2> QED
    BY <1>1, <2>1, <2>3, StorageStays
<1> QED
  BY <1>2, <1>3, <1>4, <1>5

\* All the uploads of one transaction stop to count.
LEMMA GiveUpKeepsStorage ==
  ASSUME ArtifactInv, StorageAddsUp, GiveUp
  PROVE  StorageAddsUp'
<1> DEFINE Used(S) == SumFunctionOnSet(Size, S)
           Gone == giving.uploads
           Reports == ReportSize * Cardinality(Reported)
<1>1. Gone \subseteq Live
  BY DEF ArtifactInv, UploadInv, UploadTypes, Giving, Abandonable, Live, Counts
<1>2. Live' = Live \ Gone
  BY DEF GiveUp, ArtifactInv, UploadInv, Giving, GivenUp, Live, Counts
<1>3. Reported' = Reported
  BY DEF GiveUp, computing, Reported, Recorded
<1>4. /\ IsFiniteSet(Gone) /\ IsFiniteSet(Live \ Gone) /\ Gone \cap (Live \ Gone) = {}
      /\ \A u \in Gone \cup (Live \ Gone) : Size[u] \in Nat
      /\ Live = (Live \ Gone) \cup Gone
  BY <1>1, LiveIsFinite, FS_Subset, SizesAreNumbers DEF Live
<1>5. Used(Live) = Used(Live \ Gone) + Used(Gone) /\ Used(Live \ Gone) \in Nat /\ Used(Gone) \in Nat
  <2>1. Used((Live \ Gone) \cup Gone) = Used(Live \ Gone) + Used(Gone)
    BY <1>4, SumUnion
  <2>2. Used(Live \ Gone) \in Nat /\ Used(Gone) \in Nat
    BY <1>4, SumType
  <2> QED
    BY <1>4, <2>1, <2>2
<1>6. reserved = Used(Live) + Reports /\ reserved <= Quota
  BY DEF StorageAddsUp, Live, Reported, Counts
<1>7. Reports \in Nat /\ Quota \in Nat
  <2>1. Cardinality(Reported) \in Nat /\ ReportSize \in Nat /\ Quota \in Nat
    BY LiveIsFinite, FS_CardinalityType, ArtifactConstants
  <2> QED
    BY <2>1
<1>8. reserved' = reserved - Used(Gone)
  BY DEF GiveUp
<1>9. reserved' = Used(Live') + Reports /\ reserved' <= Quota
  <2>1. reserved' = Used(Live \ Gone) + Reports /\ reserved' <= Quota
    <3> HIDE DEF Used, Reports, Gone
    <3> QED
      BY <1>5, <1>6, <1>7, <1>8
  <2> QED
    BY <1>2, <2>1
<1>10. Reports = ReportSize * Cardinality(Reported')
  BY <1>3
<1> QED
  BY <1>9, <1>10 DEF StorageAddsUp, Live, Reported, Counts

LEMMA JobsKeepStorage ==
  ASSUME ArtifactInv, StorageAddsUp,
         \/ RollBack \/ Restart \/ Snapshot \/ Evaluate \/ OperationCompletes \/ Ending
         \/ UNCHANGED vars
         \/ \E r \in Run : Working(r) \/ LoseLease(r) \/ Die(r) \/ PutFailed(r)
  PROVE  StorageAddsUp'
<1>1. Live' = Live
  <2>1. UNCHANGED upload
    BY DEF RollBack, Restart, Snapshot, Evaluate, OperationCompletes, Ending, SessionEnds, ScheduleAgain, Working, Claim,
           Read, Freeze, Put, Record, Judge, CreateSession, LoseLease, Die, PutFailed, uploading, vars
  <2> QED
    BY <2>1 DEF Live, Counts
<1>2. ASSUME NEW r \in Run, Record(r) PROVE StorageAddsUp'
  <2>1. CASE UNCHANGED <<reserved, record>>
    BY <1>1, <2>1, StorageStays DEF Reported, Recorded
  <2>2. CASE ~ UNCHANGED <<reserved, record>>
    <3>1. PICK k : k = runs[r].kind
      OBVIOUS
    <3>2. PICK v : v = IF k = "dataset" THEN record["dataset_freeze"] ELSE runs[r].samples
      OBVIOUS
    <3>3. /\ ~ Recorded(k) /\ record' = [record EXCEPT ![Result(k)] = v]
          /\ reserved' = reserved + ReportSize /\ reserved' <= Quota
      BY <1>2, <2>2, <3>1, <3>2 DEF Record, Fits
    <3>4. k \in Kind /\ runs[r].at = "record"
      BY <1>2, <3>1, RunOf DEF Record, RunFits, ArtifactInv
    <3>5. v # None
      <4>1. CASE k = "dataset"
        BY <3>1, <3>2, <3>4, <4>1, RunOf DEF RunFits, ArtifactInv
      <4>2. CASE k = "evaluation"
        BY <3>2, <4>2, RunOf, ArtifactConstants DEF JobRun, Sample, ArtifactInv
      <4> QED
        BY <3>4, <4>1, <4>2 DEF Kind
    <3>6. /\ Result(k) \in RecordName
          /\ \A j \in Kind \ {k} : Result(j) \in RecordName \ {Result(k)}
      BY <3>4 DEF Result, Kind, RecordName
    <3>7. record'[Result(k)] = v /\ \A n \in RecordName \ {Result(k)} : record'[n] = record[n]
      BY <3>3, <3>6 DEF ArtifactInv, JobInv, JobTypes
    <3>8. Recorded(k)' /\ \A j \in Kind \ {k} : Recorded(j)' <=> Recorded(j)
      BY <3>5, <3>6, <3>7 DEF Recorded
    <3>9. k \notin Reported /\ Reported' = Reported \cup {k}
      BY <3>3, <3>4, <3>8 DEF Reported
    <3> QED
      BY <1>1, <3>3, <3>4, <3>9, ReportMoves
  <2> QED
    BY <2>1, <2>2
<1>3. CASE ~ \E r \in Run : Record(r)
  <2>1. /\ UNCHANGED reserved
        /\ \/ UNCHANGED record
           \/ \E k \in {"dataset", "evaluation", "dataset_freeze"} : \E v : record' = [record EXCEPT ![k] = v]
    BY <1>3 DEF RollBack, Restart, Snapshot, Evaluate, OperationCompletes, Ending, SessionEnds, ScheduleAgain, Working, Claim,
           Read, Freeze, Put, Judge, CreateSession, LoseLease, Die, PutFailed, computing, vars
  <2>2. \A k \in Kind : record'[Result(k)] = record[Result(k)]
    BY <2>1 DEF Result, Kind, ArtifactInv, JobInv, JobTypes, RecordName
  <2>3. Reported' = Reported
    BY <2>2 DEF Reported, Recorded
  <2> QED
    BY <1>1, <2>1, <2>3, StorageStays
<1> QED
  BY <1>2, <1>3

LEMMA StorageInit == Init => StorageAddsUp
<1> SUFFICES ASSUME Init PROVE StorageAddsUp
  OBVIOUS
<1>1. Live = {} /\ Reported = {}
  BY DEF Init, Live, Counts, Reported, Recorded, Result, Kind
<1>2. SumFunctionOnSet(Size, {}) = 0 /\ Cardinality({}) = 0
  BY SumEmpty, FS_EmptySet
<1>3. ReportSize * 0 = 0 /\ 0 <= Quota
  BY ArtifactConstants
<1>4. /\ reserved = SumFunctionOnSet(Size, Live) + ReportSize * Cardinality(Reported)
      /\ reserved <= Quota
  BY <1>1, <1>2, <1>3 DEF Init
<1> QED
  BY <1>4 DEF StorageAddsUp, Live, Counts, Reported

\* The owner's quota holds, and what is reserved is what is there, whatever
\* meets, fails or is repeated.
THEOREM StorageAlwaysAddsUp == Spec => []StorageAddsUp
<1>1. ArtifactInv /\ StorageAddsUp /\ [Next]_vars => StorageAddsUp'
  <2> SUFFICES ASSUME ArtifactInv, StorageAddsUp, [Next]_vars PROVE StorageAddsUp'
    OBVIOUS
  <2> QED
    BY HandlersKeepStorage, RequestsKeepStorage, GiveUpKeepsStorage, JobsKeepStorage DEF Next, Requests
<1>2. Spec => [](ArtifactInv /\ StorageAddsUp)
  <2>1. Init => ArtifactInv
    BY UploadInit, JobInit DEF ArtifactInv
  <2> QED
    BY <1>1, <2>1, StorageInit, ArtifactInvNext, PTL DEF Spec
<1> QED
  BY <1>2, PTL
=================================================================================
