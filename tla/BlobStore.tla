----------------------------- MODULE BlobStore -----------------------------
(***************************************************************************)
(* The content-addressed artifact store (artifacts/store.py), the writers  *)
(* that put a blob and then commit its metadata row (services/core/        *)
(* artifacts.py and its like), and the retention sweep (realtime/          *)
(* retention.py).  A blob has one path and one temporary path, the same    *)
(* for all its writers; a descriptor follows its file through the rename.  *)
(***************************************************************************)
EXTENDS Naturals, FiniteSets

CONSTANTS
  Contents,   \* byte strings that get stored
  Writers,    \* requests and activities that store one
  MaxDeaths   \* bound: writers that die half way

ASSUME BlobAssumption == MaxDeaths \in Nat

VARIABLES
  file,       \* the blob at its path: "none", "part" (truncated) or "whole"
  tmp,        \* the same of its temporary path
  old,        \* blobs the modification time of which is past the window
  artifact,   \* contents an artifacts row describes
  evidence,   \* contents an attempt, or the terminal summary of a task, refers to
  writer,     \* progress of each writer
  sweep,      \* progress of the retention pass
  settled,    \* evidence that was readable, with no pass under way, when recorded
  deaths,
  crowded     \* history: contents that three writers have been storing at once

blobVars == <<file, tmp, old, artifact, evidence, writer, sweep, settled, deaths, crowded>>

IdleWriter == [pc |-> "idle", content |-> CHOOSE c \in Contents : TRUE, at |-> "none"]
IdleSweep == [pc |-> "idle", protected |-> {}, left |-> {}]

\* A writer that found no blob and has not published its own.
InPut(w, c) == writer[w].content = c /\ writer[w].pc \in {"open", "write", "replace"}

At(w, pc, content) == writer[w].pc = pc /\ writer[w].content = content
Step(w, pc) == writer' = [writer EXCEPT ![w].pc = pc]

\* ---- ArtifactStore.put -------------------------------------------------
Put(w, c) ==
  /\ writer[w].pc = "idle"
  /\ writer' = [writer EXCEPT ![w] = [pc |-> IF file[c] = "none" THEN "open" ELSE "row",
                                      content |-> c, at |-> "none"]]
  /\ crowded' = IF file[c] = "none" /\ \E u, v \in Writers : u # v /\ InPut(u, c) /\ InPut(v, c)
                THEN crowded \union {c} ELSE crowded
  /\ UNCHANGED <<file, tmp, old, artifact, evidence, sweep, settled, deaths>>

\* Mutant of OpenFor: the blob is written in its place.
OpenPath(w, c) ==
  /\ file' = [file EXCEPT ![c] = "part"]
  /\ writer' = [writer EXCEPT ![w].pc = "write", ![w].at = "path"]
  /\ UNCHANGED tmp

\* write_bytes truncates what is there; another writer may have it open.
OpenFor(w, c) ==
  /\ tmp' = [tmp EXCEPT ![c] = "part"]
  /\ writer' = [writer EXCEPT ![w].pc = "write", ![w].at = "tmp"]
  /\ UNCHANGED file

Open(w, c) ==
  /\ At(w, "open", c) /\ OpenFor(w, c)
  /\ UNCHANGED <<old, artifact, evidence, sweep, settled, deaths, crowded>>

Write(w, c) ==
  /\ At(w, "write", c)
  /\ tmp' = IF writer[w].at = "tmp" THEN [tmp EXCEPT ![c] = "whole"] ELSE tmp
  /\ file' = IF writer[w].at = "path" THEN [file EXCEPT ![c] = "whole"] ELSE file
  /\ Step(w, "replace")
  /\ UNCHANGED <<old, artifact, evidence, sweep, settled, deaths, crowded>>

\* The descriptors of other writers: those of the temporary file now write to
\* the path, those of the file that was there before write to no name at all.
Moved(v, c) == IF writer[v].content # c THEN writer[v].at
               ELSE [tmp |-> "path", path |-> "gone", gone |-> "gone", none |-> "none"][writer[v].at]

\* A missing temporary file is an error of the request.
Replace(w, c) ==
  /\ At(w, "replace", c)
  /\ \/ /\ tmp[c] # "none"
        /\ file' = [file EXCEPT ![c] = tmp[c]] /\ tmp' = [tmp EXCEPT ![c] = "none"] /\ old' = old \ {c}
        /\ writer' = [v \in Writers |-> IF v = w THEN [writer[w] EXCEPT !.pc = "row", !.at = "none"]
                                        ELSE [writer[v] EXCEPT !.at = Moved(v, c)]]
     \/ /\ tmp[c] = "none"
        /\ writer' = [writer EXCEPT ![w] = IdleWriter] /\ UNCHANGED <<file, tmp, old>>
  /\ UNCHANGED <<artifact, evidence, sweep, settled, deaths, crowded>>

\* ---- the rows ----------------------------------------------------------
CommitRow(w, c) ==
  /\ At(w, "row", c)
  /\ artifact' = artifact \union {c} /\ Step(w, "refer")
  /\ UNCHANGED <<file, tmp, old, evidence, sweep, settled, deaths, crowded>>

Readable(c) == file[c] = "whole"

\* An attempt's evidence list is written later, by another transaction; an
\* upload is evidence of no attempt.
Refer(w, c) ==
  /\ At(w, "refer", c)
  /\ \/ /\ evidence' = evidence \union {c}
        /\ settled' = IF Readable(c) /\ sweep.pc = "idle" THEN settled \union {c} ELSE settled
     \/ UNCHANGED <<evidence, settled>>
  /\ writer' = [writer EXCEPT ![w] = IdleWriter]
  /\ UNCHANGED <<file, tmp, old, artifact, sweep, deaths, crowded>>

DieWriter(w) ==
  /\ deaths < MaxDeaths /\ writer[w].pc # "idle"
  /\ deaths' = deaths + 1 /\ writer' = [writer EXCEPT ![w] = IdleWriter]
  /\ UNCHANGED <<file, tmp, old, artifact, evidence, sweep, settled, crowded>>

\* ---- prune_artifact_blobs ----------------------------------------------
\* A blob reaches the age of the window (days; a pass takes seconds, so none
\* does during one).
Age(c) ==
  /\ file[c] # "none" /\ c \notin old /\ sweep.pc = "idle"
  /\ old' = old \union {c}
  /\ UNCHANGED <<file, tmp, artifact, evidence, writer, sweep, settled, deaths, crowded>>

\* _protected_artifact_shas: rows that attempts and terminal summaries refer to
Protected == evidence \intersect artifact

BeginSweep ==
  /\ sweep.pc = "idle" /\ old # {}
  /\ sweep' = [pc |-> "scan", protected |-> Protected, left |-> {c \in Contents : file[c] # "none"}]
  /\ UNCHANGED <<file, tmp, old, artifact, evidence, writer, settled, deaths, crowded>>

\* One path of the scan, in the order of the directory.
Scan(c) ==
  /\ sweep.pc = "scan" /\ c \in sweep.left
  /\ sweep' = [sweep EXCEPT !.left = @ \ {c}]
  /\ IF c \in old \ sweep.protected
     THEN /\ file' = [file EXCEPT ![c] = "none"] /\ old' = old \ {c}
          /\ writer' = [w \in Writers |-> IF writer[w].content = c /\ writer[w].at = "path"
                                          THEN [writer[w] EXCEPT !.at = "gone"] ELSE writer[w]]
     ELSE UNCHANGED <<file, old, writer>>
  /\ UNCHANGED <<tmp, artifact, evidence, settled, deaths, crowded>>

EndSweep ==
  /\ sweep.pc = "scan" /\ sweep.left = {}
  /\ sweep' = IdleSweep
  /\ UNCHANGED <<file, tmp, old, artifact, evidence, writer, settled, deaths, crowded>>

----------------------------------------------------------------------------
BlobInit ==
  /\ file = [c \in Contents |-> "none"] /\ tmp = [c \in Contents |-> "none"]
  /\ old = {} /\ artifact = {} /\ evidence = {} /\ settled = {} /\ deaths = 0
  /\ crowded = {}
  /\ writer = [w \in Writers |-> IdleWriter] /\ sweep = IdleSweep

Store(w, c) ==
  Put(w, c) \/ Open(w, c) \/ Write(w, c) \/ Replace(w, c) \/ CommitRow(w, c) \/ Refer(w, c)
BlobNext ==
  \/ \E w \in Writers : DieWriter(w) \/ \E c \in Contents : Store(w, c)
  \/ \E c \in Contents : Age(c) \/ Scan(c)
  \/ BeginSweep \/ EndSweep

\* Evidence of an attempt that was readable when it was recorded, with no
\* retention pass under way, stays readable: neither a later writer of the same
\* content nor a writer that dies nor a pass takes it away (realtime/
\* retention.py: "retention must never delete final evidence"). Only a third
\* writer of a content that two are storing already can publish the temporary
\* file while another has emptied it.
EvidenceReadable == \A c \in settled \ crowded : Readable(c)

\* That it stays readable whoever stores it, which the store does not ensure.
EvidenceAlwaysReadable == \A c \in settled : Readable(c)
=============================================================================
