----------------------------- MODULE Downloads -----------------------------
(***************************************************************************)
(* The download of an artifact's content with an optional range (api/      *)
(* routes/core/artifacts.py), chunk by chunk, each chunk read from the     *)
(* store anew (artifacts/store.py), while retention removes the blob and   *)
(* writers of the same content put it back, whole or cut (BlobStore).  A   *)
(* byte is its position: what is at a position never differs.              *)
(***************************************************************************)
EXTENDS Integers, Sequences, FiniteSetsExt

CONSTANTS
  Lengths,    \* lengths of the content
  CHUNK,      \* _CHUNK_BYTES
  Headers,    \* Range headers: [form, first, last], in bytes
  NoBlob,     \* no file at the blob's path
  MaxSwaps    \* bound: changes of the file

ASSUME DownloadAssumption ==
  /\ Lengths \subseteq Nat /\ CHUNK \in Nat \ {0} /\ MaxSwaps \in Nat
  /\ \A h \in Headers : h.form \in {"none", "malformed", "suffix", "open", "closed"}
                        /\ h.first \in Nat /\ h.last \in Nat

VARIABLES
  length,     \* of the content
  onDisk,     \* length of the file at the blob's path, or NoBlob
  swaps,
  download    \* the request: header, size described, reply, bytes sent

downloadVars == <<length, onDisk, swaps, download>>

Unasked == [pc |-> "idle", header |-> CHOOSE h \in Headers : TRUE, size |-> 0, status |-> 0,
            start |-> 0, cursor |-> 0, end |-> 0, want |-> 0, sent |-> <<>>]

\* ---- the blob underneath -----------------------------------------------
PruneBlob ==
  /\ swaps < MaxSwaps /\ onDisk # NoBlob
  /\ onDisk' = NoBlob /\ swaps' = swaps + 1 /\ UNCHANGED <<length, download>>

PublishBlob ==
  /\ swaps < MaxSwaps
  /\ \E n \in 0..length : n # onDisk /\ onDisk' = n
  /\ swaps' = swaps + 1 /\ UNCHANGED <<length, download>>

\* ---- get_artifact_content ----------------------------------------------
\* describe_content: the size on disk, before the header is looked at.
AskContent(h) ==
  /\ download.pc = "idle"
  /\ download' = IF onDisk = NoBlob
                 THEN [download EXCEPT !.pc = "done", !.header = h, !.status = 404]
                 ELSE [download EXCEPT !.pc = "described", !.header = h, !.size = onDisk]
  /\ UNCHANGED <<length, onDisk, swaps>>

\* Mutant of EndOf: the last byte of a closed range counts as its end.
EndAtLast(h, size) == IF h.form = "closed" THEN Min({h.last, size}) ELSE size

EndOf(h, size) == IF h.form = "closed" THEN Min({h.last + 1, size}) ELSE size

StartOf(h, size) == CASE h.form = "suffix" -> Max({0, size - h.last})
                      [] h.form = "none" -> 0
                      [] OTHER -> h.first

\* _parse_range raises 416.
Refused(h, size) ==
  \/ size = 0 \/ h.form = "malformed"
  \/ h.form = "suffix" /\ h.last = 0
  \/ h.form \in {"open", "closed"} /\ (h.first >= size \/ EndOf(h, size) <= h.first)

Reply ==
  /\ download.pc = "described"
  /\ LET h == download.header
         s == download.size IN
     download' =
       IF h.form # "none" /\ Refused(h, s) THEN [download EXCEPT !.pc = "done", !.status = 416]
       ELSE [download EXCEPT !.pc = "stream", !.status = IF h.form = "none" THEN 200 ELSE 206,
                             !.start = StartOf(h, s), !.cursor = StartOf(h, s), !.end = EndOf(h, s)]
  /\ UNCHANGED <<length, onDisk, swaps>>

\* ---- _stream_content and read_range ------------------------------------
Finished ==
  /\ download.pc = "stream" /\ download.cursor = download.end
  /\ download' = [download EXCEPT !.pc = "done"]
  /\ UNCHANGED <<length, onDisk, swaps>>

\* A chunk that cannot be read raises in the body: the connection is cut.
Stat ==
  /\ download.pc = "stream" /\ download.cursor < download.end
  /\ download' =
       IF onDisk = NoBlob \/ download.cursor > onDisk
       THEN [download EXCEPT !.pc = "cut"]
       ELSE [download EXCEPT !.pc = "read",
               !.want = Min({CHUNK, download.end - download.cursor, onDisk - download.cursor})]
  /\ UNCHANGED <<length, onDisk, swaps>>

\* The file opened may be another than the one just measured; no bytes end the body.
Read ==
  /\ download.pc = "read"
  /\ IF onDisk = NoBlob THEN download' = [download EXCEPT !.pc = "cut"]
     ELSE LET got == Max({0, Min({download.want, onDisk - download.cursor})}) IN
          download' = [download EXCEPT
            !.pc = IF got = 0 THEN "done" ELSE "stream", !.cursor = @ + got,
            !.sent = @ \o [i \in 1..got |-> download.cursor + i - 1]]
  /\ UNCHANGED <<length, onDisk, swaps>>

----------------------------------------------------------------------------
DownloadInit ==
  /\ length \in Lengths /\ onDisk = length /\ swaps = 0 /\ download = Unasked

DownloadNext ==
  \/ PruneBlob \/ PublishBlob
  \/ \E h \in Headers : AskContent(h)
  \/ Reply \/ Finished \/ Stat \/ Read

\* The bytes a header asks for, as HTTP defines them.
Wanted(h, size) ==
  {p \in 0..(size - 1) : CASE h.form = "none" -> TRUE
                           [] h.form = "malformed" -> FALSE
                           [] h.form = "suffix" -> p >= size - h.last
                           [] h.form = "open" -> p >= h.first
                           [] h.form = "closed" -> p \in h.first..h.last}

\* The reader gets, in order and each once, bytes the range asks for of the size
\* described, never others; all of them when the blob was left alone; and a
\* refusal only when there are none, whatever happens to the file between the
\* chunks (routes/core/artifacts.py: get_artifact_content's docstring).
SliceServed ==
  LET w == Wanted(download.header, download.size) IN
  /\ download.status = 206 => w # {} /\ download.start..(download.end - 1) = w
  /\ download.status = 416 => w = {}
  /\ \A i \in DOMAIN download.sent : download.sent[i] \in w /\ download.sent[i] = Min(w) + i - 1
  /\ download.pc = "done" /\ download.status \in {200, 206} /\ swaps = 0 => Len(download.sent) = Cardinality(w)
=============================================================================
