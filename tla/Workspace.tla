----------------------------- MODULE Workspace -----------------------------
(***************************************************************************)
(* The files of a project and the symbol index over them.  Editors save,   *)
(* create, delete and rename files (files/service.py, routes/workspace/    *)
(* files.py); an index pass (codeintel/indexer.py, routes/intelligence/    *)
(* index.py) walks the tree, compares hashes with the rows it loaded at    *)
(* its start, replaces the symbols of a changed file in one transaction,   *)
(* and prunes rows of files it did not meet.  Passes may overlap and may   *)
(* die at any step.                                                        *)
(***************************************************************************)
EXTENDS Naturals, Sequences, FiniteSets, Functions, SequencesExt

CONSTANTS
  Paths,       \* the indexable paths, in the order of the walk
  Tree,        \* what the project has, and has indexed, at first
  Texts,       \* what editors save; "big" is larger than the indexer reads
  Editors,
  Passes,      \* the index passes, 1..n in the order they begin
  MaxIndexed,  \* index_max_files
  MaxEdits     \* bound: operations editors begin

ASSUME WorkspaceAssumption ==
  /\ Paths \in Seq(STRING) /\ DOMAIN Tree = {Paths[i] : i \in DOMAIN Paths}
  /\ MaxIndexed \in Nat \ {0} /\ MaxEdits \in Nat /\ Passes \subseteq Nat

VARIABLES
  files,    \* content of each path, "none" when it does not exist
  temp,     \* content of <path>.harness-tmp
  editor,   \* what each editor is doing
  edits,    \* operations begun
  pass,     \* the index passes
  rows,     \* symbol_files: path -> hash and row id; "none"
  symbols,  \* symbols: [row, of (content), by (pass)]
  indexed,  \* the kind of the last pass that ended undisturbed, "no" after a change
  overlapped

fileVars == <<files, temp, editor, edits>>
indexVars == <<pass, rows, symbols, overlapped>>
workspaceVars == <<files, temp, editor, edits, pass, rows, symbols, indexed, overlapped>>

PathSet == Range(Paths)
EditorFree == [op |-> "none", path |-> "none", to |-> "none", text |-> "none", open |-> "none"]

----------------------------------------------------------------------------
\* ---- editors -----------------------------------------------------------
\* A change of the tree disturbs the passes under way and outdates the index.
Change(f) ==
  /\ files' = f
  /\ IF f = files THEN UNCHANGED <<indexed, pass>>
     ELSE /\ indexed' = "no"
          /\ pass' = [n \in Passes |-> [pass[n] EXCEPT !.alone = FALSE]]

Begins(e, doing) ==
  /\ editor[e] = EditorFree /\ edits < MaxEdits /\ edits' = edits + 1
  /\ editor' = [editor EXCEPT ![e] = doing]

\* write: opening the temporary file, which all writers of a path share, empties
\* it.  `open` follows the file an editor writes into: the temporary one, or the
\* path it was moved to, or neither any more.
OpenTemp(e, p, text) ==
  /\ Begins(e, [EditorFree EXCEPT !.op = "save", !.path = p, !.text = text, !.open = "temp"])
  /\ temp' = [temp EXCEPT ![p] = "part"]
  /\ Change(files)

Fill(e) ==
  LET job == editor[e]
  IN /\ job.op = "save" /\ job.open # "none"
     /\ editor' = [editor EXCEPT ![e].open = "none"]
     /\ temp' = IF job.open = "temp" THEN [temp EXCEPT ![job.path] = job.text] ELSE temp
     /\ Change([p \in PathSet |-> IF p = job.open THEN job.text ELSE files[p]])
     /\ UNCHANGED edits

\* Editor e is done; what the others have open moves with `where`.
Done(e, where) ==
  editor' = [o \in Editors |-> IF o = e THEN EditorFree ELSE [editor[o] EXCEPT !.open = where[o]]]
Stays == [o \in Editors |-> editor[o].open]

\* os.replace: without a temporary file the save fails.
PublishSave(e) ==
  LET p == editor[e].path
      moved == [o \in Editors |-> CASE editor[o].open = "temp" /\ editor[o].path = p -> p
                                     [] editor[o].open = p -> "gone" [] OTHER -> editor[o].open]
  IN /\ editor[e].op = "save" /\ editor[e].open = "none"
     /\ \/ temp[p] = "none" /\ Done(e, Stays) /\ Change(files)
        \/ temp[p] # "none" /\ Done(e, moved) /\ Change([files EXCEPT ![p] = temp[p]])
     /\ temp' = [temp EXCEPT ![p] = "none"]
     /\ UNCHANGED edits

Touch(e, p) ==
  /\ files[p] = "none" /\ Change([files EXCEPT ![p] = "empty"])
  /\ Begins(e, EditorFree) /\ UNCHANGED temp

Unlink(e, p) ==
  LET unlinked == [o \in Editors |-> IF editor[o].open = p THEN "gone" ELSE editor[o].open]
  IN /\ files[p] # "none" /\ editor[e] = EditorFree /\ edits < MaxEdits /\ edits' = edits + 1
     /\ Done(e, unlinked)
     /\ Change([files EXCEPT ![p] = "none"]) /\ UNCHANGED temp

\* rename looks at its target before it moves the source; the move replaces what
\* has come to be there meanwhile.
AskRename(e, p, q) ==
  /\ files[p] # "none" /\ files[q] = "none"
  /\ Begins(e, [EditorFree EXCEPT !.op = "rename", !.path = p, !.to = q])
  /\ UNCHANGED temp /\ Change(files)

Rename(e) ==
  LET p == editor[e].path
      q == editor[e].to
      renamed == [o \in Editors |-> CASE editor[o].open = p -> q [] editor[o].open = q -> "gone"
                                       [] OTHER -> editor[o].open]
  IN /\ editor[e].op = "rename"
     /\ \/ files[p] = "none" /\ Done(e, Stays) /\ Change(files)
        \/ files[p] # "none" /\ Done(e, renamed) /\ Change([files EXCEPT ![q] = files[p], ![p] = "none"])
     /\ UNCHANGED <<temp, edits>>

----------------------------------------------------------------------------
\* ---- an index pass -----------------------------------------------------
Idle == [pc |-> "idle", full |-> FALSE, todo |-> {}, seen |-> {}, existing |-> {}, hash |-> "none",
         old |-> {}, alone |-> FALSE]
Over == [Idle EXCEPT !.pc = "ended"]
Active(n) == pass[n].pc \notin {"idle", "ended"}
RowsOf(path) == {r \in rows : r.path = path}

\* The first files of the walk, as many as are indexed at most.
collect_files ==
  LET found == {i \in DOMAIN Paths : files[Paths[i]] # "none"}
  IN {Paths[i] : i \in {j \in found : Cardinality({k \in found : k <= j}) <= MaxIndexed}}

\* The candidates, and the rows of the project as they are now.
BeginPass(n, full) ==
  /\ pass[n].pc = "idle" /\ \A m \in Passes : m < n => pass[m].pc # "idle"
  /\ LET others == {m \in Passes : Active(m)}
     IN /\ overlapped' = (overlapped \/ others # {})
        /\ pass' = [m \in Passes |->
             IF m = n THEN [Idle EXCEPT !.pc = "read", !.full = full, !.todo = collect_files,
                                        !.existing = rows, !.alone = others = {}]
             ELSE [pass[m] EXCEPT !.alone = FALSE]]
  /\ indexed' = "no" /\ UNCHANGED <<fileVars, rows, symbols>>

Existing(n, p) == {r \in pass[n].existing : r.path = p}
Candidate(n) == Paths[Min({i \in DOMAIN Paths : Paths[i] \in pass[n].todo})]
Past(n) == [pass[n] EXCEPT !.pc = "read", !.todo = @ \ {Candidate(n)}, !.seen = @ \cup {Candidate(n)},
                            !.hash = "none", !.old = {}]

\* A file that is gone, too large or unchanged is passed over; its row stays.
ReadFile(n) ==
  /\ pass[n].pc = "read" /\ pass[n].todo # {}
  /\ LET p == Candidate(n)
         content == files[p]
         same == \E r \in Existing(n, p) : r.hash = content
     IN pass' = [pass EXCEPT ![n] =
          IF content \in {"none", "big"} \/ (same /\ ~pass[n].full) THEN Past(n)
          ELSE [@ EXCEPT !.pc = IF Existing(n, p) = {} THEN "commit" ELSE "delete", !.hash = content]]
  /\ UNCHANGED <<fileVars, rows, symbols, indexed, overlapped>>

\* Mutant of DeleteSymbols: the hash and the deletion are committed on their own.
CommitDeletion(n) ==
  /\ pass[n].pc = "delete"
  /\ LET r == CHOOSE x \in Existing(n, Candidate(n)) : TRUE
     IN /\ symbols' = {s \in symbols : s.row # r.id}
        /\ rows' = {IF x.id = r.id THEN [x EXCEPT !.hash = pass[n].hash] ELSE x : x \in rows}
  /\ pass' = [pass EXCEPT ![n].pc = "commit"]
  /\ UNCHANGED <<fileVars, indexed, overlapped>>

\* The transaction of a file: the DELETE sees the symbols committed by now ...
DeleteSymbols(n) ==
  /\ pass[n].pc = "delete"
  /\ LET r == CHOOSE x \in Existing(n, Candidate(n)) : TRUE
     IN pass' = [pass EXCEPT ![n].pc = "commit", ![n].old = {s \in symbols : s.row = r.id}]
  /\ UNCHANGED <<fileVars, rows, symbols, indexed, overlapped>>

\* ... and the commit puts the row and its symbols in.  A row another pass has
\* inserted for the path, or pruned, ends the pass with an error; the hash is
\* written when it differs from the one loaded.
CommitFile(n) ==
  /\ pass[n].pc = "commit"
  /\ LET p == Candidate(n)
         hash == pass[n].hash
         mine(id) == [row |-> id, of |-> hash, by |-> n]
         id == <<n, p>>
     IN IF Existing(n, p) = {}
        THEN IF RowsOf(p) # {} THEN pass' = [pass EXCEPT ![n] = Over] /\ UNCHANGED <<rows, symbols>>
             ELSE /\ rows' = rows \cup {[id |-> id, path |-> p, hash |-> hash]}
                  /\ symbols' = symbols \cup {mine(id)}
                  /\ pass' = [pass EXCEPT ![n] = Past(n)]
        ELSE LET r == CHOOSE x \in Existing(n, p) : TRUE
             IN IF ~\E x \in rows : x.id = r.id
                THEN pass' = [pass EXCEPT ![n] = Over] /\ UNCHANGED <<rows, symbols>>
                ELSE /\ rows' = {IF x.id = r.id /\ r.hash # hash THEN [x EXCEPT !.hash = hash] ELSE x : x \in rows}
                     /\ symbols' = (symbols \ pass[n].old) \cup {mine(r.id)}
                     /\ pass' = [pass EXCEPT ![n] = Past(n)]
  /\ UNCHANGED <<fileVars, indexed, overlapped>>

Prune(n) ==
  /\ pass[n].pc = "read" /\ pass[n].todo = {}
  /\ LET gone == {r.id : r \in {x \in pass[n].existing : x.path \notin pass[n].seen}}
     IN /\ rows' = {r \in rows : r.id \notin gone}
        /\ symbols' = {s \in symbols : s.row \notin gone}
  /\ pass' = [pass EXCEPT ![n] = Over]
  /\ indexed' = IF pass[n].alone THEN IF pass[n].full THEN "full" ELSE "incremental" ELSE indexed
  /\ UNCHANGED <<fileVars, overlapped>>

PassDies(n) ==
  /\ Active(n) /\ pass' = [pass EXCEPT ![n] = Over]
  /\ UNCHANGED <<fileVars, rows, symbols, indexed, overlapped>>

----------------------------------------------------------------------------
WorkspaceInit ==
  /\ files = Tree /\ temp = [p \in PathSet |-> "none"]
  /\ editor = [e \in Editors |-> EditorFree] /\ edits = 0
  /\ pass = [n \in Passes |-> Idle]
  /\ rows = {[id |-> <<0, p>>, path |-> p, hash |-> Tree[p]] : p \in {q \in collect_files : Tree[q] # "big"}}
  /\ symbols = {[row |-> r.id, of |-> r.hash, by |-> 0] : r \in rows}
  /\ indexed = "full" /\ overlapped = FALSE

EditorStep ==
  /\ UNCHANGED <<rows, symbols, overlapped>>
  /\ \E e \in Editors :
       \/ \E p \in PathSet : (\E t \in Texts : OpenTemp(e, p, t)) \/ Touch(e, p) \/ Unlink(e, p)
       \/ \E p, q \in PathSet : AskRename(e, p, q)
       \/ Fill(e) \/ PublishSave(e) \/ Rename(e)

PassStep == \E n \in Passes :
  (\E full \in BOOLEAN : BeginPass(n, full)) \/ ReadFile(n) \/ DeleteSymbols(n) \/ CommitFile(n) \/ Prune(n) \/ PassDies(n)

WorkspaceNext == EditorStep \/ PassStep

\* After a pass that began and ended with no other pass and no change of the tree
\* in between, and until the next change, the index says what the tree says: each
\* file within the limit that is not too large has one row, with its hash and its
\* symbols once, and no path outside has any.  A full pass gets there whatever
\* went before, an incremental one if no passes ever overlapped: what crashed,
\* failed or was overtaken half way is made good.
IndexSettles ==
  indexed = "full" \/ (indexed = "incremental" /\ ~overlapped) =>
    /\ {r.path : r \in rows} \subseteq collect_files
    /\ \A p \in collect_files :
         /\ Cardinality(RowsOf(p)) <= 1
         /\ files[p] # "big" =>
              \E r \in RowsOf(p) : r.hash = files[p] /\ {s.of : s \in {x \in symbols : x.row = r.id}} = {files[p]}
                                   /\ Cardinality({s \in symbols : s.row = r.id}) = 1
=============================================================================
