---------------------------- MODULE ResultStore ----------------------------
(***************************************************************************)
(* The documents of finished sessions, in memory and on disk:              *)
(*   - backend/result_store.py: files of documents, metadata.json, and the *)
(*     index per uid, written in this order; prune; what reads them,       *)
(*   - backend/session_manager.py (set_docs, get_doc_bytes, get_persisted, *)
(*     the pruning of sessions), backend/main.py (cache_endpoint, get_doc).*)
(*                                                                         *)
(* One uid.  All of it runs between two awaits, so nothing interleaves     *)
(* with a save; but a save may raise at any point of it, and the process   *)
(* may end there.  Pruning a directory ignores every error, so that any of *)
(* its files may stay.  Saves are numbered: the number stands for the time *)
(* and for the bytes of that save, 0 for a file, an entry or bytes that    *)
(* are not there.                                                          *)
(***************************************************************************)
EXTENDS Naturals, FiniteSets

CONSTANTS Sids, Carriers, DocIds, None,
          Bare,     \* documents that are listed without bytes
          MaxSaves, \* bound: calls of save_done
          MaxBoots  \* bound: restarts of the process

ASSUME ResultConstants ==
  /\ None \notin Sids /\ Bare \subseteq DocIds /\ MaxSaves \in Nat \ {0} /\ MaxBoots \in Nat

VARIABLES carrier, \* sid -> the carrier it logs in to
          here,    \* sids in SessionManager._sessions
          listed,  \* sid -> session.docs: the ids
          docs,    \* sid -> session.doc_bytes: id -> save, or 0
          files,   \* sid -> its docs/ directory: id -> save, or 0
          meta,    \* sid -> its metadata.json
          index,   \* carrier -> the uid's entry in _uid_index
          saves, horizon, \* saves so far; those up to horizon are a TTL old
          cut,     \* sids whose last save was interrupted (history)
          boots

rsVars == <<carrier, here, listed, docs, files, meta, index, saves, horizon, cut, boots>>
diskVars == <<files, meta, index>>

NoDocs == [d \in DocIds |-> 0]
In(f) == {d \in DocIds : f[d] # 0}

Meta == [n : 0..MaxSaves, docs : SUBSET DocIds, torn : BOOLEAN]
NoMeta == [n |-> 0, docs |-> {}, torn |-> FALSE]
Entry == [sid : Sids \cup {None}, n : 0..MaxSaves]
NoEntry == [sid |-> None, n |-> 0]

RSInit ==
  /\ carrier \in [Sids -> Carriers] /\ here = Sids
  /\ listed = [s \in Sids |-> {}]
  /\ docs = [s \in Sids |-> NoDocs] /\ files = [s \in Sids |-> NoDocs]
  /\ meta = [s \in Sids |-> NoMeta] /\ index = [c \in Carriers |-> NoEntry]
  /\ saves = 0 /\ horizon = 0 /\ cut = {} /\ boots = 0

Old(n) == n <= horizon

\* exists, and _load_metadata
Exists(s) == meta[s] # NoMeta
Readable(s) == Exists(s) /\ ~meta[s].torn
----------------------------------------------------------------------------
(* save_done, as set_docs calls it                                         *)

\* how far a save gets
Points == {"docs", "meta", "index", "done"}

\* mutant: the first result of a carrier stays the one the index names
IndexedOnce(s, n, at) ==
  IF at = "done" /\ index[carrier[s]] = NoEntry
  THEN [index EXCEPT ![carrier[s]] = [sid |-> s, n |-> n]] ELSE index

\* _record_uid_session: replaced as a whole, after everything else
Indexed(s, n, at) ==
  IF at = "done" THEN [index EXCEPT ![carrier[s]] = [sid |-> s, n |-> n]] ELSE index

\* write_text truncates and writes: a save that stops here loses the metadata
\* of the save before
Described(s, n, D, at) ==
  IF at = "docs" THEN meta
  ELSE [meta EXCEPT ![s] = [n |-> n, docs |-> D, torn |-> (at = "meta")]]

\* mutant: the documents of an earlier save are not written again
WrittenOnce(s, n, W) ==
  [files EXCEPT ![s] = [d \in DocIds |-> IF d \in W /\ @[d] = 0 THEN n ELSE @[d]]]

Written(s, n, W) ==
  [files EXCEPT ![s] = [d \in DocIds |-> IF d \in W THEN n ELSE @[d]]]

\* session.docs and session.doc_bytes from now on
Holds(s, n, D) ==
  /\ listed' = [listed EXCEPT ![s] = D]
  /\ docs' = [docs EXCEPT ![s] = [d \in DocIds |-> IF d \in D \ Bare THEN n ELSE 0]]

\* a login ends, or a repair delivers: D are the session's documents from now
\* on, W those whose file was written before the save got to its end; one
\* without bytes is skipped, and stays listed
Save(s, D, W, at) ==
  LET n == saves + 1
  IN  /\ saves < MaxSaves /\ saves' = n
      /\ s \in here /\ D # {}
      /\ W \subseteq D \ Bare /\ (at # "docs" => W = D \ Bare)
      /\ Holds(s, n, D)
      /\ files' = Written(s, n, W) /\ meta' = Described(s, n, D, at)
      /\ index' = Indexed(s, n, at)
      /\ cut' = IF at = "done" THEN cut \ {s} ELSE cut \cup {s}
      /\ UNCHANGED <<carrier, here, horizon, boots>>

\* publish_docs_progress: shown, and in memory only; not once a save went through
Progress(s, D) ==
  /\ saves < MaxSaves /\ saves' = saves + 1
  /\ s \in here /\ (Exists(s) => s \in cut)
  /\ Cardinality(D) >= Cardinality(listed[s])
  /\ Holds(s, saves + 1, D)
  /\ UNCHANGED <<carrier, here, files, meta, index, horizon, cut, boots>>
----------------------------------------------------------------------------
(* Time, and what is dropped                                               *)

Ages ==
  /\ \E h \in 1..saves : h > horizon /\ horizon' = h
  /\ UNCHANGED <<carrier, here, listed, docs, files, meta, index, saves, cut, boots>>

\* prune drops what is old, and a metadata file that does not parse: its
\* saved_at counts as 0
Prunable == {s \in Sids : Exists(s) /\ (meta[s].torn \/ Old(meta[s].n))}

\* what a prune is to remove
Doomed == {p \in Prunable \X DocIds : files[p[1]][p[2]] # 0}

FilesPruned(left) ==
  [s \in Sids |-> [d \in DocIds |->
     IF <<s, d>> \in Doomed \ left THEN 0 ELSE files[s][d]]]

\* result_store.prune: rmtree ignores errors, and what cannot be removed stays;
\* left are the documents that do, kept the sessions whose metadata.json does
Pruned ==
  \E left \in SUBSET Doomed, kept \in SUBSET Prunable :
    /\ files' = FilesPruned(left)
    /\ meta' = [s \in Sids |-> IF s \in Prunable \ kept THEN NoMeta ELSE meta[s]]

\* _prune_stale: sessions end a TTL after they were created
PruneSessions(P) ==
  /\ here' = here \ P /\ Pruned
  /\ UNCHANGED <<carrier, listed, docs, index, saves, horizon, cut, boots>>

Restart ==
  /\ boots < MaxBoots /\ boots' = boots + 1 /\ here' = {}
  /\ UNCHANGED <<carrier, listed, docs, files, meta, index, saves, horizon, cut>>

\* latest_for_uid forgets entries whose directory was pruned
Live(c) == index[c].sid # None /\ Exists(index[c].sid)

CacheRequest ==
  /\ index' = [c \in Carriers |-> IF Live(c) THEN index[c] ELSE NoEntry]
  /\ UNCHANGED <<carrier, here, listed, docs, files, meta, saves, horizon, cut, boots>>
----------------------------------------------------------------------------
(* What a browser is answered                                              *)

\* cache_endpoint: an entry without readable metadata is left out
CacheAnswer ==
  {[carrier |-> c, sid |-> index[c].sid, n |-> meta[index[c].sid].n,
    docs |-> meta[index[c].sid].docs] :
     c \in {k \in Carriers : Live(k) /\ Readable(index[k].sid)}}

\* get_doc may answer one of these: from the session, or what the prune before
\* it leaves on disk; it does not ask for metadata
Served(s, d) ==
  IF s \in here THEN {docs[s][d]}
  ELSE {files[s][d]} \cup (IF s \in Prunable THEN {0} ELSE {})

RSServe ==
  \/ \E s \in Sids, D, W \in SUBSET DocIds, at \in Points : Save(s, D, W, at)
  \/ \E s \in Sids, D \in (SUBSET DocIds) \ {{}} : Progress(s, D)
  \/ Ages
  \/ \E P \in SUBSET here : PruneSessions(P)
  \/ CacheRequest

RSSpec == RSInit /\ [][RSServe \/ Restart]_rsVars
----------------------------------------------------------------------------
\* Every variable has its type; what metadata, files and index say of a save
\* was written by one that began.
StoreTypes ==
  /\ carrier \in [Sids -> Carriers] /\ here \subseteq Sids
  /\ listed \in [Sids -> SUBSET DocIds] /\ docs \in [Sids -> [DocIds -> 0..saves]]
  /\ files \in [Sids -> [DocIds -> 0..saves]]
  /\ meta \in [Sids -> Meta] /\ index \in [Carriers -> Entry]
  /\ saves \in 0..MaxSaves /\ horizon \in 0..saves
  /\ cut \subseteq Sids /\ boots \in 0..MaxBoots
  /\ \A c \in Carriers : index[c].sid # None => carrier[index[c].sid] = c

\* What /api/cache lists and was saved with its bytes can be fetched, with the
\* bytes of that very save, also after a restart and after a repair saved over
\* it: except from a session whose last save was interrupted, and from one that
\* is old, whether or not something has pruned it (main.py:369-374,
\* result_store.py:31-54).  No caller lists a document without bytes.
ListedIsServed ==
  \A e \in CacheAnswer : e.sid \notin cut /\ ~Old(e.n) =>
    \A d \in e.docs \ Bare : Served(e.sid, d) = {e.n}

\* A run checks the two together: the store is well-formed, and what it lists it
\* serves (result_store.py:31-54, main.py:369-374).
StoreInv == StoreTypes /\ ListedIsServed

\* /api/cache answers for a carrier with the last save that was completed and
\* is not old yet, whatever was saved, pruned, restarted or left half-done in
\* other sessions; only an interrupted save over a session that had its place
\* in the index can hide it (result_store.py:142-155, 158-176).
Completed(c) ==
  {meta[s].n : s \in {t \in Sids : carrier[t] = c /\ Readable(t) /\ t \notin cut}}

CacheAnswersLatest ==
  \A c \in Carriers : \A n \in Completed(c) :
    \/ Old(n)
    \/ \E s \in cut : carrier[s] = c /\ index[c].sid \in {s, None}
    \/ \E e \in CacheAnswer : e.carrier = c /\ e.n >= n
----------------------------------------------------------------------------
(* What one may expect and the code does not do                            *)

\* prune finds documents by their metadata.json.  A save that was cut off before
\* it, or a prune that removed it and failed at a document, leaves files that no
\* prune finds and get_doc serves for ever (result_store.py:104-110).
NothingOutlivesTtl == \A s \in Sids : In(files[s]) # {} => s \in here \/ Exists(s)
=============================================================================
