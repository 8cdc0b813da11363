---------------------------- MODULE ResultProofs ----------------------------
(***************************************************************************)
(* Proofs about ResultStore and, on top of it, EmailNotifier: for every    *)
(* set of sessions, carriers and documents and any number of saves and     *)
(* restarts, what the cache lists and what a mail links to is served.      *)
(***************************************************************************)
EXTENDS EmailNotifier, TLAPS

\* what ListedIsServed rests on: behind a save that was not interrupted, the
\* session, its metadata and, until a prune, its files speak of the same documents
Whole(s) ==
  /\ ~meta[s].torn /\ meta[s].n # 0
  /\ meta[s].docs \ Bare = In(docs[s])
  /\ \A d \in meta[s].docs \ Bare : docs[s][d] = meta[s].n
  /\ ~Old(meta[s].n) => \A d \in meta[s].docs \ Bare : files[s][d] = meta[s].n

SavedWhole == \A s \in Sids \ cut : Exists(s) => Whole(s)

\* no metadata is ahead of the saves
Dated == \A s \in Sids : meta[s].n <= saves

RSInv == StoreTypes /\ SavedWhole /\ Dated

LEMMA RSInitInv == RSInit => RSInv
<1> SUFFICES ASSUME RSInit PROVE RSInv
  OBVIOUS
<1>1. StoreTypes
  BY ResultConstants DEF RSInit, StoreTypes, NoDocs, NoMeta, Meta, NoEntry, Entry
<1> QED BY <1>1, ResultConstants DEF RSInit, RSInv, SavedWhole, Dated,
              NoDocs, NoMeta, Exists, In

\* A save that gets to its end leaves session, files, metadata and index in
\* step; one that does not is noted in cut (result_store.py:31-54).
LEMMA SaveInv ==
  ASSUME RSInv, NEW s \in Sids, NEW D \in SUBSET DocIds, NEW W \in SUBSET DocIds,
         NEW at \in Points, Save(s, D, W, at)
  PROVE  RSInv'
<1> DEFINE n == saves + 1
           ds == [d \in DocIds |-> IF d \in D \ Bare THEN n ELSE 0]
           fs == [d \in DocIds |-> IF d \in W THEN n ELSE files[s][d]]
           md == IF at = "docs" THEN meta[s]
                 ELSE [n |-> n, docs |-> D, torn |-> (at = "meta")]
<1> USE DEF RSInv
<1>1. /\ saves \in Nat /\ saves < MaxSaves /\ saves' = n /\ n \in 1..MaxSaves
      /\ UNCHANGED <<carrier, here, horizon, boots>> /\ D # {} /\ W \subseteq D
      /\ listed' = [listed EXCEPT ![s] = D]
  BY ResultConstants DEF Save, Holds, StoreTypes
<1>2. /\ docs' = [docs EXCEPT ![s] = ds] /\ files' = [files EXCEPT ![s] = fs]
      /\ meta' = [meta EXCEPT ![s] = md]
  <2>1. meta = [meta EXCEPT ![s] = meta[s]]
    BY DEF StoreTypes
  <2> QED BY <2>1 DEF Save, Holds, Written, Described, StoreTypes
<1>3. ds \in [DocIds -> 0..n] /\ fs \in [DocIds -> 0..n] /\ md \in Meta
  BY <1>1 DEF StoreTypes, Meta
<1>4. /\ cut' = (IF at = "done" THEN cut \ {s} ELSE cut \cup {s})
      /\ index' = Indexed(s, n, at) /\ (at = "done" => W = D \ Bare)
  BY DEF Save
<1>5. StoreTypes'
  <2>1. \A f \in [DocIds -> 0..saves] : f \in [DocIds -> 0..n]
    BY <1>1
  <2>2. docs' \in [Sids -> [DocIds -> 0..n]] /\ files' \in [Sids -> [DocIds -> 0..n]]
    BY <1>2, <1>3, <2>1 DEF StoreTypes
  <2>3. /\ index' \in [Carriers -> Entry]
        /\ \A c \in Carriers : index'[c].sid # None => carrier[index'[c].sid] = c
    BY <1>1, <1>4 DEF Indexed, Entry, StoreTypes
  <2>4. meta' \in [Sids -> Meta] /\ listed' \in [Sids -> SUBSET DocIds] /\ cut' \subseteq Sids /\ horizon \in 0..n
    BY <1>1, <1>2, <1>3, <1>4 DEF StoreTypes
  <2> QED BY <1>1, <2>2, <2>3, <2>4 DEF StoreTypes
<1>6. SavedWhole' /\ Dated'
  <2>1. \A t \in Sids \ {s} : /\ docs'[t] = docs[t] /\ files'[t] = files[t]
                              /\ meta'[t] = meta[t] /\ (t \in cut' <=> t \in cut)
    BY <1>2, <1>4 DEF StoreTypes
  <2>2. docs'[s] = ds /\ files'[s] = fs /\ meta'[s] = md
    BY <1>2 DEF StoreTypes
  <2>3. Dated'
    <3>1. md.n <= n /\ \A t \in Sids : meta[t].n \in Nat
      BY <1>1 DEF Dated, Meta, StoreTypes
    <3> HIDE DEF md
    <3> QED BY <1>1, <2>1, <2>2, <3>1 DEF Dated, n
  <2>4. s \notin cut' => at = "done" /\ md = [n |-> n, docs |-> D, torn |-> FALSE]
    BY <1>4
  <2>5. s \notin cut' => In(ds) = D \ Bare /\ \A d \in D \ Bare : fs[d] = n
    BY <1>1, <1>4, <2>4 DEF In
  <2> HIDE DEF ds, fs, md, n
  <2>6. SavedWhole'
    <3>1. ASSUME NEW t \in Sids \ cut', t # s, Exists(t)'
          PROVE  Whole(t)'
      <4>1. t \notin cut /\ Exists(t)
        BY <2>1, <3>1 DEF Exists
      <4> QED BY <1>1, <2>1, <3>1, <4>1 DEF SavedWhole, Whole, In, Old
    <3>2. ASSUME s \notin cut'
          PROVE  Whole(s)'
      <4>1. meta'[s].n = n /\ meta'[s].docs = D /\ meta'[s].torn = FALSE /\ n # 0
        BY <1>1, <2>2, <2>4, <3>2
      <4>2. In(docs'[s]) = D \ Bare /\ \A d \in D \ Bare : files'[s][d] = n
        BY <2>2, <2>5, <3>2
      <4>3. \A d \in D \ Bare : docs'[s][d] = n
        BY <1>1, <2>2 DEF ds
      <4> QED BY <4>1, <4>2, <4>3 DEF Whole, In
    <3> QED BY <3>1, <3>2 DEF SavedWhole
  <2> QED BY <2>3, <2>6
<1> QED BY <1>5, <1>6

\* Progress does not touch a session whose last save went through
\* (session_manager.py publish_docs_progress).
LEMMA ProgressInv ==
  ASSUME RSInv, NEW s \in Sids, NEW D \in SUBSET DocIds, Progress(s, D)
  PROVE  RSInv'
<1> DEFINE n == saves + 1
           ds == [d \in DocIds |-> IF d \in D \ Bare THEN n ELSE 0]
<1> USE DEF RSInv
<1>1. /\ saves \in Nat /\ saves < MaxSaves /\ saves' = n /\ n \in 1..MaxSaves
      /\ UNCHANGED <<carrier, here, files, meta, index, horizon, cut, boots>>
      /\ docs' = [docs EXCEPT ![s] = ds] /\ (Exists(s) => s \in cut)
      /\ listed' = [listed EXCEPT ![s] = D]
  BY ResultConstants DEF Progress, Holds, StoreTypes
<1>2. StoreTypes'
  <2>1. \A f \in [DocIds -> 0..saves] : f \in [DocIds -> 0..n]
    BY <1>1
  <2>2. ds \in [DocIds -> 0..n]
    BY <1>1
  <2>3. docs' \in [Sids -> [DocIds -> 0..n]] /\ files' \in [Sids -> [DocIds -> 0..n]]
    BY <1>1, <2>1, <2>2 DEF StoreTypes
  <2> QED BY <1>1, <2>3 DEF StoreTypes
<1>3. \A t \in Sids \ {s} : docs'[t] = docs[t]
  BY <1>1 DEF StoreTypes
<1>4. SavedWhole'
  BY <1>1, <1>3 DEF SavedWhole, Whole, Exists, In, Old
<1>5. Dated'
  BY <1>1 DEF Dated, Meta, StoreTypes
<1> QED BY <1>2, <1>4, <1>5

\* Whatever prune removes or fails to remove, it leaves alone what is whole and
\* not old (result_store.py:100-110).
LEMMA PruneInv ==
  ASSUME RSInv, NEW P \in SUBSET here, PruneSessions(P)
  PROVE  RSInv'
<1> USE DEF RSInv
<1>1. PICK left \in SUBSET Doomed, kept \in SUBSET Prunable :
        /\ files' = FilesPruned(left)
        /\ meta' = [s \in Sids |-> IF s \in Prunable \ kept THEN NoMeta ELSE meta[s]]
  BY DEF PruneSessions, Pruned
<1>2. /\ UNCHANGED <<carrier, listed, docs, index, saves, horizon, cut, boots>>
      /\ here' \subseteq here
  BY DEF PruneSessions
<1>3. files' \in [Sids -> [DocIds -> 0..saves]]
  <2>1. saves \in Nat
    BY ResultConstants DEF StoreTypes
  <2>2. \A s \in Sids, d \in DocIds :
          (IF <<s, d>> \in Doomed \ left THEN 0 ELSE files[s][d]) \in 0..saves
    BY <2>1 DEF StoreTypes
  <2> QED BY <1>1, <2>2 DEF FilesPruned
<1>4. meta' \in [Sids -> Meta] /\ \A s \in Sids : meta'[s] = meta[s] \/ meta'[s] = NoMeta
  <2>1. NoMeta \in Meta
    BY ResultConstants DEF NoMeta, Meta
  <2> QED BY <1>1, <2>1 DEF StoreTypes
<1>5. ASSUME NEW s \in Sids \ Prunable
      PROVE  files'[s] = files[s] /\ meta'[s] = meta[s]
  <2>1. \A d \in DocIds : <<s, d>> \notin Doomed
    BY DEF Doomed
  <2>2. files'[s] = [d \in DocIds |-> files[s][d]]
    BY <1>1, <2>1 DEF FilesPruned
  <2> QED BY <1>1, <2>2 DEF StoreTypes
<1>6. StoreTypes'
  BY <1>2, <1>3, <1>4 DEF StoreTypes
<1>7. SavedWhole'
  <2> SUFFICES ASSUME NEW s \in Sids \ cut, Exists(s)' PROVE Whole(s)'
    BY <1>2 DEF SavedWhole
  <2>1. meta'[s] = meta[s] /\ Exists(s)
    BY <1>4 DEF Exists
  <2>2. Whole(s)
    BY <2>1 DEF SavedWhole
  <2>3. ~Old(meta[s].n) => s \notin Prunable
    BY <2>2 DEF Whole, Prunable
  <2>4. UNCHANGED <<docs, horizon>>
    BY <1>2
  <2> QED BY <1>5, <2>1, <2>2, <2>3, <2>4 DEF Whole, In, Old
<1>8. Dated'
  BY <1>2, <1>4, ResultConstants DEF Dated, NoMeta, StoreTypes
<1> QED BY <1>6, <1>7, <1>8

LEMMA RSNextInv == RSInv /\ [RSServe \/ Restart]_rsVars => RSInv'
<1> SUFFICES ASSUME RSInv, [RSServe \/ Restart]_rsVars PROVE RSInv'
  OBVIOUS
<1> USE DEF RSInv
<1>1. CASE Ages
  <2>1. StoreTypes' /\ Dated'
    BY <1>1 DEF Ages, StoreTypes, Dated
  <2>2. \A s \in Sids : Old(meta[s].n) => Old(meta[s].n)'
    <3>1. \A s \in Sids : meta[s].n \in Nat
      BY ResultConstants DEF StoreTypes, Meta
    <3>2. horizon' \in Nat /\ horizon' > horizon /\ horizon \in Nat
      BY <1>1, ResultConstants DEF Ages, StoreTypes
    <3> QED BY <1>1, <3>1, <3>2 DEF Ages, Old
  <2> QED BY <1>1, <2>1, <2>2 DEF Ages, SavedWhole, Whole, Exists, In
<1>2. CASE CacheRequest
  <2>1. index' \in [Carriers -> Entry]
        /\ \A c \in Carriers : index'[c] = index[c] \/ index'[c].sid = None
    BY <1>2, ResultConstants DEF CacheRequest, StoreTypes, NoEntry, Entry
  <2>2. StoreTypes'
    BY <1>2, <2>1 DEF CacheRequest, StoreTypes
  <2> QED BY <1>2, <2>2 DEF CacheRequest, SavedWhole, Whole, Dated, Exists, In, Old
<1>3. CASE Restart
  BY <1>3, ResultConstants DEF Restart, StoreTypes, SavedWhole, Whole,
                               Dated, Exists, In, Old
<1>4. CASE UNCHANGED rsVars
  BY <1>4 DEF rsVars, StoreTypes, SavedWhole, Whole, Dated, Exists, In, Old
<1> QED BY <1>1, <1>2, <1>3, <1>4, SaveInv, ProgressInv, PruneInv DEF RSServe

LEMMA RSInvariance == RSSpec => []RSInv
  BY RSInitInv, RSNextInv, PTL DEF RSSpec

\* What the cache lists it serves: from the session, or from the files that
\* prune leaves (main.py:369-374).
LEMMA ServedWhole ==
  ASSUME RSInv, NEW s \in Sids \ cut, Exists(s), ~Old(meta[s].n),
         NEW d \in meta[s].docs \ Bare
  PROVE  Served(s, d) = {meta[s].n}
<1>1. s \notin Prunable /\ docs[s][d] = meta[s].n /\ files[s][d] = meta[s].n
  BY DEF RSInv, SavedWhole, Whole, Prunable
<1> QED BY <1>1 DEF Served

\* The store is well-formed, and what it lists it serves, for any number of
\* sessions, carriers, documents, saves and restarts (result_store.py:31-54).
THEOREM StoreInvProved == RSSpec => []StoreInv
<1>1. RSInv => ListedIsServed
  <2> SUFFICES ASSUME RSInv, NEW e \in CacheAnswer, e.sid \notin cut, ~Old(e.n),
                      NEW d \in e.docs \ Bare
               PROVE  Served(e.sid, d) = {e.n}
    BY DEF ListedIsServed
  <2>1. PICK c \in Carriers : /\ Live(c) /\ Readable(index[c].sid)
                              /\ e = [carrier |-> c, sid |-> index[c].sid,
                                      n |-> meta[index[c].sid].n,
                                      docs |-> meta[index[c].sid].docs]
    BY DEF CacheAnswer
  <2>2. e.sid \in Sids /\ Exists(e.sid) /\ e.n = meta[e.sid].n /\ e.docs = meta[e.sid].docs
    BY <2>1 DEF Live, RSInv, StoreTypes, Entry
  <2> QED BY <2>2, ServedWhole
<1> QED BY <1>1, RSInvariance, PTL DEF StoreInv, RSInv

\* CacheAnswersLatest without the set that CacheAnswer builds
Hidden(c) == \E s \in cut : carrier[s] = c /\ index[c].sid \in {s, None}
Later(c, t) ==
  \E i \in Sids : index[c].sid = i /\ Readable(i) /\ meta[i].n >= meta[t].n

LatestIndexed ==
  \A c \in Carriers, t \in Sids \ cut :
    carrier[t] = c /\ Readable(t) /\ ~Old(meta[t].n) => Hidden(c) \/ Later(c, t)

LatestInv == RSInv /\ LatestIndexed

\* A save that gets to its end is the latest of its carrier; one that does not
\* hides at most the entry of its own session (result_store.py:142-155).
LEMMA SaveLatest ==
  ASSUME LatestInv, NEW s \in Sids, NEW D \in SUBSET DocIds, NEW W \in SUBSET DocIds,
         NEW at \in Points, Save(s, D, W, at)
  PROVE  LatestIndexed'
<1> USE DEF LatestInv, RSInv
<1>1. /\ saves \in Nat /\ saves < MaxSaves /\ UNCHANGED <<carrier, horizon>>
      /\ \A t \in Sids \ {s} : meta'[t] = meta[t] /\ (t \in cut' <=> t \in cut)
  BY ResultConstants DEF Save, StoreTypes, Described
<1>2. \A t \in Sids : meta[t].n \in Nat /\ meta[t].n <= saves
  BY DEF Dated, StoreTypes, Meta
<1>3. CASE at = "done"
  <2>1. /\ meta'[s] = [n |-> saves + 1, docs |-> D, torn |-> FALSE]
        /\ index' = [index EXCEPT ![carrier[s]] = [sid |-> s, n |-> saves + 1]]
        /\ cut' = cut \ {s}
    BY <1>3 DEF Save, Described, Indexed, StoreTypes
  <2>2. carrier[s] \in Carriers
    BY DEF StoreTypes
  <2>3. Readable(s)' /\ \A t \in Sids \ {s} : Readable(t)' = Readable(t)
    BY <1>1, <2>1 DEF Readable, Exists, NoMeta
  <2>4. SUFFICES ASSUME NEW c \in Carriers, NEW t \in Sids \ cut', carrier[t] = c,
                      Readable(t)', ~Old(meta[t].n)'
               PROVE  (Hidden(c) \/ Later(c, t))'
    BY <1>1 DEF LatestIndexed
  <2>5. CASE c = carrier[s]
    <3>1. index'[c].sid = s
      BY <2>1, <2>2, <2>5 DEF StoreTypes
    <3>2. meta'[s].n >= meta'[t].n
      BY <1>1, <1>2, <2>1
    <3> QED BY <2>3, <3>1, <3>2 DEF Later
  <2>6. CASE c # carrier[s]
    <3>1. t # s /\ index'[c] = index[c]
      BY <2>1, <2>4, <2>6 DEF StoreTypes
    <3>2. index[c].sid # s
      BY <2>6, ResultConstants DEF StoreTypes
    <3>3. ~Old(meta[t].n) /\ t \in Sids \ cut /\ Readable(t)
      BY <1>1, <2>1, <2>3, <2>4, <3>1 DEF Old
    <3>4. CASE Hidden(c)
      BY <1>1, <2>1, <2>6, <3>1, <3>4 DEF Hidden
    <3>5. CASE Later(c, t)
      <4>1. PICK i \in Sids : index[c].sid = i /\ Readable(i) /\ meta[i].n >= meta[t].n
        BY <3>5 DEF Later
      <4>2. Readable(i)' /\ meta'[i] = meta[i] /\ meta'[t] = meta[t]
        BY <1>1, <2>3, <3>1, <3>2, <4>1
      <4> QED BY <3>1, <4>1, <4>2 DEF Later
    <3> QED BY <2>4, <3>3, <3>4, <3>5 DEF LatestIndexed
  <2> QED BY <2>5, <2>6
<1>4. CASE at # "done"
  <2>1. cut' = cut \cup {s} /\ index' = index
    BY <1>4 DEF Save, Indexed
  <2>2. \A t \in Sids \ {s} : Readable(t)' = Readable(t)
    BY <1>1 DEF Readable, Exists
  <2>3. SUFFICES ASSUME NEW c \in Carriers, NEW t \in Sids \ cut', carrier[t] = c,
                      Readable(t)', ~Old(meta[t].n)'
               PROVE  (Hidden(c) \/ Later(c, t))'
    BY <1>1, <2>1 DEF LatestIndexed
  <2>4. t # s /\ ~Old(meta[t].n) /\ t \notin cut /\ Readable(t)
    BY <1>1, <2>1, <2>2, <2>3 DEF Old
  <2>5. CASE index[c].sid = s
    <3>1. carrier[s] = c
      BY <2>5, ResultConstants DEF StoreTypes
    <3> QED BY <1>1, <2>1, <2>5, <3>1 DEF Hidden
  <2>6. CASE index[c].sid # s /\ Later(c, t)
    <3>1. PICK i \in Sids : index[c].sid = i /\ Readable(i) /\ meta[i].n >= meta[t].n
      BY <2>6 DEF Later
    <3>2. Readable(i)' /\ meta'[i] = meta[i] /\ meta'[t] = meta[t]
      BY <1>1, <2>2, <2>4, <2>6, <3>1
    <3> QED BY <2>1, <3>1, <3>2 DEF Later
  <2>7. CASE Hidden(c)
    BY <1>1, <2>1, <2>7 DEF Hidden
  <2> QED BY <2>3, <2>4, <2>5, <2>6, <2>7 DEF LatestIndexed
<1> QED BY <1>3, <1>4

LEMMA LatestNext == LatestInv /\ [RSServe \/ Restart]_rsVars => LatestIndexed'
<1> SUFFICES ASSUME LatestInv, [RSServe \/ Restart]_rsVars PROVE LatestIndexed'
  OBVIOUS
<1> USE DEF LatestInv, RSInv
<1>1. ASSUME NEW s \in Sids, NEW D \in SUBSET DocIds, Progress(s, D)
      PROVE  LatestIndexed'
  BY <1>1 DEF Progress, LatestIndexed, Hidden, Later, Readable, Exists, Old
<1>2. CASE Ages
  <2>1. \A t \in Sids : meta[t].n \in Nat
    BY DEF Dated, StoreTypes, Meta
  <2>2. horizon' \in Nat /\ horizon' > horizon /\ horizon \in Nat /\ saves \in Nat
    BY <1>2, ResultConstants DEF Ages, StoreTypes
  <2>3. \A t \in Sids : Old(meta[t].n) => Old(meta[t].n)'
    BY <1>2, <2>1, <2>2 DEF Ages, Old
  <2> QED BY <1>2, <2>3 DEF Ages, LatestIndexed, Hidden, Later, Readable, Exists
<1>3. ASSUME NEW P \in SUBSET here, PruneSessions(P)
      PROVE  LatestIndexed'
  <2>1. /\ UNCHANGED <<carrier, index, horizon, cut>>
        /\ \A s \in Sids : /\ meta'[s] \in {meta[s], NoMeta}
                           /\ s \notin Prunable => meta'[s] = meta[s]
    BY <1>3 DEF PruneSessions, Pruned
  <2>2. SUFFICES ASSUME NEW c \in Carriers, NEW t \in Sids \ cut, carrier[t] = c,
                      Readable(t)', ~Old(meta[t].n)'
               PROVE  (Hidden(c) \/ Later(c, t))'
    BY <2>1 DEF LatestIndexed
  <2>3. meta'[t] = meta[t] /\ Readable(t) /\ ~Old(meta[t].n)
    BY <2>1, <2>2 DEF Readable, Exists, Old
  <2>4. ASSUME NEW i \in Sids, index[c].sid = i, Readable(i), meta[i].n >= meta[t].n
        PROVE  Later(c, t)'
    <3>1. meta[i].n \in Nat /\ meta[t].n \in Nat /\ horizon \in Nat
      BY ResultConstants DEF StoreTypes, Meta
    <3>2. i \notin Prunable
      BY <2>3, <2>4, <3>1 DEF Prunable, Readable, Old
    <3>3. meta'[i] = meta[i]
      BY <2>1, <3>2
    <3> QED BY <2>1, <2>3, <2>4, <3>3 DEF Later, Readable, Exists
  <2>5. Hidden(c) => Hidden(c)'
    BY <2>1 DEF Hidden
  <2> QED BY <2>2, <2>3, <2>4, <2>5 DEF LatestIndexed, Later
<1>4. CASE CacheRequest
  <2>1. UNCHANGED <<carrier, horizon, cut, meta>>
    BY <1>4 DEF CacheRequest
  <2>2. SUFFICES ASSUME NEW c \in Carriers, NEW t \in Sids \ cut, carrier[t] = c,
                      Readable(t), ~Old(meta[t].n)
               PROVE  (Hidden(c) \/ Later(c, t))'
    BY <2>1 DEF LatestIndexed, Readable, Exists, Old
  <2>3. \/ index'[c] = index[c]
        \/ ~Live(c) /\ index'[c].sid = None
    BY <1>4 DEF CacheRequest, NoEntry
  <2>4. Hidden(c) => Hidden(c)'
    BY <2>1, <2>3 DEF Hidden
  <2>5. Later(c, t) => Later(c, t)'
    BY <2>1, <2>3, ResultConstants DEF Later, Live, Readable, Exists
  <2> QED BY <2>2, <2>4, <2>5 DEF LatestIndexed
<1>5. CASE Restart \/ UNCHANGED rsVars
  BY <1>5 DEF Restart, rsVars, LatestIndexed, Hidden, Later, Readable, Exists, Old
<1> QED BY <1>1, <1>2, <1>3, <1>4, <1>5, SaveLatest DEF RSServe

\* The cache answers for a carrier with the last save that was completed, for
\* any number of sessions and carriers (result_store.py:142-155, 158-176).
THEOREM CacheAnswersLatestProved == RSSpec => []CacheAnswersLatest
<1>1. RSInit => LatestIndexed
  BY DEF RSInit, LatestIndexed, Readable, Exists
<1>2. LatestInv => CacheAnswersLatest
  <2> SUFFICES ASSUME LatestInv, NEW c \in Carriers, NEW n \in Completed(c), ~Old(n),
                      ~\E s \in cut : carrier[s] = c /\ index[c].sid \in {s, None}
               PROVE  \E e \in CacheAnswer : e.carrier = c /\ e.n >= n
    BY DEF CacheAnswersLatest
  <2>1. PICK t \in Sids \ cut : carrier[t] = c /\ Readable(t) /\ meta[t].n = n
    BY DEF Completed
  <2>2. PICK i \in Sids : index[c].sid = i /\ Readable(i) /\ meta[i].n >= n
    BY <2>1 DEF LatestInv, LatestIndexed, Hidden, Later
  <2> DEFINE e == [carrier |-> c, sid |-> i, n |-> meta[i].n, docs |-> meta[i].docs]
  <2>3. Live(c)
    BY <2>2, ResultConstants DEF Live, Readable
  <2>4. e \in CacheAnswer
    BY <2>2, <2>3 DEF CacheAnswer
  <2> QED BY <2>2, <2>4
<1> QED BY <1>1, <1>2, RSInvariance, LatestNext, PTL DEF RSSpec, LatestInv
----------------------------------------------------------------------------
(* E-mail                                                                  *)

\* what LinksServed rests on: a mail's documents are no newer than the last
\* save, and while they are the session's and young their metadata is there
Backed(s) ==
  mail[s].kept /\ docs[s] = mail[s].docs /\ s \notin cut =>
    \A d \in In(docs[s]) : Old(docs[s][d]) \/ Exists(s)

MailBacked ==
  \A s \in Watched : Backed(s) /\ \A d \in DocIds : mail[s].docs[d] <= saves

MailAllInv == RSInv /\ MailTypes /\ MailBacked

LEMMA MailInitInv == Init => MailTypes /\ MailBacked
<1> SUFFICES ASSUME Init PROVE MailTypes /\ MailBacked
  OBVIOUS
<1>1. NoDocs \in [DocIds -> Nat] /\ In(NoDocs) = {}
  BY DEF NoDocs, In
<1>2. NoMail \in Mail
  BY <1>1 DEF NoMail, Mail
<1>3. MailTypes
  BY <1>1, <1>2 DEF Init, MailTypes, NoMail
<1> QED BY <1>1, <1>3 DEF Init, RSInit, MailBacked, Backed, NoMail, NoDocs

\* Whatever is saved, shown, pruned or restarted, a mail that is kept stays
\* backed: newer documents are not the mail's any more, and only old metadata
\* is dropped.
LEMMA StoreKeepsBacked ==
  ASSUME MailAllInv, RSServe \/ Restart, mail' = mail
  PROVE  MailBacked'
<1> USE DEF MailAllInv, RSInv
<1>1. /\ saves \in Nat /\ saves' \in Nat /\ saves' >= saves
      /\ \A s \in Watched : s \in Sids /\ mail[s] \in Mail
  BY ResultConstants, WatchedSessions
     DEF MailTypes, StoreTypes, RSServe, Save, Progress, Ages, PruneSessions,
         CacheRequest, Restart
<1>2. \A s \in Watched : \A d \in DocIds : mail'[s].docs[d] <= saves'
  BY <1>1 DEF MailBacked, Mail
<1>3. SUFFICES ASSUME NEW s \in Watched
               PROVE  Backed(s)'
  BY <1>2 DEF MailBacked
<1>4. ASSUME NEW D \in SUBSET DocIds, NEW t \in Sids, saves' = saves + 1,
             docs' = [docs EXCEPT ![t] = [d \in DocIds |->
                                           IF d \in D \ Bare THEN saves + 1 ELSE 0]],
             t # s => Backed(s)'
      PROVE  Backed(s)'
  <2>1. SUFFICES ASSUME t = s, NEW d \in In(docs'[s]) PROVE docs'[s] # mail[s].docs
    BY <1>4 DEF Backed
  <2>2. d \in DocIds /\ d \in D \ Bare
    BY <1>1, <1>4, <2>1 DEF StoreTypes, In
  <2>3. docs'[s][d] = saves + 1
    BY <1>1, <1>4, <2>1, <2>2 DEF StoreTypes
  <2>4. mail[s].docs[d] <= saves /\ mail[s].docs[d] \in Nat
    BY <1>1, <2>2 DEF MailBacked, Mail
  <2> QED BY <1>1, <2>3, <2>4
<1>5. ASSUME NEW t \in Sids, NEW D \in SUBSET DocIds, NEW W \in SUBSET DocIds,
             NEW at \in Points, Save(t, D, W, at)
      PROVE  Backed(s)'
  <2>1. /\ saves' = saves + 1 /\ horizon' = horizon
        /\ docs' = [docs EXCEPT ![t] = [d \in DocIds |->
                                        IF d \in D \ Bare THEN saves + 1 ELSE 0]]
    BY <1>5 DEF Save, Holds
  <2>2. t # s => docs'[s] = docs[s] /\ meta'[s] = meta[s] /\ (s \in cut' <=> s \in cut)
    BY <1>1, <1>5 DEF Save, Holds, Described, StoreTypes
  <2>3. t # s => Backed(s)'
    BY <2>1, <2>2 DEF MailBacked, Backed, In, Old, Exists
  <2> QED BY <1>4, <2>1, <2>3
<1>6. ASSUME NEW t \in Sids, NEW D \in (SUBSET DocIds) \ {{}}, Progress(t, D)
      PROVE  Backed(s)'
  <2>1. /\ saves' = saves + 1 /\ UNCHANGED <<horizon, meta, cut>>
        /\ docs' = [docs EXCEPT ![t] = [d \in DocIds |->
                                        IF d \in D \ Bare THEN saves + 1 ELSE 0]]
    BY <1>6 DEF Progress, Holds
  <2>2. t # s => docs'[s] = docs[s]
    BY <1>1, <2>1 DEF StoreTypes
  <2>3. t # s => Backed(s)'
    BY <2>1, <2>2 DEF MailBacked, Backed, In, Old, Exists
  <2> QED BY <1>4, <2>1, <2>3
<1>7. CASE Ages
  <2>1. horizon' \in Nat /\ horizon' > horizon /\ horizon \in Nat
    BY <1>1, <1>7 DEF Ages, StoreTypes
  <2>2. \A d \in DocIds : docs[s][d] \in Nat
    BY <1>1 DEF StoreTypes
  <2>3. \A d \in DocIds : Old(docs[s][d]) => Old(docs[s][d])'
    BY <1>7, <2>1, <2>2 DEF Ages, Old
  <2> QED BY <1>7, <2>3 DEF Ages, MailBacked, Backed, In, Exists
<1>8. ASSUME NEW P \in SUBSET here, PruneSessions(P)
      PROVE  Backed(s)'
  <2>1. /\ UNCHANGED <<docs, horizon, cut>>
        /\ s \notin Prunable => meta'[s] = meta[s]
    BY <1>1, <1>8 DEF PruneSessions, Pruned
  <2>2. s \notin cut /\ s \in Prunable => \A d \in In(docs[s]) : Old(docs[s][d])
    <3> SUFFICES ASSUME s \notin cut, s \in Prunable, NEW d \in In(docs[s])
                 PROVE  Old(docs[s][d])
      OBVIOUS
    <3>1. Whole(s) /\ (meta[s].torn \/ Old(meta[s].n))
      BY <1>1 DEF SavedWhole, Prunable
    <3> QED BY <3>1 DEF Whole
  <2> QED BY <2>1, <2>2 DEF MailBacked, Backed, In, Old, Exists
<1>9. CASE CacheRequest \/ Restart
  BY <1>9 DEF CacheRequest, Restart, MailBacked, Backed, In, Old, Exists
<1> QED BY <1>5, <1>6, <1>7, <1>8, <1>9 DEF RSServe

\* A plan speaks of the documents as they are (email_notifier.py:85-136).
LEMMA SendInv ==
  ASSUME MailAllInv, NEW s \in Watched,
         NEW verdict \in {"success", "failure", "timeout"},
         verdict \in {"success", "failure"} => verdict = Verdict(s), Send(s, verdict)
  PROVE  MailTypes' /\ MailBacked'
<1> USE DEF MailAllInv, RSInv
<1> DEFINE m == Plan(s, verdict)
<1>1. /\ watch' = [watch EXCEPT ![s] = "send"] /\ mail' = [mail EXCEPT ![s] = m]
      /\ UNCHANGED <<rsVars, repairing, kicked, over>>
  BY DEF Send
<1>2. s \in Sids /\ saves \in Nat /\ docs[s] \in [DocIds -> 0..saves] /\ listed[s] \subseteq DocIds
  BY WatchedSessions, ResultConstants DEF StoreTypes
<1>3. NoDocs \in [DocIds -> 0..saves] /\ In(NoDocs) = {}
  BY <1>2 DEF NoDocs, In
<1>4. /\ m.verdict = verdict /\ m.links = (IF verdict = "success" THEN listed[s] ELSE {})
      /\ m.docs = (IF verdict = "success" THEN docs[s] ELSE NoDocs)
      /\ m.kept => s \notin cut /\ Readable(s)
      /\ m = [verdict |-> verdict, links |-> m.links, docs |-> m.docs, kept |-> m.kept, stale |-> m.stale,
              sent |-> m.sent]
      /\ {m.kept, m.stale, m.sent} \subseteq BOOLEAN
  BY DEF Plan
<1>5. m.links \subseteq DocIds /\ m.docs \in [DocIds -> Nat] /\ \A d \in DocIds : m.docs[d] <= saves
  BY <1>2, <1>3, <1>4
<1>6. m \in Mail
  BY <1>4, <1>5 DEF Mail
<1>7. m.verdict = "success" <=> m.links # {}
  BY <1>4 DEF Verdict
<1> HIDE DEF m
<1>8. \A t \in Watched : mail'[t] = IF t = s THEN m ELSE mail[t]
  BY <1>1 DEF MailTypes
<1>9. MailTypes'
  BY <1>1, <1>6, <1>7, <1>8 DEF MailTypes
<1>10. MailBacked'
  BY <1>1, <1>4, <1>5, <1>8 DEF MailBacked, Backed, Readable, Exists, Old, In, rsVars
<1> QED BY <1>9, <1>10

LEMMA MailNextInv == MailAllInv /\ [Next]_vars => MailAllInv'
<1> SUFFICES ASSUME MailAllInv, [Next]_vars PROVE MailAllInv'
  OBVIOUS
<1> USE DEF MailAllInv
<1>1. CASE RSServe /\ UNCHANGED mailVars
  BY <1>1, RSNextInv, StoreKeepsBacked DEF mailVars, MailTypes
<1>2. CASE Shutdown
  BY <1>2, RSNextInv, StoreKeepsBacked DEF Shutdown, MailTypes
<1>3. ASSUME NEW s \in Watched, Kick(s) \/ RepairDone(s) \/ Notify(s)
      PROVE  MailAllInv'
  <2>1. UNCHANGED rsVars /\ mail' = mail
    BY <1>3 DEF Kick, RepairDone, Notify
  <2>2. MailTypes'
    BY <1>3 DEF Kick, RepairDone, Notify, MailTypes
  <2>3. MailBacked'
    BY <2>1 DEF rsVars, MailBacked, Backed, In, Old, Exists
  <2> QED BY <2>1, <2>2, <2>3, RSNextInv
<1>4. ASSUME NEW s \in Watched, Wakes(s) \/ TimesOut(s)
      PROVE  MailAllInv'
  <2>1. PICK v \in {"success", "failure", "timeout"} :
           Send(s, v) /\ (v \in {"success", "failure"} => v = Verdict(s))
    BY <1>4 DEF Wakes, TimesOut, Verdict
  <2> QED BY <2>1, SendInv, RSNextInv DEF Send
<1>5. ASSUME NEW s \in Watched, Sent(s)
      PROVE  MailAllInv'
  <2>1. PICK ok \in BOOLEAN : mail' = [mail EXCEPT ![s].sent = ok]
    BY <1>5 DEF Sent
  <2>2. /\ UNCHANGED rsVars /\ UNCHANGED <<repairing, kicked, over>>
        /\ watch' = [watch EXCEPT ![s] = "none"]
    BY <1>5 DEF Sent
  <2>3. mail' \in [Watched -> Mail] /\ \A t \in Watched :
          /\ mail'[t].verdict = mail[t].verdict /\ mail'[t].docs = mail[t].docs
          /\ mail'[t].kept = mail[t].kept /\ mail'[t].links = mail[t].links
    <3>1. PICK x : x = [mail[s] EXCEPT !.sent = ok]
      OBVIOUS
    <3>2. mail[s] \in Mail
      BY DEF MailTypes
    <3>3. x \in Mail /\ x.verdict = mail[s].verdict /\ x.docs = mail[s].docs
          /\ x.kept = mail[s].kept /\ x.links = mail[s].links
      BY <3>1, <3>2 DEF Mail
    <3>4. mail' = [mail EXCEPT ![s] = x]
      BY <2>1, <3>1
    <3> QED BY <3>3, <3>4 DEF MailTypes
  <2>4. MailTypes'
    <3>1. watch' \in [Watched -> {"none", "wait", "send"}]
      BY <2>2 DEF MailTypes
    <3>2. \A t \in Watched : mail'[t].verdict = "success" <=> mail'[t].links # {}
      BY <2>3 DEF MailTypes
    <3> QED BY <2>2, <2>3, <3>1, <3>2 DEF MailTypes
  <2>5. MailBacked'
    <3>1. UNCHANGED <<docs, cut, meta, horizon, saves>>
      BY <2>2 DEF rsVars
    <3>2. \A t \in Watched : Backed(t)'
      BY <2>3, <3>1 DEF MailBacked, Backed, In, Old, Exists
    <3> QED BY <2>3, <3>1, <3>2 DEF MailBacked
  <2> QED BY <2>2, <2>4, <2>5, RSNextInv
<1>6. CASE UNCHANGED vars
  BY <1>6, RSNextInv DEF vars, rsVars, mailVars, MailTypes, MailBacked, Backed, In, Old, Exists
<1> QED BY <1>1, <1>2, <1>3, <1>4, <1>5, <1>6 DEF Next

\* Watchers and mails are well-formed, and the links of a success mail lead to
\* its documents for the TTL of their save (email_notifier.py:111-136).
THEOREM MailInvProved == Spec => []MailInv
<1>1. Init => MailAllInv
  BY RSInitInv, MailInitInv DEF Init, MailAllInv
<1>2. MailAllInv => MailInv
  <2> SUFFICES ASSUME MailAllInv, NEW s \in Watched, mail[s].kept,
                      docs[s] = mail[s].docs, s \notin cut, NEW d \in In(mail[s].docs),
                      ~Old(mail[s].docs[d])
               PROVE  Served(s, d) = {mail[s].docs[d]}
    BY DEF MailInv, LinksServed, MailAllInv
  <2>1. s \in Sids \ cut /\ Exists(s)
    BY WatchedSessions DEF MailAllInv, MailBacked, Backed
  <2>2. d \in meta[s].docs \ Bare /\ docs[s][d] = meta[s].n
    BY <2>1 DEF MailAllInv, RSInv, SavedWhole, Whole
  <2> QED BY <2>1, <2>2, ServedWhole DEF MailAllInv
<1> QED BY <1>1, <1>2, MailNextInv, PTL DEF Spec
=============================================================================
