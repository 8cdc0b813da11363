----------------------------- MODULE RepairProofs -----------------------------
(***************************************************************************)
(* Proofs about Repair, for any number of sessions, of callers that kick   *)
(* and of repairs, and whatever claude does.  RInv is inductive: one part  *)
(* per process that checks STATUS and one per session, because a step of   *)
(* the controller moves one process and touches one session, and leaves    *)
(* what the others rely on: entries keep their session, and a claim that   *)
(* passed the verifier has passed.  Owned, which is inductive with it,     *)
(* follows each STATUS from the repair that wrote it to the verdict.       *)
(***************************************************************************)
EXTENDS Repair, TLAPS

\* a process that has work looks after an entry; it persists, and concludes with
\* DONE, only what the verifier passed
ProcInv(p) ==
  /\ p \in K => proc[p].k = p
  /\ proc[p].pc \notin {"idle", "end"} => proc[p].k \in 1..Len(entry)
  /\ proc[p].pc \in {"verify", "persist"} => proc[p].body.v = "DONE"
  /\ proc[p].pc = "cleanup" => proc[p].body.v \in {"DONE", "NEED_HUMAN"}
  /\ proc[p].pc = "persist" => proc[p].k \in passed
  /\ proc[p].pc = "cleanup" /\ proc[p].body.v = "DONE" => proc[p].k \in passed

\* the repair, the verdict or the request that answers a session
Answered(s) ==
  \/ \E k \in 1..Len(entry) : entry[k].sid = s
  \/ sess[s].terminal # NoVerdict
  \/ \E q \in Kickers : /\ kicker[q].pc = "spawn" /\ kicker[q].sid = s
                        /\ kicker[q].why = "feedback"

\* a session that has, or is about to get, a repair
Repaired(s) ==
  \/ \E k \in 1..Len(entry) : entry[k].sid = s
  \/ \E q \in Kickers : kicker[q].pc \in {"analyze", "spawn"} /\ kicker[q].sid = s

\* while its login goes on, only a feedback starts one
Early(s) == sess[s].login => sess[s].early

\* a marker stands for documents of a repair of the session; what may have replaced
\* them are those of a login that was not over
Delivered(s) ==
  /\ Early(s)
  /\ \/ \E k \in 1..Len(entry) : sess[s].docs = {k} /\ entry[k].sid = s
     \/ sess[s].early /\ sess[s].docs = {0}

SessInv(s) ==
  /\ s \in marker => Delivered(s)
  /\ Repaired(s) => Early(s)
  /\ pdfs[s] # 0 => pdfs[s] \in 1..Len(entry) /\ entry[pdfs[s]].sid = s
  /\ sess[s].terminal.v = "DONE" => sess[s].terminal.k \in passed
  /\ sess[s].here /\ sess[s].kicked => Answered(s)

\* only a feedback is analyzed before it kicks
Analyzing == \A q \in Kickers : kicker[q].pc = "analyze" => kicker[q].why = "feedback"

RInv ==
  /\ RepairTypes /\ Analyzing
  /\ \A p \in Procs : ProcInv(p)
  /\ \A s \in Sids : SessInv(s)
----------------------------------------------------------------------------
(* Records                                                                 *)

LEMMA SomeVerdict ==
  /\ NoVerdict \in Verdict /\ Refusal \in Verdict
  /\ Refusal # NoVerdict /\ Refusal.v = "NEED_HUMAN"
  /\ \A f \in File, k \in K : f.v \in {"DONE", "NEED_HUMAN"} =>
       LET v == [v |-> f.v, k |-> k, by |-> f.by]
       IN  v \in Verdict /\ v # NoVerdict /\ v.v = f.v /\ v.k = k
BY DEF Verdict, NoVerdict, Refusal, File, NoFile, Verdicts, Garbled

LEMMA Files ==
  /\ NoFile \in File /\ NoFile.v = "none"
  /\ \A k \in K : /\ Verdicts(k) \subseteq File /\ Garbled(k) \in File
                  /\ [v |-> "NEED_HUMAN", by |-> k] \in File
<1>1. NoFile.v = "none"
  BY DEF NoFile
<1>2. NoFile \in File /\ \A k \in K : Verdicts(k) \subseteq File /\ Garbled(k) \in File
  BY DEF File
<1>3. \A k \in K : [v |-> "NEED_HUMAN", by |-> k] \in Verdicts(k)
  BY DEF Verdicts
<1> QED BY <1>1, <1>2, <1>3

LEMMA OverField ==
  ASSUME NEW x \in Session
  PROVE  LET y == [x EXCEPT !.login = FALSE]
         IN  /\ y \in Session /\ ~y.login /\ y.early = x.early /\ y.docs = x.docs
             /\ y.here = x.here /\ y.kicked = x.kicked /\ y.terminal = x.terminal
BY DEF Session

LEMMA DocsField ==
  ASSUME NEW x \in Session, NEW d \in SUBSET (0..MaxKicks)
  PROVE  LET y == [x EXCEPT !.docs = d]
         IN  /\ y \in Session /\ y.login = x.login /\ y.early = x.early /\ y.docs = d
             /\ y.here = x.here /\ y.kicked = x.kicked /\ y.terminal = x.terminal
BY DEF Session

LEMMA EarlyField ==
  ASSUME NEW x \in Session
  PROVE  LET y == [x EXCEPT !.early = x.early \/ x.login]
         IN  /\ y \in Session /\ y.login = x.login /\ y.early = (x.early \/ x.login)
             /\ y.docs = x.docs /\ y.here = x.here /\ y.kicked = x.kicked
             /\ y.terminal = x.terminal
BY DEF Session

LEMMA FlagFields ==
  ASSUME NEW x \in Session
  PROVE  LET y == [x EXCEPT !.fra = TRUE, !.kicked = TRUE]
         IN  /\ y \in Session /\ y.login = x.login /\ y.early = x.early /\ y.docs = x.docs
             /\ y.here = x.here /\ y.kicked = TRUE /\ y.terminal = x.terminal
BY DEF Session

LEMMA KickedField ==
  ASSUME NEW x \in Session
  PROVE  LET y == [x EXCEPT !.kicked = TRUE]
         IN  /\ y \in Session /\ y.login = x.login /\ y.early = x.early /\ y.docs = x.docs
             /\ y.here = x.here /\ y.kicked = TRUE /\ y.terminal = x.terminal
BY DEF Session

LEMMA HereField ==
  ASSUME NEW x \in Session
  PROVE  LET y == [x EXCEPT !.here = FALSE]
         IN  /\ y \in Session /\ y.login = x.login /\ y.early = x.early /\ y.docs = x.docs
             /\ y.here = FALSE /\ y.kicked = x.kicked /\ y.terminal = x.terminal
BY DEF Session

LEMMA ToldFields ==
  ASSUME NEW x \in Session, NEW v \in Verdict
  PROVE  /\ Told(x, v) \in Session
         /\ Told(x, v).login = x.login /\ Told(x, v).early = x.early
         /\ Told(x, v).docs = x.docs
         /\ Told(x, v).here = x.here /\ Told(x, v).kicked = x.kicked
         /\ x.here => Told(x, v).terminal = v
         /\ ~x.here => Told(x, v).terminal = x.terminal
<1> DEFINE y == [x EXCEPT !.terminal = v]
<1>1. /\ y \in Session /\ y.login = x.login /\ y.early = x.early /\ y.docs = x.docs
      /\ y.here = x.here /\ y.kicked = x.kicked /\ y.terminal = v
  BY DEF Session
<1> HIDE DEF y
<1>2. CASE x.here
  <2>1. Told(x, v) = y
    BY <1>2 DEF Told, y
  <2> QED BY <1>1, <1>2, <2>1
<1>3. CASE ~x.here
  <2>1. Told(x, v) = x
    BY <1>3 DEF Told
  <2> QED BY <1>3, <2>1
<1> QED BY <1>2, <1>3

\* A caller that is under way knows its session.
LEMMA Kicking ==
  ASSUME NEW x \in Kicker, x.pc \in {"analyze", "spawn"}
  PROVE  /\ x.sid \in Sids /\ x.why \in {"error", "feedback"}
         /\ x = [pc |-> x.pc, sid |-> x.sid, why |-> x.why]
         /\ [x EXCEPT !.pc = "spawn"] \in Kicker
         /\ [x EXCEPT !.pc = "spawn"].pc = "spawn"
         /\ [x EXCEPT !.pc = "spawn"].sid = x.sid
         /\ [x EXCEPT !.pc = "spawn"].why = x.why
BY DEF Kicker, Free, Gone

LEMMA NewKicker ==
  /\ Free \in Kicker /\ Gone \in Kicker
  /\ \A c \in {"analyze", "spawn"}, s \in Sids, w \in {"error", "feedback"} :
       [pc |-> c, sid |-> s, why |-> w] \in Kicker
BY DEF Kicker
----------------------------------------------------------------------------
(* What every step keeps                                                   *)

Kept ==
  /\ Len(entry') >= Len(entry) /\ entry' \in Seq(Entry) /\ Len(entry') <= MaxKicks
  /\ \A k \in 1..Len(entry) : entry'[k].sid = entry[k].sid
  /\ passed \subseteq passed'

LEMMA Lengths ==
  ASSUME RInv
  PROVE  /\ Len(entry) \in Nat /\ MaxKicks \in Nat /\ 1..Len(entry) \subseteq K
         /\ K \subseteq 0..MaxKicks /\ Procs \subseteq 0..MaxKicks
         /\ \A k \in 1..Len(entry) : entry[k] \in Entry /\ entry[k].sid \in Sids
         /\ Kept => /\ Len(entry') \in Nat /\ 1..Len(entry) \subseteq 1..Len(entry')
                    /\ 0..Len(entry) \subseteq 0..Len(entry')
<1>1. /\ Len(entry) \in Nat /\ MaxKicks \in Nat /\ Len(entry) <= MaxKicks
      /\ entry \in Seq(Entry)
  BY RepairConstants DEF RInv, RepairTypes
<1>2. \A k \in 1..Len(entry) : entry[k] \in Entry /\ entry[k].sid \in Sids
  <2>1. \A k \in 1..Len(entry) : entry[k] \in Entry
    BY <1>1
  <2>2. \A x \in Entry : x.sid \in Sids
    BY DEF Entry
  <2> QED BY <2>1, <2>2
<1>3. Kept => Len(entry') \in Nat
  BY DEF Kept
<1> QED BY <1>1, <1>2, <1>3 DEF K, Procs, Cadence, Kept

LEMMA ProcKept ==
  ASSUME RInv, Kept, NEW p \in Procs, proc'[p] = proc[p]
  PROVE  ProcInv(p)'
<1>1. ProcInv(p) /\ 1..Len(entry) \subseteq 1..Len(entry')
  BY Lengths DEF RInv
<1> QED BY <1>1 DEF ProcInv, Kept

LEMMA AnsweredKept ==
  ASSUME RInv, Kept, NEW s \in Sids, Answered(s),
         sess'[s].terminal = sess[s].terminal \/ sess'[s].terminal # NoVerdict,
         \A q \in Kickers : kicker[q].pc = "spawn" /\ kicker[q].sid = s
                            /\ kicker[q].why = "feedback" => kicker'[q] = kicker[q]
  PROVE  Answered(s)'
<1>1. 1..Len(entry) \subseteq 1..Len(entry')
  BY Lengths
<1>2. CASE \E k \in 1..Len(entry) : entry[k].sid = s
  BY <1>1, <1>2 DEF Answered, Kept
<1>3. CASE sess[s].terminal # NoVerdict
  BY <1>3 DEF Answered
<1>4. CASE \E q \in Kickers : /\ kicker[q].pc = "spawn" /\ kicker[q].sid = s
                              /\ kicker[q].why = "feedback"
  BY <1>4 DEF Answered
<1> QED BY <1>2, <1>3, <1>4 DEF Answered

\* no session gets a repair, or is about to, that had not
LEMMA RepairedKept ==
  ASSUME RInv, Kept, Len(entry') = Len(entry), kicker' = kicker, NEW s \in Sids
  PROVE  Repaired(s)' => Repaired(s)
BY DEF Repaired, Kept

LEMMA SessKept ==
  ASSUME RInv, Kept, NEW s \in Sids,
         \/ pdfs'[s] = pdfs[s]
         \/ pdfs'[s] \in 1..Len(entry) /\ entry[pdfs'[s]].sid = s,
         s \in marker' =>
           \/ s \in marker /\ sess'[s].docs = sess[s].docs
           \/ s \in marker /\ sess[s].login /\ sess'[s].docs = {0}
           \/ pdfs[s] # 0 /\ sess'[s].docs = {pdfs[s]},
         sess'[s].login => sess[s].login,
         sess[s].early => sess'[s].early,
         Repaired(s)' => Repaired(s) \/ Early(s)',
         \/ sess'[s].terminal = sess[s].terminal
         \/ /\ sess'[s].terminal # NoVerdict
            /\ sess'[s].terminal.v = "DONE" => sess'[s].terminal.k \in passed',
         sess'[s].here => sess[s].here,
         sess'[s].kicked => sess[s].kicked \/ Answered(s)',
         \/ Answered(s)'
         \/ \A q \in Kickers : kicker[q].pc = "spawn" /\ kicker[q].sid = s
                               /\ kicker[q].why = "feedback" => kicker'[q] = kicker[q]
  PROVE  SessInv(s)'
<1>1. SessInv(s) /\ 1..Len(entry) \subseteq 1..Len(entry')
  BY Lengths DEF RInv
<1>2. Early(s) => Early(s)'
  BY DEF Early
<1>3. Repaired(s)' => Early(s)'
  BY <1>1, <1>2 DEF SessInv
<1>4. s \in marker' => Delivered(s)'
  <2>1. CASE s \in marker /\ sess'[s].docs = sess[s].docs
    BY <1>1, <1>2, <2>1 DEF SessInv, Delivered, Kept
  <2>2. CASE s \in marker /\ sess[s].login /\ sess'[s].docs = {0}
    BY <1>1, <1>2, <2>2 DEF SessInv, Delivered, Early
  <2>3. CASE pdfs[s] # 0 /\ sess'[s].docs = {pdfs[s]}
    <3>1. pdfs[s] \in 1..Len(entry) /\ entry[pdfs[s]].sid = s
      BY <1>1, <2>3 DEF SessInv
    <3>2. Early(s)'
      BY <1>1, <1>2, <3>1 DEF SessInv, Repaired
    <3>3. pdfs[s] \in 1..Len(entry') /\ entry'[pdfs[s]].sid = s
      BY <1>1, <3>1 DEF Kept
    <3> QED BY <2>3, <3>2, <3>3 DEF Delivered
  <2> QED BY <2>1, <2>2, <2>3
<1>5. pdfs'[s] # 0 => pdfs'[s] \in 1..Len(entry') /\ entry'[pdfs'[s]].sid = s
  BY <1>1 DEF SessInv, Kept
<1>6. sess'[s].terminal.v = "DONE" => sess'[s].terminal.k \in passed'
  BY <1>1 DEF SessInv, Kept
<1>7. sess'[s].here /\ sess'[s].kicked => Answered(s)'
  BY <1>1, AnsweredKept DEF SessInv
<1> QED BY <1>3, <1>4, <1>5, <1>6, <1>7 DEF SessInv

\* a step of the controller: it moves process p
LEMMA Goes ==
  ASSUME RInv, NEW p \in Procs, NEW r \in Proc,
         NEW c \in {"idle", "look", "claude", "verify", "persist", "cleanup",
                    "timeout", "end"}, Goto(p, r, c)
  PROVE  /\ proc' \in [Procs -> Proc] /\ \A q \in Procs \ {p} : proc'[q] = proc[q]
         /\ proc'[p].pc = c
         /\ c \in {"idle", "end"} => proc'[p].k = p
         /\ c \notin {"idle", "end"} => proc'[p].k = r.k /\ proc'[p].body = r.body
<1> DEFINE y == IF c \in {"idle", "end"} THEN [Idle(p) EXCEPT !.pc = c]
                ELSE [r EXCEPT !.pc = c]
<1>1. proc' = [proc EXCEPT ![p] = y] /\ proc \in [Procs -> Proc]
  BY DEF Goto, RInv, RepairTypes
<1>2. /\ y \in Proc /\ y.pc = c
      /\ c \in {"idle", "end"} => y.k = p
      /\ c \notin {"idle", "end"} => y.k = r.k /\ y.body = r.body
  <2>1. Idle(p) \in Proc /\ Idle(p).k = p
    BY Lengths, Files DEF Idle, Proc
  <2>2. \A x \in Proc : LET z == [x EXCEPT !.pc = c]
                        IN  z \in Proc /\ z.pc = c /\ z.k = x.k /\ z.body = x.body
    BY DEF Proc
  <2> HIDE DEF Idle
  <2>3. CASE c \in {"idle", "end"}
    BY <2>1, <2>2, <2>3 DEF Idle
  <2>4. CASE c \notin {"idle", "end"}
    BY <2>2, <2>4
  <2> QED BY <2>3, <2>4
<1> HIDE DEF y
<1> QED BY <1>1, <1>2

\* es: the entries, one of which may have got its claude id
Renewed(es) ==
  /\ es \in Seq(Entry) /\ Len(es) = Len(entry)
  /\ \A k \in 1..Len(entry) : es[k].sid = entry[k].sid

\* after _check_done was False the process has no claim in hand
LEMMA NotDoneStep ==
  ASSUME RInv, NEW p \in Procs, NEW r \in Proc, r.k \in 1..Len(entry), p \in K => r.k = p,
         NEW es, Renewed(es), NEW st \in [Sids -> File], NotDone(p, r, es, st)
  PROVE  /\ proc' \in [Procs -> Proc] /\ \A q \in Procs \ {p} : proc'[q] = proc[q]
         /\ active' \in 0..Len(entry) /\ status' \in [Sids -> File]
         /\ proc'[p].pc \in {"idle", "claude", "timeout", "end"}
         /\ proc'[p].pc \in {"idle", "end"} => proc'[p].k = p
         /\ proc'[p].pc \notin {"idle", "end"} => proc'[p].k = r.k
<1>1. active \in 0..Len(entry) /\ 0 \in 0..Len(entry)
  BY Lengths DEF RInv, RepairTypes
<1>2. es[r.k].sid \in Sids /\ r.k \in K
  BY Lengths DEF Renewed
<1>3. CASE FirstTurnNotDone(p, r, es, st)
  BY <1>1, <1>3, Goes DEF FirstTurnNotDone
<1>4. CASE CadenceNotDone(p, r, es, st)
  <2> DEFINE x == [r EXCEPT !.body = NoFile]
  <2>1. x \in Proc /\ x.k = r.k
    BY Files DEF Proc
  <2> HIDE DEF x
  <2>2. CASE /\ \E f \in TimeoutStatus(st[es[r.k].sid], r.k) :
                  status' = [st EXCEPT ![es[r.k].sid] = f]
             /\ active' = TimedOut(r.k)
             /\ Goto(p, x, "timeout")
    <3>1. TimeoutStatus(st[es[r.k].sid], r.k) \subseteq File
      BY <1>2, Files DEF TimeoutStatus
    <3>2. active' = 0 /\ status' \in [Sids -> File]
      BY <2>2, <3>1 DEF TimedOut
    <3> QED BY <1>1, <2>1, <2>2, <3>2, Goes
  <2>3. CASE /\ status' = st /\ active' = active
             /\ Goto(p, x, IF ~r.again /\ es[r.k].claude THEN "claude" ELSE "idle")
    <3>1. CASE Goto(p, x, "claude")
      BY <1>1, <2>1, <2>3, <3>1, Goes
    <3>2. CASE Goto(p, x, "idle")
      BY <1>1, <2>1, <2>3, <3>2, Goes
    <3> QED BY <2>3, <3>1, <3>2
  <2> QED BY <1>4, <2>2, <2>3 DEF CadenceNotDone, x
<1> QED BY <1>3, <1>4 DEF NotDone

\* _check_done raised: the process has no claim in hand either
LEMMA RaisesStep ==
  ASSUME RInv, NEW p \in Procs, NEW r \in Proc, p \in K => r.k = p,
         NEW es, Raises(p, r, es)
  PROVE  /\ proc' \in [Procs -> Proc] /\ \A q \in Procs \ {p} : proc'[q] = proc[q]
         /\ active' \in 0..Len(entry) /\ status' = status
         /\ proc'[p].pc \in {"idle", "end"} /\ proc'[p].k = p
<1>1. active \in 0..Len(entry) /\ 0 \in 0..Len(entry)
  BY Lengths DEF RInv, RepairTypes
<1>2. CASE FirstTurnNotDone(p, r, es, status)
  BY <1>1, <1>2, Goes DEF FirstTurnNotDone
<1>3. CASE Goto(p, r, "idle") /\ UNCHANGED <<active, status>>
  BY <1>1, <1>3, Goes
<1> QED BY <1>2, <1>3 DEF Raises

\* deliver_if_present gives a session that is there its own documents
LEMMA DeliverStep ==
  ASSUME RInv, NEW s \in Sids, Deliver(s)
  PROVE  /\ sess' \in [Sids -> Session] /\ marker' \subseteq Sids
         /\ \A t \in Sids :
              /\ sess'[t].here = sess[t].here /\ sess'[t].kicked = sess[t].kicked
              /\ sess'[t].login = sess[t].login /\ sess'[t].early = sess[t].early
              /\ sess'[t].terminal = sess[t].terminal
              /\ t \in marker' =>
                    \/ t \in marker /\ sess'[t].docs = sess[t].docs
                    \/ pdfs[t] # 0 /\ sess'[t].docs = {pdfs[t]}
<1>1. sess \in [Sids -> Session] /\ marker \subseteq Sids /\ pdfs[s] \in 0..MaxKicks
  BY DEF RInv, RepairTypes
<1>2. CASE ~Deliverable(s)
  BY <1>1, <1>2 DEF Deliver
<1>3. CASE Deliverable(s)
  <2>1. PICK d : d = {pdfs[s]}
    OBVIOUS
  <2>2. PICK y : y = [sess[s] EXCEPT !.docs = d]
    OBVIOUS
  <2>3. d \in SUBSET (0..MaxKicks) /\ sess[s] \in Session
    BY <1>1, <2>1
  <2>4. /\ y \in Session /\ y.login = sess[s].login /\ y.early = sess[s].early
        /\ y.docs = d /\ y.here = sess[s].here /\ y.kicked = sess[s].kicked
        /\ y.terminal = sess[s].terminal
    BY <2>2, <2>3, DocsField
  <2>5. /\ sess' = [sess EXCEPT ![s] = y]
        /\ marker' = marker \/ marker' = marker \cup {s}
        /\ pdfs[s] # 0
    BY <1>1, <1>3, <2>1, <2>2 DEF Deliver, Deliverable
  <2>6. sess'[s] = y /\ \A t \in Sids \ {s} : sess'[t] = sess[t]
    BY <1>1, <2>5
  <2>7. sess' \in [Sids -> Session] /\ marker' \subseteq Sids
    BY <1>1, <2>4, <2>5
  <2> QED BY <2>1, <2>4, <2>5, <2>6, <2>7
<1> QED BY <1>2, <1>3

LEMMA CheckStep ==
  ASSUME RInv, NEW p \in Procs, NEW r \in Proc, r.k \in 1..Len(entry), p \in K => r.k = p,
         NEW es, Renewed(es), entry' = es, Check(p, r, es),
         UNCHANGED <<enabled, kicker, pdfs, patched, passed>>
  PROVE  RInv'
<1>1. /\ es[r.k].sid \in Sids /\ r.k \in K /\ status \in [Sids -> File]
      /\ 0 \in 0..Len(entry)
  <2>1. es[r.k].sid = entry[r.k].sid /\ status \in [Sids -> File]
    BY DEF Renewed, RInv, RepairTypes
  <2> QED BY <2>1, Lengths
<1>2. PICK f : f = status[es[r.k].sid]
  OBVIOUS
<1>3. f \in File
  BY <1>1, <1>2
<1>4. /\ proc' \in [Procs -> Proc] /\ \A q \in Procs \ {p} : proc'[q] = proc[q]
      /\ active' \in 0..Len(entry) /\ status' \in [Sids -> File]
      /\ proc'[p].pc \in {"idle", "claude", "timeout", "end", "verify", "cleanup"}
      /\ proc'[p].pc \in {"idle", "end"} => proc'[p].k = p
      /\ proc'[p].pc \notin {"idle", "end"} => proc'[p].k = r.k
      /\ proc'[p].pc = "verify" => proc'[p].body.v = "DONE"
      /\ proc'[p].pc = "cleanup" => proc'[p].body.v = "NEED_HUMAN"
  <2> DEFINE x == [r EXCEPT !.body = f]
  <2>1. x \in Proc /\ x.k = r.k /\ x.body = f
    BY <1>3 DEF Proc
  <2> HIDE DEF x
  <2>2. CASE f.v = "DONE" /\ Goto(p, x, "verify") /\ UNCHANGED <<active, status>>
    BY <1>1, <2>1, <2>2, Goes DEF RInv, RepairTypes
  <2>3. CASE /\ f.v = "NEED_HUMAN" /\ active' = 0 /\ Goto(p, x, "cleanup")
             /\ UNCHANGED status
    BY <1>1, <2>1, <2>3, Goes
  <2>4. CASE NotDone(p, r, es, status)
    BY <1>1, <2>4, NotDoneStep
  <2>5. CASE Raises(p, r, es)
    BY <1>1, <2>5, RaisesStep
  <2> QED BY <1>2, <2>2, <2>3, <2>4, <2>5 DEF Check, x
<1>5. Kept
  BY Lengths DEF Kept, Renewed, RInv, RepairTypes
<1>6. Deliver(es[r.k].sid)
  BY DEF Check
<1>7. RepairTypes'
  BY <1>1, <1>4, <1>5, <1>6, DeliverStep DEF RInv, RepairTypes, Renewed
<1>8. \A q \in Procs : ProcInv(q)'
  <2>1. ProcInv(p)'
    BY <1>1, <1>4 DEF ProcInv, Renewed
  <2> QED BY <1>4, <1>5, <2>1, ProcKept
<1>9. \A s \in Sids : SessInv(s)'
  <2>1. \A s \in Sids : Repaired(s)' => Repaired(s)
    BY <1>5, RepairedKept DEF Renewed
  <2> QED BY <1>1, <1>5, <1>6, <2>1, DeliverStep, SessKept
<1> QED BY <1>7, <1>8, <1>9 DEF RInv, Analyzing
----------------------------------------------------------------------------
(* The callers                                                             *)

\* A caller changes its own session y and its own coroutine z.
LEMMA CallerKeeps ==
  ASSUME RInv, UNCHANGED <<enabled, entry, active, proc, status, pdfs, marker, patched, passed>>,
         NEW s \in Sids, NEW y \in Session, sess' = [sess EXCEPT ![s] = y],
         kicker' \in [Kickers -> Kicker], Analyzing',
         y.docs = sess[s].docs \/ (sess[s].login /\ y.docs = {0}),
         y.login => sess[s].login, sess[s].early => y.early,
         \A t \in Sids : Repaired(t)' => Repaired(t) \/ (t = s /\ (y.login => y.early)),
         y.terminal = sess[s].terminal \/ y.terminal = Refusal,
         y.here => sess[s].here,
         y.kicked => sess[s].kicked \/ Answered(s)',
         \A q \in Kickers : kicker[q].pc = "spawn" /\ kicker[q].why = "feedback"
                            => kicker'[q] = kicker[q]
  PROVE  RInv'
<1>1. Kept /\ sess \in [Sids -> Session]
  BY Lengths DEF Kept, RInv, RepairTypes
<1>2. sess'[s] = y /\ \A t \in Sids \ {s} : sess'[t] = sess[t]
  BY <1>1
<1>3. RepairTypes'
  BY <1>1 DEF RInv, RepairTypes
<1>4. \A p \in Procs : ProcInv(p)'
  BY <1>1, ProcKept
<1>5. SessInv(s)'
  <2>1. Repaired(s)' => Repaired(s) \/ Early(s)'
    BY <1>2 DEF Early
  <2> QED BY <1>1, <1>2, <2>1, SomeVerdict, SessKept
<1>6. \A t \in Sids \ {s} : SessInv(t)'
  BY <1>1, <1>2, SessKept
<1> QED BY <1>3, <1>4, <1>5, <1>6 DEF RInv

LEMMA LoginStep ==
  ASSUME RInv, NEW s \in Sids,
         LoginShows(s) \/ LoginSucceeds(s) \/ \E q \in Kickers : LoginFails(q, s)
  PROVE  RInv'
<1>1. sess \in [Sids -> Session] /\ sess[s] \in Session /\ kicker \in [Kickers -> Kicker]
  BY DEF RInv, RepairTypes
<1>2. ASSUME NEW y, y = [sess[s] EXCEPT !.docs = {0}] \/ y = [sess[s] EXCEPT !.login = FALSE, !.docs = {0}],
             sess' = [sess EXCEPT ![s] = y], sess[s].login, UNCHANGED kicker,
             UNCHANGED <<enabled, entry, active, proc, status, pdfs, marker, patched, passed>>
      PROVE  RInv'
  <2>1. /\ y \in Session /\ y.here = sess[s].here /\ y.kicked = sess[s].kicked
        /\ y.terminal = sess[s].terminal /\ y.docs = {0} /\ y.early = sess[s].early
    <3>1. PICK d, x : d = {0} /\ x = [sess[s] EXCEPT !.login = FALSE]
      OBVIOUS
    <3>2. d \in SUBSET (0..MaxKicks)
      BY <3>1, Lengths
    <3>3. /\ x \in Session /\ x.here = sess[s].here /\ x.kicked = sess[s].kicked
          /\ x.terminal = sess[s].terminal /\ x.early = sess[s].early
      BY <1>1, <3>1, OverField
    <3>4. CASE y = [sess[s] EXCEPT !.docs = d]
      BY <1>1, <3>1, <3>2, <3>4, DocsField
    <3>5. CASE y = [x EXCEPT !.docs = d]
      BY <3>1, <3>2, <3>3, <3>5, DocsField
    <3> QED BY <1>2, <3>1, <3>4, <3>5
  <2>2. Analyzing' /\ \A t \in Sids : Repaired(t)' => Repaired(t)
    BY <1>2 DEF Analyzing, RInv, Repaired
  <2> QED BY <1>1, <1>2, <2>1, <2>2, CallerKeeps
<1>3. CASE LoginShows(s)
  BY <1>2, <1>3 DEF LoginShows
<1>4. CASE LoginSucceeds(s)
  <2>1. PICK y : y = [sess[s] EXCEPT !.login = FALSE, !.docs = {0}]
    OBVIOUS
  <2>2. sess' = [sess EXCEPT ![s] = y]
    BY <1>1, <1>4, <2>1 DEF LoginSucceeds
  <2> QED BY <1>2, <1>4, <2>1, <2>2 DEF LoginSucceeds
<1>5. ASSUME NEW q \in Kickers, LoginFails(q, s) PROVE RInv'
  <2>1. PICK y : y = [sess[s] EXCEPT !.login = FALSE]
    OBVIOUS
  <2>2. /\ y \in Session /\ y.here = sess[s].here /\ y.kicked = sess[s].kicked
        /\ y.terminal = sess[s].terminal /\ y.docs = sess[s].docs
        /\ y.early = sess[s].early /\ ~y.login
    BY <1>1, <2>1, OverField
  <2>3. sess' = [sess EXCEPT ![s] = y]
    BY <1>1, <1>5, <2>1 DEF LoginFails
  <2>4. PICK z : z = [pc |-> "spawn", sid |-> s, why |-> "error"]
    OBVIOUS
  <2>5. z \in Kicker /\ z.pc = "spawn" /\ z.sid = s
    BY <2>4, NewKicker
  <2>6. \/ UNCHANGED kicker
        \/ kicker[q].pc = "free" /\ kicker' = [kicker EXCEPT ![q] = z]
    BY <1>5, <2>4 DEF LoginFails
  <2>7. /\ kicker' \in [Kickers -> Kicker]
        /\ \A x \in Kickers : kicker[x].pc = "spawn" => kicker'[x] = kicker[x]
        /\ \A x \in Kickers : kicker'[x] = kicker[x] \/ kicker'[x] = z
    BY <1>1, <2>5, <2>6
  <2>8. UNCHANGED <<enabled, entry, active, proc, status, pdfs, marker, patched, passed>>
    BY <1>5 DEF LoginFails
  <2>9. Analyzing' /\ \A t \in Sids : Repaired(t)' => Repaired(t) \/ t = s
    BY <2>5, <2>7, <2>8 DEF RInv, Analyzing, Repaired
  <2> QED BY <1>1, <2>2, <2>3, <2>7, <2>8, <2>9, CallerKeeps
<1> QED BY <1>3, <1>4, <1>5

\* The session of a feedback is told, or going to be told, what became of it.
LEMMA FeedbackStep ==
  ASSUME RInv, NEW q \in Kickers, (\E s \in Sids : Feedback(q, s)) \/ Analyzed(q)
  PROVE  RInv'
<1>1. /\ sess \in [Sids -> Session] /\ \A s \in Sids : sess[s] \in Session
      /\ kicker \in [Kickers -> Kicker]
  BY DEF RInv, RepairTypes
<1>2. ASSUME NEW s \in Sids, Feedback(q, s), enabled PROVE RInv'
  <2>1. PICK z, y : /\ z = [pc |-> "analyze", sid |-> s, why |-> "feedback"]
                    /\ y = [sess[s] EXCEPT !.early = sess[s].early \/ sess[s].login]
    OBVIOUS
  <2>2. z \in Kicker /\ z.pc = "analyze" /\ z.why = "feedback" /\ z.sid = s
    BY <2>1, NewKicker
  <2>3. kicker[q].pc = "free" /\ kicker' = [kicker EXCEPT ![q] = z]
    BY <1>2, <2>1 DEF Feedback
  <2>4. /\ kicker' \in [Kickers -> Kicker]
        /\ \A x \in Kickers : kicker[x].pc = "spawn" => kicker'[x] = kicker[x]
        /\ \A x \in Kickers : kicker'[x] = kicker[x] \/ kicker'[x] = z
    BY <1>1, <2>2, <2>3
  <2>5. UNCHANGED <<enabled, entry, active, proc, status, pdfs, marker, patched, passed>>
    BY <1>2 DEF Feedback
  <2>6. Analyzing' /\ \A t \in Sids : Repaired(t)' => Repaired(t) \/ t = s
    BY <2>2, <2>4, <2>5 DEF RInv, Analyzing, Repaired
  <2>7. sess' = [sess EXCEPT ![s] = y]
    BY <1>1, <1>2, <2>1 DEF Feedback
  <2>8. /\ y \in Session /\ y.here = sess[s].here /\ y.kicked = sess[s].kicked
        /\ y.terminal = sess[s].terminal /\ y.docs = sess[s].docs
        /\ y.login = sess[s].login /\ y.early = (sess[s].early \/ sess[s].login)
    BY <1>1, <2>1, EarlyField
  <2> QED BY <1>1, <2>4, <2>5, <2>6, <2>7, <2>8, CallerKeeps
<1>3. ASSUME NEW s \in Sids, Feedback(q, s), ~enabled PROVE RInv'
  <2> DEFINE x == [sess[s] EXCEPT !.fra = TRUE, !.kicked = TRUE]
             y == Told(x, Refusal)
  <2>1. /\ x \in Session /\ x.login = sess[s].login /\ x.early = sess[s].early
        /\ x.docs = sess[s].docs /\ x.here = sess[s].here
        /\ x.terminal = sess[s].terminal
    BY <1>1, FlagFields
  <2>2. sess' = [sess EXCEPT ![s] = y] /\ UNCHANGED kicker /\ sess[s].here
    BY <1>1, <1>3 DEF Feedback
  <2> HIDE DEF x
  <2>3. /\ y \in Session /\ y.login = sess[s].login /\ y.early = sess[s].early
        /\ y.docs = sess[s].docs /\ y.here /\ y.terminal = Refusal
    BY <2>1, <2>2, ToldFields, SomeVerdict
  <2> HIDE DEF y
  <2>4. Answered(s)'
    <3>1. sess'[s] = y
      BY <1>1, <2>2
    <3> QED BY <2>3, <3>1, SomeVerdict DEF Answered
  <2>5. UNCHANGED <<enabled, entry, active, proc, status, pdfs, marker, patched, passed>>
    BY <1>3 DEF Feedback
  <2>6. Analyzing' /\ \A t \in Sids : Repaired(t)' => Repaired(t)
    BY <2>2, <2>5 DEF RInv, Analyzing, Repaired
  <2> QED BY <1>1, <2>2, <2>3, <2>4, <2>5, <2>6, CallerKeeps
<1>4. CASE Analyzed(q)
  <2>1. PICK z, s : z = [kicker[q] EXCEPT !.pc = "spawn"] /\ s = kicker[q].sid
    OBVIOUS
  <2>2. /\ z \in Kicker /\ z.pc = "spawn" /\ z.sid = s /\ s \in Sids
        /\ z.why = kicker[q].why /\ kicker[q].pc = "analyze"
        /\ kicker' = [kicker EXCEPT ![q] = z]
    BY <1>1, <1>4, <2>1, Kicking DEF Analyzed
  <2> DEFINE y == [sess[s] EXCEPT !.fra = TRUE, !.kicked = TRUE]
  <2>3. /\ y \in Session /\ y.login = sess[s].login /\ y.early = sess[s].early
        /\ y.docs = sess[s].docs /\ y.here = sess[s].here
        /\ y.terminal = sess[s].terminal
    BY <1>1, <2>2, FlagFields
  <2>4. sess' = [sess EXCEPT ![s] = y]
    <3>1. sess' = [sess EXCEPT ![s].fra = TRUE, ![s].kicked = TRUE]
      BY <1>4, <2>1 DEF Analyzed
    <3> QED BY <1>1, <2>2, <3>1
  <2> HIDE DEF y
  <2>5. /\ kicker' \in [Kickers -> Kicker] /\ kicker'[q] = z
        /\ \A x \in Kickers \ {q} : kicker'[x] = kicker[x]
    BY <1>1, <2>2
  <2>6. UNCHANGED <<enabled, entry, active, proc, status, pdfs, marker, patched, passed>>
    BY <1>4 DEF Analyzed
  <2>7. /\ z.why = "feedback" /\ Analyzing'
        /\ \A t \in Sids : Repaired(t)' => Repaired(t)
    BY <2>1, <2>2, <2>5, <2>6 DEF RInv, Analyzing, Repaired
  <2>8. Answered(s)'
    BY <2>2, <2>5, <2>7 DEF Answered
  <2> QED BY <1>1, <2>2, <2>3, <2>4, <2>5, <2>6, <2>7, <2>8, CallerKeeps
<1> QED BY <1>2, <1>3, <1>4

\* _kick: a repair of its own, or the verdict of a request that was folded.
LEMMA KickStep ==
  ASSUME RInv, NEW q \in Kickers, Kick(q)
  PROVE  RInv'
<1>1. /\ sess \in [Sids -> Session] /\ \A t \in Sids : sess[t] \in Session
      /\ kicker \in [Kickers -> Kicker]
  BY DEF RInv, RepairTypes
<1>2. PICK s, w : s = kicker[q].sid /\ w = kicker[q].why
  OBVIOUS
<1>3. s \in Sids /\ w \in {"error", "feedback"} /\ kicker[q].pc = "spawn"
  BY <1>1, <1>2, Kicking DEF Kick
<1>4. /\ kicker' = [kicker EXCEPT ![q] = Gone] /\ kicker' \in [Kickers -> Kicker]
      /\ Gone.pc = "end" /\ Analyzing'
      /\ \A x \in Kickers \ {q} : kicker'[x] = kicker[x]
  <2>1. Gone \in Kicker /\ Gone.pc = "end"
    BY NewKicker DEF Gone
  <2>2. kicker' = [kicker EXCEPT ![q] = Gone]
    BY DEF Kick
  <2> QED BY <1>1, <2>1, <2>2 DEF RInv, Analyzing
<1>5. CASE active # 0 /\ sess' = [sess EXCEPT ![s] = Folded(sess[s], w)]
           /\ UNCHANGED <<entry, active, proc>>
  <2>1. Kept /\ UNCHANGED <<enabled, entry, active, proc, status, pdfs, marker, patched, passed>>
    BY <1>5, Lengths DEF Kick, Kept, RInv, RepairTypes
  <2>2. PICK y : y = Folded(sess[s], w)
    OBVIOUS
  <2>3. /\ y \in Session /\ y.login = sess[s].login /\ y.early = sess[s].early
        /\ y.docs = sess[s].docs
        /\ y.here = sess[s].here /\ y.kicked = sess[s].kicked
        /\ y.terminal = sess[s].terminal \/ y.terminal = Refusal
        /\ w = "feedback" /\ y.here => y.terminal = Refusal
    BY <1>1, <1>3, <2>2, ToldFields, SomeVerdict DEF Folded
  <2>4. sess'[s] = y /\ \A t \in Sids \ {s} : sess'[t] = sess[t]
    BY <1>1, <1>3, <1>5, <2>2
  <2>5. RepairTypes'
    <3>1. sess' \in [Sids -> Session]
      BY <1>1, <1>5, <2>2, <2>3
    <3> QED BY <1>4, <2>1, <3>1 DEF RInv, RepairTypes
  <2>6. \A p \in Procs : ProcInv(p)'
    BY <2>1, ProcKept
  <2>7. \A t \in Sids : Repaired(t)' => Repaired(t)
    BY <1>4, <2>1 DEF Repaired
  <2>8. \A t \in Sids \ {s} : SessInv(t)'
    BY <1>2, <1>4, <2>1, <2>4, <2>7, SessKept
  <2>9. SessInv(s)'
    <3>1. CASE w = "feedback" /\ y.here
      <4>1. Answered(s)'
        BY <2>3, <2>4, <3>1, SomeVerdict DEF Answered
      <4> QED BY <1>1, <1>3, <2>1, <2>3, <2>4, <2>7, <4>1, SomeVerdict, SessKept
    <3>2. CASE w # "feedback"
      <4>1. \A x \in Kickers : kicker[x].pc = "spawn" /\ kicker[x].sid = s
                               /\ kicker[x].why = "feedback" => kicker'[x] = kicker[x]
        BY <1>2, <1>4, <3>2
      <4> QED BY <1>1, <1>3, <2>1, <2>3, <2>4, <2>7, <4>1, SomeVerdict, SessKept
    <3>3. CASE ~y.here
      <4>1. SessInv(s)
        BY <1>3 DEF RInv
      <4> QED BY <1>3, <2>1, <2>3, <2>4, <2>7, <3>3, <4>1, SomeVerdict
              DEF SessInv, Delivered, Early
    <3> QED BY <3>1, <3>2, <3>3
  <2> QED BY <1>4, <2>5, <2>6, <2>8, <2>9 DEF RInv
<1>6. ASSUME active = 0, Len(entry) + 1 <= MaxKicks,
             entry' = Append(entry, [sid |-> s, why |-> w, claude |-> FALSE]),
             active' = Len(entry) + 1,
             proc' = [proc EXCEPT ![Len(entry) + 1] = [@ EXCEPT !.pc = "claude"]],
             sess' = [sess EXCEPT ![s].kicked = TRUE]
      PROVE  RInv'
  <2>1. PICK e, k : e = [sid |-> s, why |-> w, claude |-> FALSE] /\ k = Len(entry) + 1
    OBVIOUS
  <2>2. e \in Entry /\ e.sid = s
    BY <1>3, <2>1 DEF Entry
  <2>3. /\ entry' \in Seq(Entry) /\ Len(entry') = k /\ k \in K /\ k \in 1..Len(entry')
        /\ entry'[k] = e /\ \A i \in 1..Len(entry) : entry'[i] = entry[i]
    <3>1. /\ entry \in Seq(Entry) /\ Len(entry) \in Nat /\ MaxKicks \in Nat
          /\ entry' = Append(entry, e)
      BY <1>6, <2>1, Lengths DEF RInv, RepairTypes
    <3> QED BY <1>6, <2>1, <2>2, <3>1 DEF K
  <2>4. Kept /\ UNCHANGED <<enabled, status, pdfs, marker, patched, passed>>
    BY <1>6, <2>1, <2>3, Lengths DEF Kick, Kept
  <2>5. /\ proc' \in [Procs -> Proc] /\ \A p \in Procs \ {k} : proc'[p] = proc[p]
        /\ proc'[k].pc = "claude" /\ proc'[k].k = proc[k].k
    <3>1. proc \in [Procs -> Proc] /\ k \in Procs
      BY <2>3 DEF RInv, RepairTypes, Procs
    <3>2. PICK x : x = [proc[k] EXCEPT !.pc = "claude"]
      OBVIOUS
    <3>3. x \in Proc /\ x.pc = "claude" /\ x.k = proc[k].k
      BY <3>1, <3>2 DEF Proc
    <3>4. proc' = [proc EXCEPT ![k] = x]
      BY <1>6, <2>1, <3>2
    <3> QED BY <3>1, <3>3, <3>4
  <2>6. PICK y : y = [sess[s] EXCEPT !.kicked = TRUE]
    OBVIOUS
  <2>7. /\ y \in Session /\ y.login = sess[s].login /\ y.early = sess[s].early
        /\ y.docs = sess[s].docs
        /\ y.here = sess[s].here /\ y.terminal = sess[s].terminal
    BY <1>1, <1>3, <2>6, KickedField
  <2>8. sess' = [sess EXCEPT ![s] = y]
    BY <1>1, <1>3, <1>6, <2>6
  <2>9. sess'[s] = y /\ \A t \in Sids \ {s} : sess'[t] = sess[t]
    BY <1>1, <1>3, <2>8
  <2>10. RepairTypes'
    <3>1. sess' \in [Sids -> Session]
      BY <1>1, <2>7, <2>8
    <3>2. active' \in 0..Len(entry') /\ Len(entry') <= MaxKicks
      BY <1>6, <2>1, <2>3
    <3> QED BY <1>4, <2>3, <2>4, <2>5, <3>1, <3>2 DEF RInv, RepairTypes
  <2>11. \A p \in Procs : ProcInv(p)'
    <3>1. ProcInv(k)'
      <4>1. k \in K /\ ProcInv(k)
        BY <2>3 DEF RInv, Procs
      <4> QED BY <2>3, <2>5, <4>1 DEF ProcInv
    <3> QED BY <2>4, <2>5, <3>1, ProcKept
  <2>12. \A t \in Sids : SessInv(t)'
    <3>1. Answered(s)'
      BY <2>2, <2>3 DEF Answered
    <3>2. \A t \in Sids : Repaired(t)' => Repaired(t)
      <4>1. \A i \in 1..Len(entry') : i \in 1..Len(entry) \/ i = k
        BY <2>1, <2>3, Lengths
      <4>2. Repaired(s)
        BY <1>2, <1>3 DEF Repaired
      <4> QED BY <1>4, <2>2, <2>3, <4>1, <4>2 DEF Repaired
    <3>3. SessInv(s)'
      BY <1>1, <1>3, <2>4, <2>7, <2>9, <3>1, <3>2, SessKept
    <3>4. \A t \in Sids \ {s} : SessInv(t)'
      BY <1>2, <1>4, <2>4, <2>9, <3>2, SessKept
    <3> QED BY <3>3, <3>4
  <2> QED BY <1>4, <2>10, <2>11, <2>12 DEF RInv
<1> QED BY <1>2, <1>5, <1>6 DEF Kick

\* _prune_stale takes the session away, and with it the kick of its login.
LEMMA PruneStep ==
  ASSUME RInv, NEW s \in Sids, Prune(s)
  PROVE  RInv'
<1>1. /\ sess \in [Sids -> Session] /\ sess[s] \in Session
      /\ kicker \in [Kickers -> Kicker]
  BY DEF RInv, RepairTypes
<1>2. /\ kicker' \in [Kickers -> Kicker] /\ Analyzing'
      /\ \A q \in Kickers : kicker[q].pc = "spawn" /\ kicker[q].why = "feedback"
                            => kicker'[q] = kicker[q]
      /\ \A t \in Sids : Repaired(t)' => Repaired(t)
  <2>1. \A q \in Kickers : kicker'[q] = kicker[q] \/ kicker'[q] = Gone
    BY DEF Prune
  <2>2. Gone \in Kicker /\ Gone.pc = "end"
    BY NewKicker DEF Gone
  <2>3. kicker' \in [Kickers -> Kicker]
    BY <1>1, <2>2 DEF Prune
  <2>4. \A q \in Kickers : kicker[q].why = "feedback" =>
           kicker[q] # [pc |-> "spawn", sid |-> s, why |-> "error"]
    OBVIOUS
  <2>5. \A t \in Sids : Repaired(t)' => Repaired(t)
    BY <2>1, <2>2 DEF Prune, Repaired
  <2> QED BY <1>1, <2>1, <2>2, <2>3, <2>4, <2>5 DEF Prune, Analyzing, RInv
<1> DEFINE y == [sess[s] EXCEPT !.here = FALSE]
<1>3. /\ y \in Session /\ y.login = sess[s].login /\ y.early = sess[s].early
      /\ y.docs = sess[s].docs
      /\ ~y.here /\ y.kicked = sess[s].kicked /\ y.terminal = sess[s].terminal
  BY <1>1, HereField
<1>4. sess' = [sess EXCEPT ![s] = y]
  BY <1>1 DEF Prune
<1>5. UNCHANGED <<enabled, entry, active, proc, status, pdfs, marker, patched, passed>>
  BY DEF Prune
<1> HIDE DEF y
<1> QED BY <1>1, <1>2, <1>3, <1>4, <1>5, CallerKeeps
----------------------------------------------------------------------------
(* The controller, and claude                                              *)

\* One process moves; no session is touched.
LEMMA ControllerKeeps ==
  ASSUME RInv, UNCHANGED <<enabled, sess, kicker, entry, pdfs, marker, patched>>,
         passed \subseteq passed', passed' \subseteq K,
         active' \in 0..Len(entry), status' \in [Sids -> File],
         NEW p \in Procs, proc' \in [Procs -> Proc],
         \A q \in Procs \ {p} : proc'[q] = proc[q], ProcInv(p)'
  PROVE  RInv'
<1>1. Kept
  BY Lengths DEF Kept, RInv, RepairTypes
<1>2. RepairTypes' /\ Analyzing'
  BY DEF RInv, RepairTypes, Analyzing
<1>3. \A q \in Procs : ProcInv(q)'
  BY <1>1, ProcKept
<1>4. \A s \in Sids : SessInv(s)'
  BY <1>1, SessKept, RepairedKept
<1> QED BY <1>2, <1>3, <1>4 DEF RInv

LEMMA ProcFacts ==
  ASSUME RInv, NEW p \in Procs
  PROVE  /\ proc \in [Procs -> Proc] /\ proc[p] \in Proc /\ ProcInv(p)
         /\ active \in 0..Len(entry) /\ 0 \in 0..Len(entry)
         /\ status \in [Sids -> File] /\ passed \subseteq K /\ Cadence \in Procs
         /\ p \in K => p # Cadence
         /\ Renewed(entry)
<1>1. 0 \in 0..Len(entry)
  BY Lengths
<1>2. Cadence \in Procs /\ Cadence \notin K
  BY DEF Procs, Cadence, K
<1> QED BY <1>1, <1>2 DEF RInv, RepairTypes, Renewed

LEMMA ClaudeStep ==
  ASSUME RInv, NEW p \in Procs, ClaudeWorks(p)
  PROVE  RInv'
<1>1. PICK k, s : k = proc[p].k /\ s = entry[k].sid
  OBVIOUS
<1>2. /\ k \in 1..Len(entry) /\ k \in K /\ s \in Sids /\ k \in 0..MaxKicks
      /\ entry[k].sid = s
  BY <1>1, ProcFacts, Lengths DEF ClaudeWorks, ProcInv
<1>3. /\ UNCHANGED <<enabled, sess, kicker, entry, active, proc, marker, passed>>
      /\ status' \in [Sids -> File] /\ patched' \in BOOLEAN
      /\ pdfs' = pdfs \/ pdfs' = [pdfs EXCEPT ![s] = k]
  <2>1. patched \in BOOLEAN /\ status \in [Sids -> File]
    BY DEF RInv, RepairTypes
  <2> QED BY <1>1, <1>2, <2>1, Files DEF ClaudeWorks
<1>4. Kept
  BY <1>3, Lengths DEF Kept, RInv, RepairTypes
<1>5. /\ pdfs' \in [Sids -> 0..MaxKicks]
      /\ \A t \in Sids : pdfs'[t] = pdfs[t] \/ (t = s /\ pdfs'[t] = k)
  BY <1>2, <1>3 DEF RInv, RepairTypes
<1>6. RepairTypes' /\ Analyzing'
  BY <1>3, <1>5 DEF RInv, RepairTypes, Analyzing
<1>7. \A q \in Procs : ProcInv(q)'
  BY <1>3, <1>4, ProcKept
<1>8. \A t \in Sids : SessInv(t)'
  BY <1>2, <1>3, <1>4, <1>5, SessKept, RepairedKept
<1> QED BY <1>6, <1>7, <1>8 DEF RInv

\* The verifier answered: only a claim it passes is persisted.
LEMMA VerifiedStep ==
  ASSUME RInv, NEW p \in Procs, Verified(p)
  PROVE  RInv'
<1>1. /\ proc[p] \in Proc /\ proc[p].k \in 1..Len(entry) /\ proc[p].k \in K
      /\ p \in K => proc[p].k = p
      /\ proc[p].body.v = "DONE"
  BY ProcFacts, Lengths DEF Verified, ProcInv
<1>2. UNCHANGED <<enabled, sess, kicker, entry, pdfs, marker, patched>>
  BY DEF Verified
<1>3. CASE /\ passed' = passed \cup {proc[p].k} /\ Goto(p, proc[p], "persist")
           /\ UNCHANGED <<active, status>>
  <2>1. /\ proc' \in [Procs -> Proc] /\ \A q \in Procs \ {p} : proc'[q] = proc[q]
        /\ proc'[p].pc = "persist" /\ proc'[p].k = proc[p].k
        /\ proc'[p].body = proc[p].body
    BY <1>1, <1>3, Goes
  <2>2. ProcInv(p)'
    BY <1>1, <1>2, <1>3, <2>1 DEF ProcInv
  <2> QED BY <1>1, <1>2, <1>3, <2>1, <2>2, ProcFacts, ControllerKeeps
<1>4. CASE Refused(p) /\ UNCHANGED passed
  <2>1. PICK st : st = [status EXCEPT ![Sid(p)] = NoFile]
    OBVIOUS
  <2>2. st \in [Sids -> File] /\ NotDone(p, proc[p], entry, st)
    BY <1>4, <2>1, Files, ProcFacts DEF Refused
  <2>3. /\ proc' \in [Procs -> Proc] /\ \A q \in Procs \ {p} : proc'[q] = proc[q]
        /\ active' \in 0..Len(entry) /\ status' \in [Sids -> File]
        /\ proc'[p].pc \in {"idle", "claude", "timeout", "end"}
        /\ proc'[p].pc \in {"idle", "end"} => proc'[p].k = p
        /\ proc'[p].pc \notin {"idle", "end"} => proc'[p].k = proc[p].k
    BY <1>1, <2>2, ProcFacts, NotDoneStep
  <2>4. ProcInv(p)'
    BY <1>1, <1>2, <2>3 DEF ProcInv
  <2> QED BY <1>2, <1>4, <2>3, <2>4, ProcFacts, ControllerKeeps
<1> QED BY <1>3, <1>4 DEF Verified

\* The patch is recorded, the documents go to the session.
LEMMA PersistedStep ==
  ASSUME RInv, NEW p \in Procs, Persisted(p)
  PROVE  RInv'
<1>1. /\ proc[p] \in Proc /\ proc[p].k \in 1..Len(entry) /\ proc[p].k \in K
      /\ p \in K => proc[p].k = p
      /\ proc[p].body.v = "DONE" /\ proc[p].k \in passed
  BY ProcFacts, Lengths DEF Persisted, ProcInv
<1>2. UNCHANGED <<enabled, kicker, entry, status, pdfs, patched, passed>> /\ active' = 0
  BY DEF Persisted
<1>3. Deliver(Sid(p)) /\ Sid(p) \in Sids
  BY <1>1, Lengths DEF Persisted, Sid
<1>4. /\ proc' \in [Procs -> Proc] /\ \A q \in Procs \ {p} : proc'[q] = proc[q]
      /\ proc'[p].pc = "cleanup" /\ proc'[p].k = proc[p].k
      /\ proc'[p].body = proc[p].body
  BY <1>1, Goes DEF Persisted
<1>5. Kept
  BY <1>2, Lengths DEF Kept, RInv, RepairTypes
<1>6. RepairTypes' /\ Analyzing'
  BY <1>2, <1>3, <1>4, ProcFacts, DeliverStep DEF RInv, RepairTypes, Analyzing
<1>7. \A q \in Procs : ProcInv(q)'
  <2>1. ProcInv(p)'
    BY <1>1, <1>2, <1>4 DEF ProcInv
  <2> QED BY <1>4, <1>5, <2>1, ProcKept
<1>8. \A s \in Sids : SessInv(s)'
  BY <1>2, <1>3, <1>5, DeliverStep, SessKept, RepairedKept
<1> QED BY <1>6, <1>7, <1>8 DEF RInv

\* publish_repair_done: the verdict reaches the session, if it is there.
LEMMA ConcludedStep ==
  ASSUME RInv, NEW p \in Procs, Concluded(p)
  PROVE  RInv'
<1>1. /\ proc[p] \in Proc /\ proc[p].k \in 1..Len(entry) /\ proc[p].k \in K
      /\ proc[p].body \in File /\ proc[p].body.v \in {"DONE", "NEED_HUMAN"}
      /\ proc[p].body.v = "DONE" => proc[p].k \in passed
  <2>1. proc[p].body \in File
    BY ProcFacts DEF Proc
  <2> QED BY <2>1, ProcFacts, Lengths DEF Concluded, ProcInv
<1>2. UNCHANGED <<enabled, kicker, entry, active, status, pdfs, marker, patched, passed>>
  BY DEF Concluded
<1>3. PICK s, v : s = Sid(p) /\ v = [v |-> proc[p].body.v, k |-> proc[p].k, by |-> proc[p].body.by]
  OBVIOUS
<1>4. /\ s \in Sids /\ v \in Verdict /\ v # NoVerdict
      /\ v.v = "DONE" => v.k \in passed
  BY <1>1, <1>3, SomeVerdict, Lengths DEF Sid
<1>5. /\ proc' \in [Procs -> Proc] /\ \A q \in Procs \ {p} : proc'[q] = proc[q]
      /\ proc'[p].pc \in {"idle", "end"} /\ proc'[p].k = p
  <2>1. Goto(p, proc[p], "idle") \/ Goto(p, proc[p], "end")
    BY DEF Concluded
  <2> QED BY <1>1, <2>1, Goes
<1>6. Kept /\ sess \in [Sids -> Session] /\ sess[s] \in Session
  BY <1>2, <1>4, Lengths DEF Kept, RInv, RepairTypes
<1>7. PICK y : y = Told(sess[s], v)
  OBVIOUS
<1>8. /\ y \in Session /\ y.login = sess[s].login /\ y.early = sess[s].early
      /\ y.docs = sess[s].docs
      /\ y.here = sess[s].here /\ y.kicked = sess[s].kicked
      /\ y.terminal = v \/ y.terminal = sess[s].terminal
  BY <1>4, <1>6, <1>7, ToldFields
<1>9. sess' = [sess EXCEPT ![s] = y]
  BY <1>3, <1>7 DEF Concluded
<1>10. sess'[s] = y /\ \A t \in Sids \ {s} : sess'[t] = sess[t]
  BY <1>4, <1>6, <1>9
<1>11. RepairTypes' /\ Analyzing'
  <2>1. sess' \in [Sids -> Session]
    BY <1>6, <1>8, <1>9
  <2> QED BY <1>2, <1>5, <2>1 DEF RInv, RepairTypes, Analyzing
<1>12. \A q \in Procs : ProcInv(q)'
  <2>1. ProcInv(p)'
    BY <1>5 DEF ProcInv
  <2> QED BY <1>5, <1>6, <2>1, ProcKept
<1>13. \A t \in Sids : SessInv(t)'
  <2>1. SessInv(s)'
    <3>1. /\ s \in marker' => s \in marker /\ sess'[s].docs = sess[s].docs
          /\ sess'[s].login = sess[s].login /\ sess'[s].early = sess[s].early
          /\ pdfs'[s] = pdfs[s] /\ kicker' = kicker
          /\ \/ sess'[s].terminal = sess[s].terminal
             \/ /\ sess'[s].terminal # NoVerdict
                /\ sess'[s].terminal.v = "DONE" => sess'[s].terminal.k \in passed'
          /\ sess'[s].here => sess[s].here
          /\ sess'[s].kicked => sess[s].kicked
      BY <1>2, <1>4, <1>8, <1>10
    <3>2. Repaired(s)' => Repaired(s)
      BY <1>2, <1>4, <1>6, RepairedKept
    <3> QED BY <1>4, <1>6, <3>1, <3>2, SessKept
  <2>2. \A t \in Sids \ {s} : SessInv(t)'
    BY <1>2, <1>6, <1>10, SessKept, RepairedKept
  <2> QED BY <2>1, <2>2
<1> QED BY <1>11, <1>12, <1>13 DEF RInv

\* The id of a claude goes to an entry; its session stays.
LEMMA EntryRenewed ==
  ASSUME RInv, NEW es,
         \/ es = entry
         \/ active # 0 /\ es = [entry EXCEPT ![active].claude = TRUE]
  PROVE  Renewed(es)
<1>1. Renewed(entry) /\ active \in 0..Len(entry) /\ Len(entry) \in Nat
  BY Lengths DEF Renewed, RInv, RepairTypes
<1>2. ASSUME active # 0, es = [entry EXCEPT ![active].claude = TRUE] PROVE Renewed(es)
  <2>1. active \in 1..Len(entry) /\ entry \in Seq(Entry) /\ entry[active] \in Entry
    BY <1>1, <1>2, Lengths DEF Renewed
  <2>2. PICK e : e = [entry[active] EXCEPT !.claude = TRUE]
    OBVIOUS
  <2>3. e \in Entry /\ e.sid = entry[active].sid
    BY <2>1, <2>2 DEF Entry
  <2>4. es = [entry EXCEPT ![active] = e]
    BY <1>2, <2>2
  <2> QED BY <2>1, <2>3, <2>4 DEF Renewed
<1> QED BY <1>1, <1>2

\* The first turn of a repair ended: its id goes to whatever entry is active now.
LEMMA FirstTurnStep ==
  ASSUME RInv, NEW k \in K, FirstTurnEnds(k)
  PROVE  RInv'
<1>1. /\ k \in Procs /\ proc[k] \in Proc /\ proc[k].k = k /\ k \in 1..Len(entry)
  BY ProcFacts DEF FirstTurnEnds, Procs, ProcInv
<1>2. PICK ok \in BOOLEAN : \E es :
        /\ es = IF ok /\ active # 0 THEN [entry EXCEPT ![active].claude = TRUE] ELSE entry
        /\ entry' = es /\ Check(k, proc[k], es)
  BY DEF FirstTurnEnds
<1>3. PICK es :
        /\ es = IF ok /\ active # 0 THEN [entry EXCEPT ![active].claude = TRUE] ELSE entry
        /\ entry' = es /\ Check(k, proc[k], es)
  BY <1>2
<1>4. Renewed(es)
  BY <1>1, <1>3, EntryRenewed
<1>5. UNCHANGED <<enabled, kicker, pdfs, patched, passed>>
  BY DEF FirstTurnEnds
<1> QED BY <1>1, <1>3, <1>4, <1>5, CheckStep

LEMMA LookStep ==
  ASSUME RInv, Look
  PROVE  RInv'
<1>1. /\ Cadence \in Procs /\ proc[Cadence] \in Proc /\ Cadence \notin K
      /\ proc[Cadence].k \in 1..Len(entry) /\ Renewed(entry)
  BY ProcFacts DEF Look, ProcInv, Procs, Cadence, K
<1> QED BY <1>1, CheckStep DEF Look

\* The other steps of the cadence loop.
LEMMA CadenceStep ==
  ASSUME RInv, Tick \/ Skipped \/ ResumeEnds \/ TimeoutEnds
  PROVE  RInv'
<1>1. /\ Cadence \in Procs /\ Cadence \notin K /\ proc[Cadence] \in Proc /\ ProcInv(Cadence)
      /\ active \in 0..Len(entry) /\ 0 \in 0..Len(entry) /\ status \in [Sids -> File]
      /\ passed \subseteq K /\ Renewed(entry)
  BY ProcFacts DEF Procs, Cadence, K
<1>2. CASE Tick
  <2>1. PICK x : x = [proc[Cadence] EXCEPT !.k = active]
    OBVIOUS
  <2>2. x \in Proc /\ x.k = active /\ active \in 1..Len(entry)
    <3>1. active \in 0..MaxKicks /\ active \in 1..Len(entry)
      BY <1>1, <1>2, Lengths DEF Tick
    <3> QED BY <1>1, <2>1, <3>1 DEF Proc
  <2>3. /\ Goto(Cadence, x, "look")
        /\ UNCHANGED <<enabled, sess, kicker, entry, active, status, pdfs, marker, patched, passed>>
    BY <1>2, <2>1 DEF Tick
  <2>4. /\ proc' \in [Procs -> Proc] /\ \A q \in Procs \ {Cadence} : proc'[q] = proc[q]
        /\ proc'[Cadence].pc = "look" /\ proc'[Cadence].k = active
    BY <1>1, <2>2, <2>3, Goes
  <2>5. ProcInv(Cadence)'
    BY <1>1, <2>2, <2>3, <2>4 DEF ProcInv
  <2> QED BY <1>1, <2>3, <2>4, <2>5, ControllerKeeps
<1>3. ASSUME Goto(Cadence, proc[Cadence], "idle"),
             UNCHANGED <<enabled, sess, kicker, entry, active, status, pdfs, marker,
                         patched, passed>>
      PROVE  RInv'
  <2>1. /\ proc' \in [Procs -> Proc] /\ \A q \in Procs \ {Cadence} : proc'[q] = proc[q]
        /\ proc'[Cadence].pc = "idle"
    BY <1>1, <1>3, Goes
  <2>2. ProcInv(Cadence)'
    BY <1>1, <2>1 DEF ProcInv
  <2> QED BY <1>1, <1>3, <2>1, <2>2, ControllerKeeps
<1>4. CASE ResumeEnds
  <2>1. CASE Check(Cadence, [proc[Cadence] EXCEPT !.again = TRUE], entry)
    <3>1. PICK x : x = [proc[Cadence] EXCEPT !.again = TRUE]
      OBVIOUS
    <3>2. x \in Proc /\ x.k = proc[Cadence].k
      BY <1>1, <3>1 DEF Proc
    <3>3. proc[Cadence].k \in 1..Len(entry)
      BY <1>1, <1>4 DEF ResumeEnds, ProcInv
    <3>4. UNCHANGED <<enabled, kicker, entry, pdfs, patched, passed>>
      BY <1>4 DEF ResumeEnds
    <3> QED BY <1>1, <2>1, <3>1, <3>2, <3>3, <3>4, CheckStep
  <2> QED BY <1>3, <1>4, <2>1 DEF ResumeEnds
<1>5. CASE TimeoutEnds \/ Skipped
  BY <1>3, <1>5 DEF TimeoutEnds, Skipped
<1> QED BY <1>2, <1>4, <1>5
----------------------------------------------------------------------------
LEMMA RInitInv == Init => RInv
<1> SUFFICES ASSUME Init PROVE RInv
  OBVIOUS
<1>1. Len(entry) = 0 /\ entry \in Seq(Entry)
  BY DEF Init
<1>2. MaxKicks \in Nat /\ 0 <= MaxKicks
  BY RepairConstants
<1>3. \A p \in Procs : Idle(p) \in Proc /\ Idle(p).k = p /\ Idle(p).pc = "idle"
  BY <1>2, Files DEF Idle, Proc, Procs, K, Cadence
<1>4. RepairTypes
  <2>1. PICK x : x = [here |-> TRUE, login |-> TRUE, early |-> FALSE, docs |-> {},
                      kicked |-> FALSE, fra |-> FALSE, terminal |-> NoVerdict]
    OBVIOUS
  <2>2. x \in Session
    BY <2>1, SomeVerdict DEF Session
  <2>3. sess \in [Sids -> Session]
    BY <2>1, <2>2 DEF Init
  <2>4. kicker \in [Kickers -> Kicker] /\ proc \in [Procs -> Proc] /\ status \in [Sids -> File]
    BY <1>3, NewKicker, Files DEF Init
  <2>5. /\ pdfs \in [Sids -> 0..MaxKicks] /\ marker \subseteq Sids /\ patched \in BOOLEAN
        /\ passed \subseteq K /\ enabled \in BOOLEAN /\ active \in 0..Len(entry)
    <3>1. 0 \in 0..MaxKicks /\ 0 \in 0..Len(entry)
      BY <1>1, <1>2
    <3> QED BY <3>1 DEF Init
  <2> QED BY <1>1, <1>2, <2>3, <2>4, <2>5 DEF RepairTypes
<1>5. \A p \in Procs : ProcInv(p)
  BY <1>3 DEF Init, ProcInv
<1>6. \A s \in Sids : SessInv(s)
  <2> TAKE s \in Sids
  <2>1. /\ sess[s].terminal = NoVerdict /\ sess[s].kicked = FALSE
        /\ s \notin marker /\ pdfs[s] = 0 /\ ~Repaired(s)
    BY <1>1 DEF Init, Repaired, Free
  <2>2. NoVerdict.v # "DONE"
    BY DEF NoVerdict
  <2> QED BY <2>1, <2>2 DEF SessInv
<1>7. Analyzing
  BY DEF Init, Analyzing, Free
<1> QED BY <1>4, <1>5, <1>6, <1>7 DEF RInv

LEMMA RNextInv == RInv /\ [Next]_vars => RInv'
<1> SUFFICES ASSUME RInv, [Next]_vars PROVE RInv'
  OBVIOUS
<1>1. CASE UNCHANGED vars
  <2>1. Kept /\ RepairTypes' /\ Analyzing'
    BY <1>1, Lengths DEF vars, RInv, RepairTypes, Analyzing, Kept
  <2>2. \A p \in Procs : ProcInv(p)'
    BY <1>1, <2>1, ProcKept DEF vars
  <2>3. \A s \in Sids : SessInv(s)'
    BY <1>1, <2>1, SessKept, RepairedKept DEF vars
  <2> QED BY <2>1, <2>2, <2>3 DEF RInv
<1>2. CASE Callers
  BY <1>2, LoginStep, PruneStep, FeedbackStep, KickStep DEF Callers
<1>3. CASE Controller
  BY <1>3, FirstTurnStep, VerifiedStep, PersistedStep, ConcludedStep, LookStep, CadenceStep
     DEF Controller
<1>4. CASE \E p \in Procs : ClaudeWorks(p)
  BY <1>4, ClaudeStep
<1> QED BY <1>1, <1>2, <1>3, <1>4 DEF Next

LEMMA RInvariance == Spec => []RInv
BY RInitInv, RNextInv, PTL DEF Spec

\* The state of the controller is well-formed, and delivered.json, which ends all
\* delivery to a session, is only written for documents the session got from a
\* repair of its own (repair_deliver.py:32-78).
THEOREM RepairInvProved == Spec => []RepairInv
<1>1. RInv => RepairInv
  BY DEF RInv, SessInv, Delivered, RepairTypes, RepairInv, MarkerMeansDelivered
<1> QED BY <1>1, RInvariance, PTL

\* A session is told DONE only of a repair whose claim the verifier passed, however
\* the two checkers, claude's rewriting of STATUS, timeouts and newer repairs of the
\* carrier interleave (auto_repair.py:623-756, 893-935, 965-1027).
THEOREM DoneVerdictVerifiedProved == Spec => []DoneVerdictVerified
<1>1. RInv => DoneVerdictVerified
  BY DEF RInv, SessInv, DoneVerdictVerified
<1> QED BY <1>1, RInvariance, PTL

\* A session whose page waits for a repair has one, its verdict, or a request that
\* is still going to kick one, whatever is folded, pruned or switched off
\* (auto_repair.py:103-222, feedback_recovery.py).
THEOREM KickedIsAnsweredProved == Spec => []KickedIsAnswered
<1>1. RInv => KickedIsAnswered
  BY DEF RInv, SessInv, Answered, KickedIsAnswered
<1> QED BY <1>1, RInvariance, PTL
----------------------------------------------------------------------------
(* Whose STATUS a verdict was read from                                    *)

\* k is a repair of session s
OfSession(k, s) == k \in 1..Len(entry) /\ entry[k].sid = s

Claiming == {"verify", "persist", "cleanup"}

\* inductive with RInv: a file in the directory of a session is by a claude of its
\* own, and so is the claim that a process has read there and carries over its awaits
Owned ==
  /\ \A s \in Sids : status[s].v # "none" => OfSession(status[s].by, s)
  /\ \A p \in Procs : proc[p].pc \in Claiming => OfSession(proc[p].body.by, Sid(p))
  /\ \A s \in Sids : sess[s].terminal.k # 0 =>
        OfSession(sess[s].terminal.k, s) /\ OfSession(sess[s].terminal.by, s)

LEMMA OwnedKept ==
  ASSUME RInv, Owned, Kept,
         \A s \in Sids : \/ status'[s] = status[s] \/ status'[s].v = "none"
                         \/ OfSession(status'[s].by, s),
         \A p \in Procs : proc'[p].pc \in Claiming =>
            \/ /\ proc[p].pc \in Claiming
               /\ proc'[p].k = proc[p].k /\ proc'[p].body = proc[p].body
            \/ /\ proc'[p].k \in 1..Len(entry)
               /\ OfSession(proc'[p].body.by, entry[proc'[p].k].sid),
         \A s \in Sids : \/ sess'[s].terminal = sess[s].terminal
                         \/ sess'[s].terminal.k = 0
                         \/ /\ OfSession(sess'[s].terminal.k, s)
                            /\ OfSession(sess'[s].terminal.by, s)
  PROVE  Owned'
<1>1. \A k, s : OfSession(k, s) => k \in 1..Len(entry') /\ entry'[k].sid = s
  BY Lengths DEF OfSession, Kept
<1>2. ASSUME NEW s \in Sids, status'[s].v # "none"
      PROVE  OfSession(status[s].by, s)'
  <2>1. OfSession(status'[s].by, s)
    BY <1>2 DEF Owned
  <2> QED BY <1>1, <2>1 DEF OfSession
<1>3. ASSUME NEW p \in Procs, proc'[p].pc \in Claiming
      PROVE  OfSession(proc[p].body.by, Sid(p))'
  <2>1. /\ proc'[p].k \in 1..Len(entry)
        /\ OfSession(proc'[p].body.by, entry[proc'[p].k].sid)
    BY <1>3, ProcFacts DEF Owned, Sid, Claiming, ProcInv
  <2>2. entry'[proc'[p].k].sid = entry[proc'[p].k].sid
    BY <2>1 DEF Kept
  <2> QED BY <1>1, <2>1, <2>2 DEF OfSession, Sid
<1>4. ASSUME NEW s \in Sids, sess'[s].terminal.k # 0
      PROVE  OfSession(sess[s].terminal.k, s)' /\ OfSession(sess[s].terminal.by, s)'
  <2>1. OfSession(sess'[s].terminal.k, s) /\ OfSession(sess'[s].terminal.by, s)
    BY <1>4 DEF Owned
  <2> QED BY <1>1, <2>1 DEF OfSession
<1> QED BY <1>2, <1>3, <1>4 DEF Owned

\* _check_done was False: no claim is in hand, and what the wall timer may write
\* into the directory of the repair is the repair's own.
LEMMA NotDoneOwns ==
  ASSUME RInv, NEW p \in Procs, NEW r \in Proc, r.k \in 1..Len(entry), p \in K => r.k = p,
         NEW es, Renewed(es), NEW st \in [Sids -> File], NotDone(p, r, es, st)
  PROVE  /\ \A q \in Procs \ {p} : proc'[q] = proc[q]
         /\ proc'[p].pc \notin Claiming
         /\ \A s \in Sids : status'[s] = st[s] \/ OfSession(status'[s].by, s)
<1>1. /\ \A q \in Procs \ {p} : proc'[q] = proc[q]
      /\ proc'[p].pc \notin Claiming
  BY NotDoneStep DEF Claiming
<1>2. /\ es[r.k].sid \in Sids /\ es[r.k].sid = entry[r.k].sid
      /\ OfSession(r.k, es[r.k].sid)
  BY Lengths DEF Renewed, OfSession
<1>3. CASE status' = st
  BY <1>1, <1>3
<1>4. CASE \E f \in TimeoutStatus(st[es[r.k].sid], r.k) :
              status' = [st EXCEPT ![es[r.k].sid] = f]
  <2>1. PICK f : /\ f = st[es[r.k].sid] \/ f = [v |-> "NEED_HUMAN", by |-> r.k]
                 /\ status' = [st EXCEPT ![es[r.k].sid] = f]
    BY <1>4 DEF TimeoutStatus
  <2>2. f = st[es[r.k].sid] \/ OfSession(f.by, es[r.k].sid)
    BY <1>2, <2>1
  <2>3. \A s \in Sids : status'[s] = IF s = es[r.k].sid THEN f ELSE st[s]
    BY <2>1
  <2> QED BY <1>1, <2>2, <2>3
<1> QED BY <1>3, <1>4 DEF NotDone, FirstTurnNotDone, CadenceNotDone

\* _check_done reads the file in the directory of the session it looks after.
LEMMA CheckOwns ==
  ASSUME RInv, Owned, NEW p \in Procs, NEW r \in Proc, r.k \in 1..Len(entry),
         p \in K => r.k = p, NEW es, Renewed(es), entry' = es, Check(p, r, es),
         UNCHANGED <<enabled, kicker, pdfs, patched, passed>>
  PROVE  Owned'
<1>1. PICK s, f : s = es[r.k].sid /\ f = status[s]
  OBVIOUS
<1>2. s \in Sids /\ s = entry[r.k].sid /\ status \in [Sids -> File] /\ f \in File
  BY <1>1, ProcFacts, Lengths DEF Renewed
<1>3. /\ \A t \in Sids : sess'[t].terminal = sess[t].terminal
      /\ Kept
  BY <1>1, <1>2, DeliverStep, Lengths DEF Check, Kept, Renewed, RInv, RepairTypes
<1>4. /\ \A q \in Procs \ {p} : proc'[q] = proc[q]
      /\ \A t \in Sids : status'[t] = status[t] \/ OfSession(status'[t].by, t)
      /\ proc'[p].pc \in Claiming =>
           proc'[p].k = r.k /\ proc'[p].body = f /\ f.v # "none"
  <2>1. PICK x : x = [r EXCEPT !.body = f]
    OBVIOUS
  <2>2. x \in Proc /\ x.k = r.k /\ x.body = f
    BY <1>2, <2>1 DEF Proc
  <2>3. CASE f.v \in {"DONE", "NEED_HUMAN"} /\ UNCHANGED status
             /\ (Goto(p, x, "verify") \/ Goto(p, x, "cleanup"))
    BY <2>2, <2>3, Goes
  <2>4. CASE NotDone(p, r, es, status)
    BY <1>2, <2>4, NotDoneOwns
  <2>5. CASE Raises(p, r, es)
    BY <2>5, RaisesStep DEF Claiming
  <2> QED BY <1>1, <2>1, <2>3, <2>4, <2>5 DEF Check
<1>5. proc'[p].pc \in Claiming =>
        proc'[p].k \in 1..Len(entry) /\ OfSession(proc'[p].body.by, entry[proc'[p].k].sid)
  BY <1>1, <1>2, <1>4 DEF Owned
<1> QED BY <1>3, <1>4, <1>5, OwnedKept

LEMMA CallersOwn ==
  ASSUME RInv, Owned, Callers
  PROVE  Owned'
<1>1. sess \in [Sids -> Session] /\ (\A s \in Sids : sess[s] \in Session)
      /\ kicker \in [Kickers -> Kicker]
  BY DEF RInv, RepairTypes
<1>2. \A x \in Session : Told(x, Refusal).terminal \in {x.terminal, Refusal}
  BY ToldFields, SomeVerdict
<1>3. /\ status' = status /\ passed' = passed
      /\ \A s \in Sids : sess'[s].terminal \in {sess[s].terminal, Refusal}
  <2>1. ASSUME NEW s \in Sids, LoginShows(s) \/ LoginSucceeds(s) \/ Prune(s)
        PROVE  /\ status' = status /\ passed' = passed
               /\ \A t \in Sids : sess'[t].terminal \in {sess[t].terminal, Refusal}
    BY <1>1, <2>1 DEF LoginShows, LoginSucceeds, Prune, Session
  <2>2. ASSUME NEW q \in Kickers, NEW s \in Sids, LoginFails(q, s)
        PROVE  /\ status' = status /\ passed' = passed
               /\ \A t \in Sids : sess'[t].terminal \in {sess[t].terminal, Refusal}
    BY <1>1, <2>2 DEF LoginFails, Session
  <2>3. ASSUME NEW q \in Kickers, NEW s \in Sids, Feedback(q, s)
        PROVE  /\ status' = status /\ passed' = passed
               /\ \A t \in Sids : sess'[t].terminal \in {sess[t].terminal, Refusal}
    <3>1. PICK x : x = [sess[s] EXCEPT !.fra = TRUE, !.kicked = TRUE]
      OBVIOUS
    <3>2. x \in Session /\ x.terminal = sess[s].terminal
      BY <1>1, <3>1, FlagFields
    <3>3. PICK y : y = [sess[s] EXCEPT !.early = sess[s].early \/ sess[s].login]
      OBVIOUS
    <3>4. y \in Session /\ y.terminal = sess[s].terminal
      BY <1>1, <3>3, EarlyField
    <3>5. sess' = [sess EXCEPT ![s] = y] \/ sess' = [sess EXCEPT ![s] = Told(x, Refusal)]
      BY <1>1, <2>3, <3>1, <3>3 DEF Feedback
    <3> QED BY <1>1, <1>2, <2>3, <3>2, <3>4, <3>5 DEF Feedback
  <2>4. ASSUME NEW q \in Kickers, Analyzed(q)
        PROVE  /\ status' = status /\ passed' = passed
               /\ \A t \in Sids : sess'[t].terminal \in {sess[t].terminal, Refusal}
    <3>1. PICK s : s = kicker[q].sid
      OBVIOUS
    <3>2. s \in Sids
      BY <1>1, <2>4, <3>1, Kicking DEF Analyzed
    <3>3. sess' = [sess EXCEPT ![s].fra = TRUE, ![s].kicked = TRUE]
      BY <2>4, <3>1 DEF Analyzed
    <3> QED BY <1>1, <2>4, <3>2, <3>3 DEF Analyzed, Session
  <2>5. ASSUME NEW q \in Kickers, Kick(q)
        PROVE  /\ status' = status /\ passed' = passed
               /\ \A t \in Sids : sess'[t].terminal \in {sess[t].terminal, Refusal}
    <3>1. PICK s : s = kicker[q].sid
      OBVIOUS
    <3>2. s \in Sids
      BY <1>1, <2>5, <3>1, Kicking DEF Kick
    <3>3. \/ sess' = [sess EXCEPT ![s] = Folded(sess[s], kicker[q].why)]
          \/ sess' = [sess EXCEPT ![s].kicked = TRUE]
      BY <1>1, <2>5, <3>1, <3>2 DEF Kick
    <3>4. Folded(sess[s], kicker[q].why).terminal \in {sess[s].terminal, Refusal}
      BY <1>1, <1>2, <3>2 DEF Folded
    <3>5. sess'[s].terminal \in {sess[s].terminal, Refusal}
          /\ \A t \in Sids \ {s} : sess'[t] = sess[t]
      BY <1>1, <3>2, <3>3, <3>4 DEF Session
    <3> QED BY <2>5, <3>5 DEF Kick
  <2> QED BY <2>1, <2>2, <2>3, <2>4, <2>5 DEF Callers
<1>4. /\ Kept
      /\ \A p \in Procs : proc'[p].pc \in Claiming => proc'[p] = proc[p]
  <2>1. CASE entry' = entry /\ proc' = proc
    BY <1>3, <2>1, Lengths DEF Kept, RInv, RepairTypes
  <2>2. ASSUME NEW q \in Kickers, Kick(q), active = 0, Len(entry) + 1 <= MaxKicks,
               entry' = Append(entry, [sid |-> kicker[q].sid, why |-> kicker[q].why,
                                       claude |-> FALSE]),
               proc' = [proc EXCEPT ![Len(entry) + 1] = [@ EXCEPT !.pc = "claude"]]
        PROVE  /\ Kept
               /\ \A p \in Procs : proc'[p].pc \in Claiming => proc'[p] = proc[p]
    <3>1. PICK e, k : /\ e = [sid |-> kicker[q].sid, why |-> kicker[q].why,
                              claude |-> FALSE]
                      /\ k = Len(entry) + 1
      OBVIOUS
    <3>2. e \in Entry
      BY <1>1, <2>2, <3>1, Kicking DEF Kick, Entry
    <3>3. /\ entry \in Seq(Entry) /\ Len(entry) \in Nat /\ k <= MaxKicks
          /\ entry' = Append(entry, e)
      BY <2>2, <3>1, Lengths DEF RInv, RepairTypes
    <3>4. Kept
      BY <1>3, <3>1, <3>2, <3>3 DEF Kept
    <3>5. proc \in [Procs -> Proc]
      BY DEF RInv, RepairTypes
    <3>6. /\ \A p \in Procs \ {k} : proc'[p] = proc[p]
          /\ k \in Procs => proc'[k].pc = "claude"
      BY <2>2, <3>1, <3>5 DEF Proc
    <3> QED BY <3>4, <3>6 DEF Claiming
  <2>3. \/ entry' = entry /\ proc' = proc
        \/ \E q \in Kickers :
             /\ Kick(q) /\ active = 0 /\ Len(entry) + 1 <= MaxKicks
             /\ entry' = Append(entry, [sid |-> kicker[q].sid, why |-> kicker[q].why,
                                        claude |-> FALSE])
             /\ proc' = [proc EXCEPT ![Len(entry) + 1] = [@ EXCEPT !.pc = "claude"]]
    BY DEF Callers, LoginShows, LoginSucceeds, Prune, LoginFails, Feedback, Analyzed, Kick
  <2> QED BY <2>1, <2>2, <2>3
<1>5. Refusal.k = 0
  BY DEF Refusal
<1> QED BY <1>3, <1>4, <1>5, OwnedKept

\* claude writes into the directory of the session its repair is for.
LEMMA ClaudeOwns ==
  ASSUME RInv, Owned, NEW p \in Procs, ClaudeWorks(p)
  PROVE  Owned'
<1>1. PICK k, s : k = proc[p].k /\ s = entry[k].sid
  OBVIOUS
<1>2. s \in Sids /\ OfSession(k, s) /\ status \in [Sids -> File]
  BY <1>1, ProcFacts, Lengths DEF ClaudeWorks, ProcInv, OfSession
<1>3. /\ Kept /\ sess' = sess /\ proc' = proc
  BY Lengths DEF ClaudeWorks, Kept, RInv, RepairTypes
<1>4. \A t \in Sids : status'[t] = status[t] \/ OfSession(status'[t].by, t)
  <2>1. \/ status' = status
        \/ \E f \in Verdicts(k) \cup {Garbled(k)} : status' = [status EXCEPT ![s] = f]
    BY <1>1 DEF ClaudeWorks
  <2>2. \A f \in Verdicts(k) \cup {Garbled(k)} : f.by = k
    BY DEF Verdicts, Garbled
  <2> QED BY <1>2, <2>1, <2>2
<1> QED BY <1>3, <1>4, OwnedKept

\* The verifier, the record of the patch and the tear-down leave the claim as it is;
\* its verdict goes to the session whose directory it was read in.
LEMMA ConclusionOwns ==
  ASSUME RInv, Owned, NEW p \in Procs, Verified(p) \/ Persisted(p) \/ Concluded(p)
  PROVE  Owned'
<1>1. /\ proc[p] \in Proc /\ proc[p].k \in 1..Len(entry) /\ Sid(p) \in Sids
      /\ p \in K => proc[p].k = p
      /\ OfSession(proc[p].body.by, Sid(p))
      /\ status \in [Sids -> File] /\ Renewed(entry)
  BY ProcFacts, Lengths DEF Verified, Persisted, Concluded, ProcInv, Owned, Claiming, Sid
<1>2. Kept
  BY Lengths DEF Verified, Persisted, Concluded, Kept, RInv, RepairTypes
<1>3. CASE Verified(p)
  <2>1. sess' = sess
    BY <1>3 DEF Verified
  <2>2. CASE Goto(p, proc[p], "persist") /\ status' = status
    <3>1. /\ \A q \in Procs \ {p} : proc'[q] = proc[q]
          /\ proc'[p].k = proc[p].k /\ proc'[p].body = proc[p].body
      BY <1>1, <2>2, Goes
    <3> QED BY <1>1, <1>2, <2>1, <2>2, <3>1, OwnedKept DEF Sid
  <2>3. CASE Refused(p)
    <3>1. PICK st : st = [status EXCEPT ![Sid(p)] = NoFile]
      OBVIOUS
    <3>2. /\ st \in [Sids -> File] /\ NotDone(p, proc[p], entry, st)
          /\ \A t \in Sids : st[t] = status[t] \/ st[t].v = "none"
      BY <1>1, <2>3, <3>1, Files DEF Refused
    <3>3. /\ \A q \in Procs \ {p} : proc'[q] = proc[q]
          /\ proc'[p].pc \notin Claiming
          /\ \A t \in Sids : status'[t] = st[t] \/ OfSession(status'[t].by, t)
      BY <1>1, <3>2, NotDoneOwns
    <3> QED BY <1>2, <2>1, <3>2, <3>3, OwnedKept
  <2> QED BY <1>3, <2>2, <2>3 DEF Verified
<1>4. CASE Persisted(p)
  <2>1. /\ \A q \in Procs \ {p} : proc'[q] = proc[q]
        /\ proc'[p].k = proc[p].k /\ proc'[p].body = proc[p].body
    BY <1>1, <1>4, Goes DEF Persisted
  <2>2. \A t \in Sids : sess'[t].terminal = sess[t].terminal
    BY <1>1, <1>4, DeliverStep DEF Persisted
  <2>3. status' = status
    BY <1>4 DEF Persisted
  <2> QED BY <1>1, <1>2, <2>1, <2>2, <2>3, OwnedKept DEF Sid
<1>5. CASE Concluded(p)
  <2>1. PICK v : v = [v |-> proc[p].body.v, k |-> proc[p].k, by |-> proc[p].body.by]
    OBVIOUS
  <2>2. OfSession(v.k, Sid(p)) /\ OfSession(v.by, Sid(p))
    BY <1>1, <2>1 DEF OfSession, Sid
  <2>3. /\ sess \in [Sids -> Session] /\ sess[Sid(p)] \in Session
        /\ proc[p].body \in File /\ proc[p].k \in K
        /\ proc[p].body.v \in {"DONE", "NEED_HUMAN"}
    <3>1. proc[p].body \in File
      BY <1>1 DEF Proc
    <3> QED BY <1>1, <1>5, <3>1, ProcFacts, Lengths
            DEF RInv, RepairTypes, Concluded, ProcInv
  <2>4. Told(sess[Sid(p)], v).terminal \in {sess[Sid(p)].terminal, v}
    <3>1. v \in Verdict
      BY <2>1, <2>3, SomeVerdict
    <3> QED BY <2>3, <3>1, ToldFields
  <2>5. sess' = [sess EXCEPT ![Sid(p)] = Told(sess[Sid(p)], v)] /\ status' = status
    BY <1>5, <2>1 DEF Concluded
  <2>6. \A t \in Sids : \/ sess'[t].terminal = sess[t].terminal
                        \/ /\ OfSession(sess'[t].terminal.k, t)
                           /\ OfSession(sess'[t].terminal.by, t)
    BY <2>2, <2>3, <2>4, <2>5
  <2>7. /\ \A q \in Procs \ {p} : proc'[q] = proc[q]
        /\ proc'[p].pc \notin Claiming
    <3>1. Goto(p, proc[p], "idle") \/ Goto(p, proc[p], "end")
      BY <1>5 DEF Concluded
    <3> QED BY <1>1, <3>1, Goes DEF Claiming
  <2> QED BY <1>2, <2>5, <2>6, <2>7, OwnedKept
<1> QED BY <1>3, <1>4, <1>5

LEMMA FirstTurnOwns ==
  ASSUME RInv, Owned, NEW k \in K, FirstTurnEnds(k)
  PROVE  Owned'
<1>1. /\ k \in Procs /\ proc[k] \in Proc /\ proc[k].k = k /\ k \in 1..Len(entry)
  BY ProcFacts DEF FirstTurnEnds, Procs, ProcInv
<1>2. PICK ok \in BOOLEAN : \E es :
        /\ es = IF ok /\ active # 0 THEN [entry EXCEPT ![active].claude = TRUE] ELSE entry
        /\ entry' = es /\ Check(k, proc[k], es)
  BY DEF FirstTurnEnds
<1>3. PICK es :
        /\ \/ es = entry
           \/ active # 0 /\ es = [entry EXCEPT ![active].claude = TRUE]
        /\ entry' = es /\ Check(k, proc[k], es)
  BY <1>2
<1>4. Renewed(es)
  BY <1>1, <1>3, EntryRenewed
<1> QED BY <1>1, <1>3, <1>4, CheckOwns DEF FirstTurnEnds

LEMMA CadenceOwns ==
  ASSUME RInv, Owned, Tick \/ Look \/ Skipped \/ ResumeEnds \/ TimeoutEnds
  PROVE  Owned'
<1>1. /\ Cadence \in Procs /\ Cadence \notin K /\ proc[Cadence] \in Proc
      /\ ProcInv(Cadence) /\ Renewed(entry)
  BY ProcFacts DEF Procs, Cadence, K
<1>2. CASE Look
  BY <1>1, <1>2, CheckOwns DEF Look, ProcInv
<1>3. PICK x : x = [proc[Cadence] EXCEPT !.again = TRUE]
  OBVIOUS
<1>4. CASE ResumeEnds /\ Check(Cadence, x, entry)
  <2>1. x \in Proc /\ x.k = proc[Cadence].k /\ x.k \in 1..Len(entry)
    BY <1>1, <1>3, <1>4 DEF ResumeEnds, ProcInv, Proc
  <2> QED BY <1>1, <1>4, <2>1, CheckOwns DEF ResumeEnds
<1>5. ASSUME NEW r \in Proc, NEW c \in {"idle", "look"}, Goto(Cadence, r, c),
             UNCHANGED <<sess, entry, status, passed>>
      PROVE  Owned'
  <2>1. Kept
    BY <1>5, Lengths DEF Kept, RInv, RepairTypes
  <2>2. /\ \A q \in Procs \ {Cadence} : proc'[q] = proc[q]
        /\ proc'[Cadence].pc \notin Claiming
    BY <1>1, <1>5, Goes DEF Claiming
  <2> QED BY <1>5, <2>1, <2>2, OwnedKept
<1>6. [proc[Cadence] EXCEPT !.k = active] \in Proc
  <2>1. active \in 0..MaxKicks
    BY Lengths DEF RInv, RepairTypes
  <2> QED BY <1>1, <2>1 DEF Proc
<1>7. CASE Tick
  BY <1>5, <1>6, <1>7 DEF Tick
<1>8. CASE Goto(Cadence, proc[Cadence], "idle") /\ UNCHANGED <<sess, entry, status, passed>>
  BY <1>1, <1>5, <1>8
<1> QED BY <1>2, <1>3, <1>4, <1>7, <1>8 DEF ResumeEnds, TimeoutEnds, Skipped

LEMMA OwnedInit == Init => Owned
BY DEF Init, Owned, Idle, Claiming, NoFile, NoVerdict

LEMMA OwnedNext == RInv /\ Owned /\ [Next]_vars => Owned'
<1> SUFFICES ASSUME RInv, Owned, [Next]_vars PROVE Owned'
  OBVIOUS
<1>1. CASE UNCHANGED vars
  <2>1. Kept
    BY <1>1, Lengths DEF vars, Kept, RInv, RepairTypes
  <2> QED BY <1>1, <2>1, OwnedKept DEF vars
<1>2. CASE Callers
  BY <1>2, CallersOwn
<1>3. CASE Controller
  BY <1>3, FirstTurnOwns, ConclusionOwns, CadenceOwns DEF Controller
<1>4. CASE \E p \in Procs : ClaudeWorks(p)
  BY <1>4, ClaudeOwns
<1> QED BY <1>1, <1>2, <1>3, <1>4 DEF Next

\* A session is told the verdict of a repair of its own, read from a STATUS that a
\* repair of its own wrote, whichever repair holds the carrier by then
\* (auto_repair.py:965-1027, 1100-1135).
THEOREM OwnVerdictProved == Spec => []OwnVerdict
<1>1. Owned => OwnVerdict
  BY DEF Owned, OfSession, OwnVerdict
<1> QED BY <1>1, RInvariance, OwnedInit, OwnedNext, PTL DEF Spec
=============================================================================
