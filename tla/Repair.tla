------------------------------- MODULE Repair -------------------------------
(***************************************************************************)
(* The self-healing loop of one carrier: backend/auto_repair.py with the   *)
(* two callers that start it (the error handler of execute_login and       *)
(* backend/feedback_recovery.py), the hand-over of the documents claude    *)
(* downloads (backend/repair_deliver.py) and the verdict the session gets. *)
(*                                                                         *)
(* _active is one dict keyed by carrier, so one carrier is modelled and    *)
(* `active` is its entry.  All carriers share the cadence loop: what it    *)
(* does for the others may delay it between its snapshot and its look.     *)
(* _lock is never held across an await, so it orders nothing and is left   *)
(* out.  claude, the verifier and the browser are other processes: they    *)
(* answer when they like.  A first turn is killed after 300 s and a replay *)
(* after 90 s, long before the wall timer of 18000 s; but what follows, the*)
(* last of claude's output, git and the closing of pages, is awaited with  *)
(* no timeout, so a repair may be too old wherever it waits.               *)
(***************************************************************************)
EXTENDS Naturals, Sequences, FiniteSets

CONSTANTS Sids,     \* sessions
          Kickers,  \* coroutines that may start a repair
          MaxKicks, \* bound: repairs started
          Works,    \* what claude may do: "status", "garble", "pdf", "patch"
          GitWorks  \* the verifier can run git diff

ASSUME RepairConstants ==
  /\ MaxKicks \in Nat \ {0}
  /\ GitWorks \in BOOLEAN
  /\ Works \subseteq {"status", "garble", "pdf", "patch"}

VARIABLES enabled,  \* REPAIR_ENABLED, fixed when the process starts
          sess,     \* sid -> session
          kicker,   \* the coroutines that are about to kick
          entry,    \* all entries ever put into _active, in order
          active,   \* the one that is in _active now, 0 if none
          proc,     \* first turn of each entry, and the cadence loop
          status,   \* sid -> STATUS file
          pdfs,     \* sid -> entry whose claude filled delivered/, 0 if none
          marker,   \* sids with a delivered.json
          patched,  \* the adapter on disk differs from git
          passed    \* entries with a verified fix (history)

vars == <<enabled, sess, kicker, entry, active, proc, status, pdfs, marker,
          patched,
          passed>>

K == 1..MaxKicks
Cadence == 0
Procs == K \cup {Cadence}

\* a STATUS file: its verdict and the entry it comes from.  A file in which
\* parse_status_verdict finds no verdict counts as none; one that is not text, or
\* is read between two bytes of a character, is unreadable.
NoFile == [v |-> "none", by |-> 0]
Verdicts(k) == [v : {"DONE", "NEED_HUMAN"}, by : {k}]
Garbled(k) == [v |-> "unreadable", by |-> k]
File == {NoFile} \cup UNION {Verdicts(k) \cup {Garbled(k)} : k \in K}

\* repair_terminal: the verdict, the repair that ended with it (0: none did) and
\* the entry the STATUS it was read from comes from
NoVerdict == [v |-> "none", k |-> 0, by |-> 0]
Refusal == [v |-> "NEED_HUMAN", k |-> 0, by |-> 0]
Verdict == {NoVerdict, Refusal} \cup [v : {"DONE", "NEED_HUMAN"}, k : K, by : K]

Session == [here : BOOLEAN,
            login : BOOLEAN, \* its login goes on
            early : BOOLEAN, \* a feedback came before the login was over (history)
            docs : SUBSET (0..MaxKicks), \* {0} from the login, {k} from entry k
            kicked : BOOLEAN, fra : BOOLEAN,
            terminal : Verdict]

Entry == [sid : Sids, why : {"error", "feedback"}, claude : BOOLEAN]

\* where a process is, the entry it looks after, the STATUS it has read, and
\* whether it checks for a second time in one tick
Proc == [pc : {"idle", "look", "claude", "verify", "persist", "cleanup",
               "timeout", "end"},
         k : 0..MaxKicks, body : File, again : BOOLEAN]
Idle(p) == [pc |-> "idle", k |-> p, body |-> NoFile, again |-> FALSE]

Free == [pc |-> "free"]
Gone == [pc |-> "end"]
Kicker == {Free, Gone} \cup [pc : {"analyze", "spawn"}, sid : Sids,
                            why : {"error", "feedback"}]
----------------------------------------------------------------------------
(* Starting a repair                                                       *)

\* publish_repair_done: only a session that is still there is told
Told(x, v) == IF x.here THEN [x EXCEPT !.terminal = v] ELSE x

\* the login fails: set_error, which keeps what it has shown, and the error
\* handler awaits its browser
LoginFails(q, s) ==
  /\ sess[s].here /\ sess[s].login
  /\ sess' = [sess EXCEPT ![s].login = FALSE]
  /\ IF enabled
     THEN /\ kicker[q].pc = "free"
          /\ kicker' = [kicker EXCEPT ![q] =
                          [pc |-> "spawn", sid |-> s, why |-> "error"]]
     ELSE UNCHANGED kicker
  /\ UNCHANGED <<enabled, entry, active, proc, status, pdfs, marker, patched,
                 passed>>

\* publish_docs_progress, or set_docs with a save that fails: documents of a login
\* that goes on.  A session that is DONE by a delivery is not that any more after
\* the next transition of its login.
LoginShows(s) ==
  /\ sess[s].here /\ sess[s].login
  /\ sess' = [sess EXCEPT ![s].docs = {0}]
  /\ UNCHANGED <<enabled, kicker, entry, active, proc, status, pdfs, marker,
                 patched, passed>>

\* set_docs at the end of the login
LoginSucceeds(s) ==
  /\ sess[s].here /\ sess[s].login
  /\ sess' = [sess EXCEPT ![s].login = FALSE, ![s].docs = {0}]
  /\ UNCHANGED <<enabled, kicker, entry, active, proc, status, pdfs, marker,
                 patched, passed>>

\* feedback_recovery.trigger up to its first await: it wants documents, which a
\* login that goes on, or has failed, may have shown too
Feedback(q, s) ==
  /\ sess[s].here
  /\ sess[s].docs # {}
  /\ ~sess[s].fra
  /\ IF enabled
     THEN /\ kicker[q].pc = "free"
          /\ kicker' = [kicker EXCEPT ![q] =
                          [pc |-> "analyze", sid |-> s, why |-> "feedback"]]
          /\ sess' = [sess EXCEPT ![s].early = @ \/ sess[s].login]
     ELSE /\ sess' = [sess EXCEPT ![s] =
               Told([@ EXCEPT !.fra = TRUE, !.kicked = TRUE], Refusal)]
          /\ UNCHANGED kicker
  /\ UNCHANGED <<enabled, entry, active, proc, status, pdfs, marker, patched,
                 passed>>

\* the analyzer answered or failed; the flags are set without a second look
Analyzed(q) ==
  /\ kicker[q].pc = "analyze"
  /\ kicker' = [kicker EXCEPT ![q].pc = "spawn"]
  /\ sess' = [sess EXCEPT ![kicker[q].sid].fra = TRUE,
                          ![kicker[q].sid].kicked = TRUE]
  /\ UNCHANGED <<enabled, entry, active, proc, status, pdfs, marker, patched,
                 passed>>

\* mutant: a folded feedback is told nothing
FoldedSilently(x, why) == x

\* the caller of a kick that was folded into the active repair
Folded(x, why) == IF why = "feedback" THEN Told(x, Refusal) ELSE x

\* _kick, and what its caller does with the answer
Kick(q) ==
  LET s == kicker[q].sid
      k == Len(entry) + 1
  IN  /\ kicker[q].pc = "spawn"
      /\ kicker' = [kicker EXCEPT ![q] = Gone]
      /\ \/ /\ active # 0
            /\ sess' = [sess EXCEPT ![s] = Folded(@, kicker[q].why)]
            /\ UNCHANGED <<entry, active, proc>>
         \/ /\ active = 0
            /\ k <= MaxKicks
            /\ entry' = Append(entry, [sid |-> s, why |-> kicker[q].why,
                                       claude |-> FALSE])
            /\ active' = k
            /\ proc' = [proc EXCEPT ![k] = [@ EXCEPT !.pc = "claude"]]
            /\ sess' = [sess EXCEPT ![s].kicked = TRUE]
      /\ UNCHANGED <<enabled, status, pdfs, marker, patched, passed>>
----------------------------------------------------------------------------
(* claude, while a turn of it runs                                         *)

ClaudeWorks(p) ==
  LET k == proc[p].k
      s == entry[k].sid
  IN  /\ proc[p].pc = "claude"
      /\ \/ /\ "status" \in Works
            /\ \E f \in Verdicts(k) : status' = [status EXCEPT ![s] = f]
            /\ UNCHANGED <<pdfs, patched>>
         \/ /\ "garble" \in Works
            /\ status' = [status EXCEPT ![s] = Garbled(k)]
            /\ UNCHANGED <<pdfs, patched>>
         \/ /\ "pdf" \in Works
            /\ pdfs' = [pdfs EXCEPT ![s] = k]
            /\ UNCHANGED <<status, patched>>
         \/ /\ "patch" \in Works
            /\ patched' = TRUE
            /\ UNCHANGED <<status, pdfs>>
      /\ UNCHANGED <<enabled, sess, kicker, entry, active, proc, marker,
                     passed>>
----------------------------------------------------------------------------
(* _check_done, for the process p that looks after entry k                 *)

Sid(p) == entry[proc[p].k].sid

\* mutant: the marker is written although the session is gone
DeliverableAnyway(s) == s \notin marker /\ pdfs[s] # 0

\* repair_deliver.deliver_if_present
Deliverable(s) == s \notin marker /\ pdfs[s] # 0 /\ sess[s].here

\* set_docs, which may fail to save, and the marker, which may fail to be written
Deliver(s) ==
  IF Deliverable(s)
  THEN /\ sess' = [sess EXCEPT ![s] =
             IF @.here THEN [@ EXCEPT !.docs = {pdfs[s]}] ELSE @]
       /\ marker' \in {marker, marker \cup {s}}
  ELSE UNCHANGED <<marker, sess>>

\* mutant: a timed-out repair stays in _active
KeptActive(k) == active

\* _timeout_repair pops the carrier, whatever entry it now holds
TimedOut(k) == 0

\* STATUS as _timeout_repair may leave it: a file is not replaced, not even one
\* without a verdict
TimeoutStatus(f, k) ==
  {f} \cup (IF f.v = "none" THEN {[v |-> "NEED_HUMAN", by |-> k]} ELSE {})

\* process p, whose locals are r, goes on at pc; a finished one has no locals
Goto(p, r, pc) ==
  proc' = [proc EXCEPT ![p] = IF pc \in {"idle", "end"}
                              THEN [Idle(p) EXCEPT !.pc = pc]
                              ELSE [r EXCEPT !.pc = pc]]

\* _check_done was False in _run_first_turn: a repair without a claude id ends
FirstTurnNotDone(p, r, es, st) ==
  /\ active' = IF active # 0 /\ es[active].sid = es[r.k].sid
                  /\ ~es[active].claude
               THEN 0 ELSE active
  /\ status' = st
  /\ Goto(p, r, "end")

\* _check_done was False in the cadence loop: time out (MAX_REPAIR_WALL_SECONDS
\* since the kick, whatever its first turn still waits for), resume, or do nothing
CadenceNotDone(p, r, es, st) ==
  \/ /\ ~r.again
     /\ \E f \in TimeoutStatus(st[es[r.k].sid], r.k) :
          status' = [st EXCEPT ![es[r.k].sid] = f]
     /\ active' = TimedOut(r.k)
     /\ Goto(p, [r EXCEPT !.body = NoFile], "timeout")
  \/ /\ status' = st
     /\ active' = active
     /\ Goto(p, [r EXCEPT !.body = NoFile],
             IF ~r.again /\ es[r.k].claude THEN "claude" ELSE "idle")

\* es and st: the entries and the STATUS files after the check
NotDone(p, r, es, st) == IF p = Cadence THEN CadenceNotDone(p, r, es, st)
                         ELSE FirstTurnNotDone(p, r, es, st)

\* _check_done raised: the first turn takes it for False; a tick, or a resumed turn,
\* is given up, with no look at the wall timer
Raises(p, r, es) ==
  IF p = Cadence THEN Goto(p, r, "idle") /\ UNCHANGED <<active, status>>
  ELSE FirstTurnNotDone(p, r, es, status)

\* _check_done up to its first await
Check(p, r, es) ==
  LET s == es[r.k].sid
      f == status[s]
  IN  /\ Deliver(s)
      /\ \/ /\ f.v = "DONE"
            /\ Goto(p, [r EXCEPT !.body = f], "verify")
            /\ UNCHANGED <<active, status>>
         \/ /\ f.v = "NEED_HUMAN"
            /\ active' = 0
            /\ Goto(p, [r EXCEPT !.body = f], "cleanup")
            /\ UNCHANGED status
         \/ /\ f.v = "none"
            /\ NotDone(p, r, es, status)
         \/ /\ f.v = "unreadable"
            /\ Raises(p, r, es)

\* mutant: a claim the verifier refused is accepted all the same
AcceptedAnyway(p) ==
  Goto(p, proc[p], "persist") /\ UNCHANGED <<active, status>>

\* _on_verification_failed: STATUS, whoever wrote it by now, is moved aside
Refused(p) == NotDone(p, proc[p], entry, [status EXCEPT ![Sid(p)] = NoFile])

\* _verify_fix answered: an unpatched adapter is refused, the replay may be
Verified(p) ==
  /\ proc[p].pc = "verify"
  /\ \/ /\ patched \/ ~GitWorks
        /\ passed' = passed \cup {proc[p].k}
        /\ Goto(p, proc[p], "persist")
        /\ UNCHANGED <<active, status>>
     \/ /\ Refused(p)
        /\ UNCHANGED passed
  /\ UNCHANGED <<enabled, sess, kicker, entry, pdfs, marker, patched>>

\* the patch is recorded and pushed: deliver, then pop the carrier
Persisted(p) ==
  /\ proc[p].pc = "persist"
  /\ Deliver(Sid(p))
  /\ active' = 0
  /\ Goto(p, proc[p], "cleanup")
  /\ UNCHANGED <<enabled, kicker, entry, status, pdfs, patched, passed>>

\* the repair browser is gone: publish_repair_done
Concluded(p) ==
  LET r == proc[p]
  IN  /\ r.pc = "cleanup"
      /\ sess' = [sess EXCEPT ![Sid(p)] =
                    Told(@, [v |-> r.body.v, k |-> r.k, by |-> r.body.by])]
      /\ Goto(p, r, IF p = Cadence THEN "idle" ELSE "end")
      /\ UNCHANGED <<enabled, kicker, entry, active, status, pdfs, marker,
                     patched, passed>>
----------------------------------------------------------------------------
(* The two kinds of processes                                              *)

\* _run_first_turn: a result is recorded on whatever entry is active now
FirstTurnEnds(k) ==
  /\ proc[k].pc = "claude"
  /\ \E ok \in BOOLEAN :
       LET es == IF ok /\ active # 0
                 THEN [entry EXCEPT ![active].claude = TRUE] ELSE entry
       IN  entry' = es /\ Check(k, proc[k], es)
  /\ UNCHANGED <<enabled, kicker, pdfs, patched, passed>>

\* _cadence_tick takes its snapshot of _active
Tick ==
  /\ enabled
  /\ proc[Cadence].pc = "idle"
  /\ active # 0
  /\ Goto(Cadence, [proc[Cadence] EXCEPT !.k = active], "look")
  /\ UNCHANGED <<enabled, sess, kicker, entry, active, status, pdfs, marker,
                 patched, passed>>

\* it comes to this carrier, after a turn of each carrier before it
Look ==
  /\ proc[Cadence].pc = "look"
  /\ Check(Cadence, proc[Cadence], entry)
  /\ UNCHANGED <<enabled, kicker, entry, pdfs, patched, passed>>

\* the check of a carrier before it in the snapshot raised: the tick is over
Skipped ==
  /\ proc[Cadence].pc = "look"
  /\ Goto(Cadence, proc[Cadence], "idle")
  /\ UNCHANGED <<enabled, sess, kicker, entry, active, status, pdfs, marker,
                 patched, passed>>

\* _resume_one: claude answered, and STATUS is checked again; or it raised
ResumeEnds ==
  LET r == proc[Cadence]
  IN  /\ r.pc = "claude"
      /\ \/ Check(Cadence, [r EXCEPT !.again = TRUE], entry)
         \/ /\ Goto(Cadence, r, "idle")
            /\ UNCHANGED <<sess, active, status, marker>>
      /\ UNCHANGED <<enabled, kicker, entry, pdfs, patched, passed>>

\* _timeout_repair ends: nothing is published
TimeoutEnds ==
  /\ proc[Cadence].pc = "timeout"
  /\ Goto(Cadence, proc[Cadence], "idle")
  /\ UNCHANGED <<enabled, sess, kicker, entry, active, status, pdfs, marker,
                 patched, passed>>

\* SessionManager._prune_stale cancels the task of the login, and so its kick
Prune(s) ==
  /\ sess[s].here
  /\ sess' = [sess EXCEPT ![s].here = FALSE]
  /\ kicker' = [q \in Kickers |->
       IF kicker[q] = [pc |-> "spawn", sid |-> s, why |-> "error"]
       THEN Gone ELSE kicker[q]]
  /\ UNCHANGED <<enabled, entry, active, proc, status, pdfs, marker, patched,
                 passed>>
----------------------------------------------------------------------------
Init ==
  /\ enabled \in BOOLEAN
  /\ sess = [s \in Sids |-> [here |-> TRUE, login |-> TRUE, early |-> FALSE,
                             docs |-> {}, kicked |-> FALSE, fra |-> FALSE,
                             terminal |-> NoVerdict]]
  /\ kicker = [q \in Kickers |-> Free]
  /\ entry = << >> /\ active = 0
  /\ proc = [p \in Procs |-> Idle(p)]
  /\ status = [s \in Sids |-> NoFile]
  /\ pdfs = [s \in Sids |-> 0]
  /\ marker = {} /\ patched = FALSE
  /\ passed = {}

Callers ==
  \/ \E s \in Sids : LoginShows(s) \/ LoginSucceeds(s) \/ Prune(s)
  \/ \E q \in Kickers : \/ \E s \in Sids : LoginFails(q, s) \/ Feedback(q, s)
                        \/ Analyzed(q) \/ Kick(q)

\* what the controller does by itself, once it may
Controller ==
  \/ \E k \in K : FirstTurnEnds(k)
  \/ \E p \in Procs : Verified(p) \/ Persisted(p) \/ Concluded(p)
  \/ Tick \/ Look \/ Skipped \/ ResumeEnds \/ TimeoutEnds

Next == Callers \/ Controller \/ (\E p \in Procs : ClaudeWorks(p))

Spec == Init /\ [][Next]_vars

\* the cadence loop finds the repair it looks at too old
TimesOut == (Look \/ Verified(Cadence)) /\ proc'[Cadence].pc = "timeout"

\* the cadence loop comes round, and time passes: what is found not done again and
\* again is found too old one day
Clock == WF_vars(Tick) /\ SF_vars(TimesOut)

\* assumed of the carriers before this one: their turns end, and their checks do not
\* raise for ever, so that a tick gets to this one
Reached == SF_vars(Look)

\* assumed of claude's output, of git and of the browsers' close calls, which the
\* loop awaits with no timeout.  Nothing is assumed of a first turn.
Answers ==
  /\ WF_vars(ResumeEnds) /\ WF_vars(TimeoutEnds)
  /\ WF_vars(Verified(Cadence)) /\ WF_vars(Persisted(Cadence))
  /\ WF_vars(Concluded(Cadence))

Fairness == Clock /\ Reached /\ Answers

FairSpec == Spec /\ Fairness
----------------------------------------------------------------------------
(* What the code achieves                                                  *)

\* Types of the variables of auto_repair, its files and the sessions.
RepairTypes ==
  /\ enabled \in BOOLEAN
  /\ sess \in [Sids -> Session]
  /\ kicker \in [Kickers -> Kicker]
  /\ entry \in Seq(Entry) /\ Len(entry) <= MaxKicks
  /\ active \in 0..Len(entry)
  /\ proc \in [Procs -> Proc]
  /\ status \in [Sids -> File]
  /\ pdfs \in [Sids -> 0..MaxKicks]
  /\ marker \subseteq Sids /\ patched \in BOOLEAN
  /\ passed \subseteq K

\* A session is told DONE only if the verifier passed a claim of that very
\* repair, whichever of the two processes that check STATUS publishes it and
\* however the rewriting, moving aside and reading of STATUS interleave.
DoneVerdictVerified ==
  \A s \in Sids : sess[s].terminal.v = "DONE" => sess[s].terminal.k \in passed

\* The verdict a session is told ends a repair of that session, and was read from a
\* STATUS that a repair of that session wrote: although the process that publishes
\* it works from a snapshot of _active, and by then the entry of the carrier may
\* be another session's.  So it is the repair's own where the session had one only.
OwnVerdict ==
  \A s \in Sids : sess[s].terminal.k # 0 =>
     LET t == sess[s].terminal
     IN  /\ {t.k, t.by} \subseteq 1..Len(entry)
         /\ entry[t.k].sid = s /\ entry[t.by].sid = s

\* A session whose page waits for a repair (repair_kicked) has a repair of its
\* own, a verdict, or a feedback request that is still going to kick one; a
\* request folded into another session's repair leaves it with its verdict.
KickedIsAnswered ==
  \A s \in Sids : sess[s].here /\ sess[s].kicked =>
    \/ \E k \in 1..Len(entry) : entry[k].sid = s
    \/ sess[s].terminal # NoVerdict
    \/ \E q \in Kickers : kicker[q].pc = "spawn" /\ kicker[q].sid = s

\* delivered.json is on disk only if a repair of that session delivered documents,
\* and they are the session's still: the marker, which ends all delivery, is
\* never written for documents that went nowhere.  Only where the feedback came
\* before the login was over may the login have put its own in their place.
MarkerMeansDelivered ==
  \A s \in marker :
    \/ \E k \in 1..Len(entry) : sess[s].docs = {k} /\ entry[k].sid = s
    \/ sess[s].early /\ sess[s].docs = {0}

\* A run checks the two together: the repair is well-formed, and a marker stands
\* for documents that were delivered (repair_deliver.py).
RepairInv == RepairTypes /\ MarkerMeansDelivered

\* A repair leaves _active, by a verdict, the end of its first turn or the wall
\* timer, however claude behaves and even if its first turn never ends, provided
\* that what the loop awaits answers; unless its STATUS is unreadable again and
\* again, which keeps it from the wall timer.
RepairEnds ==
  \A k \in K :
    \/ []<>(active # k)
    \/ []<>(active = k /\ status[entry[k].sid].v = "unreadable")
----------------------------------------------------------------------------
(* What the documents say and the code does not do                         *)

\* auto_repair.py:9-12: a repair is resumed until it writes STATUS or the wall-time
\* limit is hit; where _check_done raises nothing asks whether it is.
WallTimerEnds == \A k \in K : active = k ~> active # k

\* ARCHITECTURE.md:164: a repair_kicked session is always guaranteed a
\* terminal repair_done.  Nothing is left that could send one.
NoOrphan ==
  \A k \in 1..Len(entry) :
    LET s == entry[k].sid
    IN  \/ ~sess[s].here \/ sess[s].terminal # NoVerdict \/ active = k
        \/ \E p \in Procs : /\ proc[p].k \in 1..Len(entry)
                            /\ entry[proc[p].k].sid = s
                            /\ proc[p].pc \notin {"idle", "end"}
        \/ \E j \in 1..Len(entry) : active = j /\ entry[j].sid = s
        \/ \E q \in Kickers : kicker[q].pc \in {"analyze", "spawn"} /\ kicker[q].sid = s

\* auto_repair.py:16-17: one active Claude session per carrier.
OneClaudePerCarrier == Cardinality({p \in Procs : proc[p].pc = "claude"}) <= 1

\* session_manager.py:88-89: repair_terminal is set only once the repair is
\* over, so an in-flight repair still streams its live log.
TerminalMeansOver ==
  active # 0 => sess[entry[active].sid].terminal = NoVerdict

\* session_manager.py:223-225: the repair_done of a repair comes once; whoever
\* is about to publish it is the first to do so.
VerdictOnce ==
  \A p \in Procs : proc[p].pc = "cleanup" /\ sess[Sid(p)].here
                   => sess[Sid(p)].terminal.k # proc[p].k

\* auto_repair.py:9-12: each session is resumed until it writes its STATUS;
\* the verdict a repair ends with is its own.
FreshVerdict == \A s \in Sids : sess[s].terminal.k = sess[s].terminal.by

\* feedback_recovery.py:10-13: claude is asked for better documents, not for a
\* patch of the adapter, and they are delivered; the DONE it then writes, as
\* repair_prompt.md:165 tells it to, is not refused for want of a patch.
FeedbackDoneAccepted ==
  [][\A p \in Procs :
       /\ proc[p].pc = "verify" /\ proc'[p].pc # "verify"
       /\ entry[proc[p].k].why = "feedback"
       /\ proc[p].body.by = proc[p].k /\ sess[Sid(p)].docs = {proc[p].k}
       /\ GitWorks /\ ~patched
       => proc'[p].pc = "persist"]_vars

\* ARCHITECTURE.md:174, step 5 of the feedback loop: the new documents a repair
\* leaves in delivered/ reach the session, also when it had a repair before.
SecondDelivery ==
  [][\A p \in Procs :
       LET k == proc'[p].k
       IN  proc[p].pc # "cleanup" /\ proc'[p].pc = "cleanup" =>
             (pdfs[entry[k].sid] = k /\ sess[entry[k].sid].here
                => sess'[entry[k].sid].docs = {k})]_vars
=============================================================================
