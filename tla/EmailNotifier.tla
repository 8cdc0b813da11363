--------------------------- MODULE EmailNotifier ---------------------------
(***************************************************************************)
(* "E-mail me when done", on top of the sessions and results it speaks of: *)
(*   - backend/email_notifier.py: schedule_watch, _watch, _send_email,     *)
(*   - backend/main.py (notify_endpoint),                                  *)
(*   - backend/session_manager.py (publish_repair_done sets the event the  *)
(*     watcher waits for; only a session that is still there is told).     *)
(*                                                                         *)
(* A watcher keeps the session object it got: what is in docs stays after  *)
(* the session was pruned.  Wording, addresses and the choice between      *)
(* attachments and links are left out.                                     *)
(***************************************************************************)
EXTENDS ResultStore

CONSTANT Watched \* bound: the sessions that are repaired and asked about

ASSUME WatchedSessions == Watched \subseteq Sids

VARIABLES repairing, \* sids with a repair that has not ended
          kicked,    \* sids with repair_kicked
          over,      \* sids whose repair_done_event is set
          watch,     \* sid -> its watcher
          mail       \* sid -> the mail its watcher is sending or sent last

mailVars == <<repairing, kicked, over, watch, mail>>
vars == <<rsVars, mailVars>>

\* links: the documents it names; docs: their bytes; kept: these had been saved by
\* then; stale: another repair was on
Mail == [verdict : {"none", "success", "failure", "timeout"}, links : SUBSET DocIds,
         docs : [DocIds -> Nat], kept : BOOLEAN, stale : BOOLEAN, sent : BOOLEAN]

NoMail == [verdict |-> "none", links |-> {}, docs |-> NoDocs, kept |-> FALSE,
           stale |-> FALSE, sent |-> FALSE]

Init ==
  /\ RSInit
  /\ repairing = {} /\ kicked = {} /\ over = {}
  /\ watch = [s \in Watched |-> "none"] /\ mail = [s \in Watched |-> NoMail]

\* a failed login or a feedback request starts a repair, also a second one;
\* the event of the first is not cleared
Kick(s) ==
  /\ s \in here \ repairing
  /\ kicked' = kicked \cup {s} /\ repairing' = repairing \cup {s}
  /\ UNCHANGED <<rsVars, over, watch, mail>>

\* the repair ends, its documents delivered or not; publish_repair_done tells
\* only a session that is still there
RepairDone(s) ==
  /\ s \in repairing /\ repairing' = repairing \ {s}
  /\ over' = over \cup ({s} \cap here)
  /\ UNCHANGED <<rsVars, kicked, watch, mail>>

\* notify_endpoint; a session that is watched already gets no second watcher
Notify(s) ==
  /\ s \in here \cap kicked /\ watch[s] = "none"
  /\ watch' = [watch EXCEPT ![s] = "wait"]
  /\ UNCHANGED <<rsVars, repairing, kicked, over, mail>>

\* _build_plan, before the await of the POST
Plan(s, verdict) ==
  [verdict |-> verdict, links |-> IF verdict = "success" THEN listed[s] ELSE {},
   docs |-> IF verdict = "success" THEN docs[s] ELSE NoDocs,
   kept |-> /\ s \notin cut /\ Readable(s)
            /\ \A d \in In(docs[s]) : docs[s][d] = meta[s].n,
   stale |-> s \in repairing, sent |-> FALSE]

Verdict(s) == IF listed[s] # {} THEN "success" ELSE "failure"

Send(s, verdict) ==
  /\ watch[s] = "wait" /\ watch' = [watch EXCEPT ![s] = "send"]
  /\ mail' = [mail EXCEPT ![s] = Plan(s, verdict)]
  /\ UNCHANGED <<rsVars, repairing, kicked, over>>

Wakes(s) == s \in over /\ Send(s, Verdict(s))

\* mutant: the wait has no deadline
WaitsOn(s) == FALSE

\* wait_for gives up, also when the event comes at the same moment
TimesOut(s) == Send(s, "timeout")

\* Resend answers, or the mail is lost: there is no second attempt
Sent(s) ==
  /\ watch[s] = "send" /\ watch' = [watch EXCEPT ![s] = "none"]
  /\ \E ok \in BOOLEAN : mail' = [mail EXCEPT ![s].sent = ok]
  /\ UNCHANGED <<rsVars, repairing, kicked, over>>

\* shutdown cancels the watchers; sessions and repairs end with the process
Shutdown ==
  /\ Restart
  /\ repairing' = {} /\ watch' = [s \in Watched |-> "none"]
  /\ UNCHANGED <<kicked, over, mail>>

Next ==
  \/ RSServe /\ UNCHANGED mailVars
  \/ \E s \in Watched : \/ Kick(s) \/ RepairDone(s) \/ Notify(s)
                     \/ Wakes(s) \/ TimesOut(s) \/ Sent(s)
  \/ Shutdown

\* a deadline of five hours and one of thirty seconds
Fairness == \A s \in Watched : WF_vars(TimesOut(s)) /\ WF_vars(Sent(s))

Spec == Init /\ [][Next]_vars /\ Fairness
----------------------------------------------------------------------------
\* Every variable has its type.
MailTypes ==
  /\ {repairing, kicked, over} \subseteq SUBSET Watched
  /\ watch \in [Watched -> {"none", "wait", "send"}] /\ mail \in [Watched -> Mail]
  /\ \A s \in Watched : mail[s].verdict = "success" <=> mail[s].links # {}

\* The links of a success mail give the documents it speaks of for the whole
\* TTL of their save, after the session was pruned and after a restart too
\* (email_notifier.py:125-136), unless another save of the session came
\* after them; documents that were only progress, or that came without bytes,
\* are not promised.
LinksServed ==
  \A s \in Watched : mail[s].kept /\ docs[s] = mail[s].docs /\ s \notin cut =>
    \A d \in In(mail[s].docs) :
      Old(mail[s].docs[d]) \/ Served(s, d) = {mail[s].docs[d]}

\* A run checks the two together: watchers and mails are well-formed, and the
\* links a mail promised lead to its documents (email_notifier.py:111-136).
MailInv == MailTypes /\ LinksServed

\* Every watcher ends, also one of a session that is pruned while it waits and
\* whose event nobody can set any more (email_notifier.py:80-83).
WatcherEnds == \A s \in Watched : watch[s] # "none" ~> watch[s] = "none"
----------------------------------------------------------------------------
(* What the documents say and the code does not do                         *)

\* ARCHITECTURE.md:184: success is the path on which documents were delivered,
\* and their links are live for the result store's TTL.
SuccessIsKept ==
  \A s \in Watched : mail[s].verdict = "success" /\ s \notin cut => mail[s].kept

\* ARCHITECTURE.md:181: the watcher awaits the end of the active repair.
RepairIsAwaited ==
  \A s \in Watched : mail[s].verdict \in {"success", "failure"} => ~mail[s].stale
=============================================================================
