---------------------------- MODULE WorkerProxy ----------------------------
(***************************************************************************)
(* backend/worker_proxy.py: the logins of some carriers run on another     *)
(* machine, by the same program, and this process forwards to it           *)
(*   - POST /api/login, which makes a session there and an entry here,     *)
(*   - the SSE stream, which it reads line by line and re-emits by event,  *)
(*   - POST /api/mfa and GET /api/docs.                                    *)
(*                                                                         *)
(* The worker is reached over a network: a request may be lost or arrive   *)
(* when nobody waits for it any more, an answer may be lost, a stream may  *)
(* end in the middle of a line's event or fall silent without a sign.  The *)
(* worker's session is reduced to its state: LOGGING_IN stands for all     *)
(* states before it asks for a code, FETCHING_DOCS for all behind that;    *)
(* its stream to what main.py sends: a snapshot, then one event per        *)
(* change, heartbeats and sse_starlette's comments in between, or, when    *)
(* the session is gone, the result that was stored.                        *)
(***************************************************************************)
EXTENDS Naturals, Sequences, FiniteSets, SequencesExt

CONSTANTS Logins,   \* POSTs of /api/login; the local session ids they make
          Calls,    \* POSTs of /api/mfa
          None,
          Ttl,      \* session_ttl_seconds, the same here and there
          MaxTime,  \* bound: ticks of the clock
          MaxPings, \* bound: heartbeats per stream
          MaxConns  \* bound: streams per session

ASSUME ProxyConstants ==
  None \notin Logins \cup Nat /\ {Ttl, MaxTime, MaxPings, MaxConns} \subseteq Nat

VARIABLES login,  \* login -> where its POST is
          worker, \* login -> the session it made on the worker
          entry,  \* login -> created_at in WorkerProxy._sessions, or None
          call,   \* call -> the forwarding of an MFA code
          conn,   \* login -> the stream a browser has open through the proxy
          conns,  \* login -> streams so far
          now

vars == <<login, worker, entry, call, conn, conns, now>>

Changing == {"LOGGING_IN", "MFA_REQUIRED", "FETCHING_DOCS"}
Final == {"DONE", "ERROR"}

Times == 0..MaxTime

\* the worker's session: none, its state with its created_at, or gone; saved_at
\* of the result it stored; kicked: a repair there keeps its streams open
Worker == [state : {"none", "gone"} \cup Changing \cup Final, born : Times,
           saved : Times \cup {None}, kicked : BOOLEAN]

\* what a browser is sent: the worker's events, or the proxy's own error
Events == Changing \cup Final \cup {"ping", "proxyError"}

\* a line of the worker's stream: data of an event, the blank line that ends
\* it, a comment; or how the stream ends, in order or not
Lines == {<<"data", e>> : e \in Events} \cup
         {<<"blank">>, <<"comment">>, <<"eof">>, <<"reset">>}

Closed == [open |-> FALSE, wire |-> <<>>, buf |-> <<>>, sent |-> <<>>, got |-> <<>>,
           ended |-> FALSE, lost |-> FALSE]

NotCalled == [pc |-> "idle", sid |-> None, answer |-> 0, status |-> 0]

Init ==
  /\ login = [l \in Logins |-> "idle"]
  /\ worker = [l \in Logins |-> [state |-> "none", born |-> 0, saved |-> None,
                              kicked |-> FALSE]]
  /\ entry = [l \in Logins |-> None]
  /\ call = [m \in Calls |-> NotCalled]
  /\ conn = [l \in Logins |-> Closed] /\ conns = [l \in Logins |-> 0] /\ now = 0

There(l) == worker[l].state \notin {"none", "gone"}

\* get_persisted_status there
Stored(l) == worker[l].saved # None /\ worker[l].saved + Ttl >= now

\* _prune_stale, which every entry point calls first, also has_session
Stale(l) == entry[l] # None /\ entry[l] + Ttl < now
Known(l) == entry[l] # None /\ ~Stale(l)
Pruned == [l \in Logins |-> IF Stale(l) THEN None ELSE entry[l]]
----------------------------------------------------------------------------
(* login                                                                   *)

Post(l) ==
  /\ login[l] = "idle" /\ login' = [login EXCEPT ![l] = "posted"]
  /\ entry' = Pruned
  /\ UNCHANGED <<worker, call, conn, conns, now>>

\* the worker takes the login, and runs it whatever becomes of its answer, and
\* also when the proxy has given the request up
Taken(l) ==
  /\ login[l] \in {"posted", "lost"} /\ worker[l].state = "none"
  /\ worker' = [worker EXCEPT ![l].state = "LOGGING_IN", ![l].born = now]
  /\ UNCHANGED <<login, entry, call, conn, conns, now>>

Answered(l) ==
  /\ login[l] = "posted" /\ worker[l].state # "none"
  /\ login' = [login EXCEPT ![l] = "known"]
  /\ entry' = [entry EXCEPT ![l] = now]
  /\ UNCHANGED <<worker, call, conn, conns, now>>

\* the worker refused: its 4xx is passed on
Refused(l) ==
  /\ login[l] = "posted" /\ worker[l].state = "none"
  /\ login' = [login EXCEPT ![l] = "refused"]
  /\ UNCHANGED <<worker, entry, call, conn, conns, now>>

\* unreachable, or no answer within 60 s: 502
LoginLost(l) ==
  /\ login[l] = "posted" /\ login' = [login EXCEPT ![l] = "lost"]
  /\ UNCHANGED <<worker, entry, call, conn, conns, now>>

\* a request for any other session: has_session prunes as well
Prune ==
  /\ entry' = Pruned
  /\ UNCHANGED <<login, worker, call, conn, conns, now>>
----------------------------------------------------------------------------
(* The worker                                                              *)

Sends(l, e) ==
  IF conn[l].open /\ ~conn[l].ended
  THEN [conn EXCEPT ![l].wire = @ \o <<<<"data", e>>, <<"blank">>>>,
                    ![l].sent = Append(@, e)]
  ELSE conn

\* its login goes on, or its repair delivers and is over
Moves(l, to, kick) ==
  /\ to \in (Changing \cup Final) \ {"LOGGING_IN"} /\ (kick => to = "ERROR")
  /\ \/ worker[l].state = "LOGGING_IN"
     \/ worker[l].state = "MFA_REQUIRED" /\ to = "ERROR"
     \/ worker[l].state = "FETCHING_DOCS" /\ to \in Final
     \/ worker[l].state = "ERROR" /\ worker[l].kicked /\ to = "DONE"
  /\ worker' = [worker EXCEPT ![l].state = to, ![l].kicked = kick,
                              ![l].saved = IF to = "DONE" THEN now ELSE @]
  /\ conn' = Sends(l, to)
  /\ UNCHANGED <<login, entry, call, conns, now>>

\* its stream closes behind a final event, unless a repair was kicked
Finishes(l) ==
  /\ conn[l].open /\ ~conn[l].ended /\ ~(There(l) /\ worker[l].kicked)
  /\ \E i \in DOMAIN conn[l].sent : conn[l].sent[i] \in Final
  /\ conn' = [conn EXCEPT ![l].wire = Append(@, <<"eof">>), ![l].ended = TRUE]
  /\ UNCHANGED <<login, worker, entry, call, conns, now>>

\* a heartbeat after 15 s of silence; bound: nothing is on its way
Pings(l) ==
  /\ conn[l].open /\ ~conn[l].ended /\ conn[l].wire = <<>>
  /\ Cardinality({i \in DOMAIN conn[l].sent : conn[l].sent[i] = "ping"}) < MaxPings
  /\ conn' = Sends(l, "ping")
  /\ UNCHANGED <<login, worker, entry, call, conns, now>>

\* the ping of sse_starlette: a block without data; the same bound
Comments(l) ==
  /\ conn[l].open /\ ~conn[l].ended /\ conn[l].wire = <<>>
  /\ conn' = [conn EXCEPT ![l].wire = @ \o <<<<"comment">>, <<"blank">>>>]
  /\ UNCHANGED <<login, worker, entry, call, conns, now>>

\* the connection breaks, with an error or, if the worker shut down, in good
\* order; the lines that still arrive are those that were read before
Breaks(l, how) ==
  /\ conn[l].open /\ ~conn[l].ended
  /\ conn' = [conn EXCEPT ![l].wire = <<how>>, ![l].ended = TRUE]
  /\ UNCHANGED <<login, worker, entry, call, conns, now>>

\* the same, but nothing tells this side: the client reads with timeout=None
Vanishes(l) ==
  /\ conn[l].open /\ ~conn[l].ended
  /\ conn' = [conn EXCEPT ![l].wire = <<>>, ![l].ended = TRUE, ![l].lost = TRUE]
  /\ UNCHANGED <<login, worker, entry, call, conns, now>>

\* a later login there prunes the session, which may be long after the TTL or
\* never; or the worker restarts, which ends its streams
WorkerForgets(l) ==
  /\ There(l)
  /\ worker[l].born + Ttl < now \/ ~conn[l].open \/ conn[l].ended
  /\ worker' = [worker EXCEPT ![l].state = "gone"]
  /\ UNCHANGED <<login, entry, call, conn, conns, now>>

Tick ==
  /\ now < MaxTime /\ now' = now + 1
  /\ UNCHANGED <<login, worker, entry, call, conn, conns>>
----------------------------------------------------------------------------
(* status_stream                                                           *)

\* a stream that begins with one event
Opened(e) == [Closed EXCEPT !.open = TRUE, !.sent = <<e>>,
                            !.wire = <<<<"data", e>>, <<"blank">>>>]

\* the browser opens or re-opens its EventSource; a worker that is asked for a
\* session it has sends a snapshot first, for one of which it has only the
\* stored result that result and its end, and answers 404 for another
Connect(l) ==
  /\ login[l] = "known" /\ Known(l) /\ ~conn[l].open /\ conns[l] < MaxConns
  /\ conns' = [conns EXCEPT ![l] = @ + 1] /\ entry' = Pruned
  /\ conn' = [conn EXCEPT ![l] =
       IF There(l) THEN Opened(worker[l].state)
       ELSE IF Stored(l)
       THEN [Opened("DONE") EXCEPT !.wire = Append(@, <<"eof">>), !.ended = TRUE]
       ELSE [Closed EXCEPT !.got = <<"proxyError">>]]
  /\ UNCHANGED <<login, worker, call, now>>

\* the connection to the worker is given up, and what is still on its way
Hangup(c) == [c EXCEPT !.open = FALSE, !.ended = TRUE, !.wire = <<>>, !.buf = <<>>]

\* the browser closes its tab: the next event finds it disconnected
Disconnect(l) ==
  /\ conn[l].open /\ conn' = [conn EXCEPT ![l] = Hangup(@)]
  /\ UNCHANGED <<login, worker, entry, call, conns, now>>

\* mutant: the lines of an event stay in the buffer of the next
KeptBuffer(c) == c.buf

\* _iter_sse starts afresh behind a blank line
Reset(c) == <<>>

\* _terminal_sse_payload, of the event that was yielded
Terminal(c) == c.buf # <<>> /\ Head(c.buf) \in Final

\* mutant: a stream that ended is waited for
WaitsForMore(c) == c

\* aiter_lines is at its end
AtEnd(c) == Hangup(c)

\* _iter_sse and event_gen take one line
Taking(c) ==
  LET line == Head(c.wire)
      rest == [c EXCEPT !.wire = Tail(@)]
  IN  CASE line[1] = "data" -> [rest EXCEPT !.buf = Append(@, line[2])]
        [] line[1] = "comment" -> rest
        [] line[1] = "blank" ->
             \* a block without data is no event: nothing is in the buffer
             LET said == [rest EXCEPT !.buf = Reset(c), !.got = @ \o c.buf]
             IN  IF Terminal(c) THEN Hangup(said) ELSE said
        [] line[1] = "eof" -> AtEnd(rest)
        [] line[1] = "reset" -> Hangup([rest EXCEPT !.got = Append(@, "proxyError")])

Relay(l) ==
  /\ conn[l].open /\ conn[l].wire # <<>>
  /\ conn' = [conn EXCEPT ![l] = Taking(conn[l])]
  /\ UNCHANGED <<login, worker, entry, call, conns, now>>
----------------------------------------------------------------------------
(* submit_mfa                                                              *)

\* the browser shows the form for a code when a stream says MFA_REQUIRED
Asked(l) == \E i \in DOMAIN conn[l].got : conn[l].got[i] = "MFA_REQUIRED"

\* a session whose entry was pruned is unknown here, whatever the worker has
Submit(m, l) ==
  /\ call[m].pc = "idle" /\ login[l] = "known" /\ Asked(l) /\ entry' = Pruned
  /\ call' = [call EXCEPT ![m] =
       IF Known(l) THEN [NotCalled EXCEPT !.pc = "posted", !.sid = l]
       ELSE [NotCalled EXCEPT !.pc = "told", !.status = 404]]
  /\ UNCHANGED <<login, worker, conn, conns, now>>

\* mutant: a login takes a code at any time
AnyTime(l) == worker[l].state \in Changing

\* the worker's session takes a code in this state only
Waits(l) == worker[l].state = "MFA_REQUIRED"

\* the worker's handler gets the request, perhaps when the proxy has given it up
Handled(m) ==
  LET l == call[m].sid
  IN  /\ call[m].pc # "idle" /\ l # None /\ call[m].answer = 0
      /\ call' = [call EXCEPT ![m].answer = IF Waits(l) THEN 202
                                            ELSE IF There(l) THEN 409 ELSE 404]
      /\ IF Waits(l)
         THEN /\ worker' = [worker EXCEPT ![l].state = "FETCHING_DOCS"]
              /\ conn' = Sends(l, "FETCHING_DOCS")
         ELSE UNCHANGED <<worker, conn>>
      /\ UNCHANGED <<login, entry, conns, now>>

\* mutant: what the worker answered is taken for an acceptance
AlwaysAccepted(status) == 202

Mapped(status) == status

MfaAnswered(m) ==
  /\ call[m].pc = "posted" /\ call[m].answer # 0
  /\ call' = [call EXCEPT ![m].pc = "told", ![m].status = Mapped(call[m].answer)]
  /\ UNCHANGED <<login, worker, entry, conn, conns, now>>

\* unreachable, or no answer within 30 s: 502, and the request may yet arrive
MfaLost(m) ==
  /\ call[m].pc = "posted"
  /\ call' = [call EXCEPT ![m].pc = "told", ![m].status = 502]
  /\ UNCHANGED <<login, worker, entry, conn, conns, now>>

Next ==
  \/ \E l \in Logins :
       \/ Post(l) \/ Taken(l) \/ Answered(l) \/ Refused(l) \/ LoginLost(l)
       \/ \E to \in Changing \cup Final, kick \in BOOLEAN : Moves(l, to, kick)
       \/ Finishes(l) \/ Pings(l) \/ Comments(l) \/ WorkerForgets(l)
       \/ Vanishes(l) \/ \E how \in {<<"eof">>, <<"reset">>} : Breaks(l, how)
       \/ Connect(l) \/ Disconnect(l) \/ Relay(l)
  \/ \E m \in Calls : \/ \E l \in Logins : Submit(m, l)
                      \/ Handled(m) \/ MfaAnswered(m) \/ MfaLost(m)
  \/ Prune \/ Tick

Spec == Init /\ [][Next]_vars

\* the lines that arrive are read; the worker, the browser and the user owe nothing
Fairness == \A l \in Logins : WF_vars(Relay(l))

FairSpec == Spec /\ Fairness
----------------------------------------------------------------------------
\* Every variable has its type; at most one event is in the parser's buffer.
ProxyTypes ==
  /\ login \in [Logins -> {"idle", "posted", "known", "refused", "lost"}]
  /\ worker \in [Logins -> Worker] /\ entry \in [Logins -> Times \cup {None}]
  /\ call \in [Calls -> [pc : {"idle", "posted", "told"}, sid : Logins \cup {None},
                         answer : {0, 202, 404, 409}, status : {0, 202, 404, 409, 502}]]
  /\ conns \in [Logins -> 0..MaxConns] /\ now \in Times
  /\ \A l \in Logins :
       LET c == conn[l]
       IN  /\ DOMAIN c = DOMAIN Closed /\ {c.open, c.ended, c.lost} \subseteq BOOLEAN
           /\ \A i \in DOMAIN c.wire : c.wire[i] \in Lines
           /\ Len(c.buf) <= 1 /\ {c.sent[i] : i \in DOMAIN c.sent} \subseteq Events

\* What a browser got over a stream is what the worker sent over it, event by
\* event from the first on, wherever the stream broke; an error the proxy makes
\* up can only come last (worker_proxy.py:59-77, 151-166).
RelayFaithful ==
  \A l \in Logins :
    LET got == conn[l].got
        own == IF got # <<>> /\ Last(got) = "proxyError" THEN Front(got) ELSE got
    IN  IsPrefix(own, conn[l].sent)

\* The outcome is the last a browser hears of a stream: no error of the proxy,
\* nor anything else, follows a DONE or ERROR of the worker, also if the
\* worker's connection breaks right behind it (worker_proxy.py:73-77).
OutcomeIsLast ==
  \A l \in Logins : \A i \in DOMAIN conn[l].got :
    conn[l].got[i] \in Final => i = Len(conn[l].got) /\ ~conn[l].open

\* A run checks the two together: what a browser heard over a stream is what the
\* worker said, in its order, and the outcome closed it (worker_proxy.py:73-77).
StreamInv == RelayFaithful /\ OutcomeIsLast

\* A user is told that the code was accepted only if the worker took this very
\* one, and its login went on with it (worker_proxy.py:94-100).
AcceptedByWorker ==
  \A m \in Calls : call[m].status = 202 =>
    /\ call[m].answer = 202
    /\ worker[call[m].sid].state \in {"FETCHING_DOCS", "gone"} \cup Final

\* A run checks the two together: the proxy is well-formed, and passes on no
\* acceptance the worker did not give (worker_proxy.py:94-100).
ProxyInv == ProxyTypes /\ AcceptedByWorker

\* A user who was told 502 may send a code again: of all the calls for one login,
\* those whose answer was lost and those that reached the worker after the proxy
\* had given them up included, the worker takes one code, and a user who was told
\* 404 or 409 knows that it was not the one of this call
\* (worker_proxy.py:83-100, session_manager.py:266-274).
RetryIsSafe ==
  \A m \in Calls :
    /\ call[m].status \in {404, 409} => call[m].answer # 202
    /\ call[m].answer = 202 =>
         \A n \in Calls \ {m} : call[n].sid = call[m].sid => call[n].answer # 202

\* A browser that stays is not left with an open stream once the worker's session
\* is final: it got the outcome or its stream ended, and EventSource reconnects,
\* wherever the stream was cut.  The exception is a connection that was lost
\* without a sign, for which the client, with timeout=None, waits for ever
\* (worker_proxy.py:61, 70-77).
StreamEnds ==
  \A l \in Logins :
    (conn[l].open /\ worker[l].state \in Final) ~> (~conn[l].open \/ conn[l].lost)
----------------------------------------------------------------------------
(* What one may expect and the code does not do                            *)

\* main.py:140-142: while a repair is on, the stream is held open past the
\* terminal state; the relay breaks at the first ERROR.
RelayHeldForRepair ==
  \A l \in Logins : LET got == conn[l].got IN
    got # <<>> /\ Last(got) = "ERROR" /\ worker[l].kicked => conn[l].open

\* The proxy forgets a session at its first call a TTL after the login; the
\* worker keeps it until a login there prunes it, and then serves its stored
\* result for a TTL from the save (main.py:203-213), which nobody can ask for.
KnownWhileServed ==
  \A l \in Logins : login[l] = "known" /\ (There(l) \/ Stored(l)) => Known(l)
=============================================================================
