-------------------------- MODULE WorkerProxyProofs --------------------------
(***************************************************************************)
(* Proofs about WorkerProxy, for any number of logins, streams, pings and  *)
(* MFA calls, and for any time to live.  A stream's invariant ConnInv is a *)
(* predicate of one record: what was heard is a beginning of what was      *)
(* sent, and what is on the wire continues it.  The lines on the wire are  *)
(* not the events, so the invariant says by a function on the wire's       *)
(* positions how many events are behind each of them.                      *)
(***************************************************************************)
EXTENDS WorkerProxy, SequenceTheorems, TLAPS

\* what the worker itself sends
Sent == Events \ {"proxyError"}

Conn == [open : BOOLEAN, wire : Seq(Lines), buf : Seq(Sent), sent : Seq(Sent),
         got : Seq(Events), ended : BOOLEAN, lost : BOOLEAN]

\* after i lines of the wire: an event is in the parser's buffer
Pending(c, i) == IF i = 0 THEN c.buf # <<>> ELSE c.wire[i][1] = "data"

\* the line i of the wire is one the worker may send, when f counts the events
LineInv(c, f, i) ==
  /\ c.wire[i][1] = "data" =>
       ~Pending(c, i - 1) /\ f[i] = f[i - 1] + 1 /\ c.wire[i][2] = c.sent[f[i]]
  /\ c.wire[i][1] = "blank" => f[i] = f[i - 1]
  /\ c.wire[i][1] = "comment" => ~Pending(c, i - 1) /\ f[i] = f[i - 1]
  /\ c.wire[i][1] \in {"eof", "reset"} => i = Len(c.wire) /\ c.ended /\ f[i] = f[i - 1]

\* f counts the events up to each line; nothing is missing until the stream ends
Counts(c, f) ==
  /\ f \in [0..Len(c.wire) -> 0..Len(c.sent)]
  /\ f[0] = Len(c.got) + Len(c.buf)
  /\ \A i \in 1..Len(c.wire) : LineInv(c, f, i)
  /\ ~c.ended => f[Len(c.wire)] = Len(c.sent) /\ ~Pending(c, Len(c.wire))

\* the first n events of what was heard are the worker's, the rest the proxy's
Heard(c, n) ==
  /\ n \in 0..Len(c.sent) /\ n <= Len(c.got) /\ \A i \in 1..n : c.got[i] = c.sent[i]
  /\ n = Len(c.got) \/ (n + 1 = Len(c.got) /\ c.got[n + 1] = "proxyError")

OpenInv(c) ==
  c.open =>
    /\ Heard(c, Len(c.got)) /\ \E f : Counts(c, f)
    /\ c.buf # <<>> => /\ Len(c.got) + 1 <= Len(c.sent)
                       /\ c.buf[1] = c.sent[Len(c.got) + 1]

ConnInv(c) ==
  /\ c \in Conn /\ Len(c.buf) <= 1
  /\ \E n \in Nat : Heard(c, n)
  /\ \A i \in DOMAIN c.got : c.got[i] \in Final => i = Len(c.got) /\ ~c.open
  /\ OpenInv(c)

\* behind the code: what a session is that took one
After == {"FETCHING_DOCS", "gone"} \cup Final

\* what one call says of itself
Unsent(x) == x.pc = "idle"

CallFact(x) ==
  /\ Unsent(x) \/ x.sid = None => x.answer = 0
  /\ Unsent(x) => x.status = 0
  /\ x.status = 202 => x.answer = 202
  /\ x.status \in {404, 409} => x.answer # 202 /\ (x.answer # 0 \/ x.sid = None)

\* an acceptance was one and stays one, and a session gives one
CallInv ==
  \A m \in Calls :
    /\ CallFact(call[m])
    /\ call[m].answer = 202 =>
         /\ worker[call[m].sid].state \in After
         /\ \A n \in Calls \ {m} : call[n].sid = call[m].sid => call[n].answer # 202

Answers == {0, 202, 404, 409}
Statuses == Answers \cup {502}

CallType == [pc : {"idle", "posted", "told"}, sid : Logins \cup {None},
             answer : Answers, status : Statuses]

StateTypes ==
  /\ login \in [Logins -> {"idle", "posted", "known", "refused", "lost"}]
  /\ worker \in [Logins -> Worker] /\ entry \in [Logins -> Times \cup {None}]
  /\ call \in [Calls -> CallType]
  /\ conns \in [Logins -> 0..MaxConns] /\ now \in Times

StreamsInv == conn \in [Logins -> Conn] /\ \A l \in Logins : ConnInv(conn[l])

WInv == StateTypes /\ CallInv /\ StreamsInv
----------------------------------------------------------------------------
(* What a stream's invariant survives                                      *)

LEMMA LineShapes ==
  /\ \A e \in Events : /\ <<"data", e>> \in Lines /\ <<"data", e>>[1] = "data"
                       /\ <<"data", e>>[2] = e
  /\ \A k \in {"blank", "comment", "eof", "reset"} : <<k>> \in Lines /\ <<k>>[1] = k
  /\ \A x \in Lines : \/ \E e \in Events : x = <<"data", e>>
                      \/ x \in {<<"blank">>, <<"comment">>, <<"eof">>, <<"reset">>}
  /\ \A x \in Lines : x[1] \in {"data", "blank", "comment", "eof", "reset"}
BY DEF Lines

\* The connection to the worker is given up: only what was heard is left.
LEMMA HangupKeeps ==
  ASSUME NEW c \in Conn, NEW n \in Nat, Heard(c, n),
         \A i \in DOMAIN c.got : c.got[i] \in Final => i = Len(c.got)
  PROVE  ConnInv(Hangup(c))
<1>1. PICK d : d = Hangup(c)
  OBVIOUS
<1>2. /\ d \in Conn /\ d.open = FALSE /\ d.buf = <<>> /\ d.sent = c.sent /\ d.got = c.got
  <2>1. PICK q : q = <<>>
    OBVIOUS
  <2>2. q \in Seq(Lines) /\ q \in Seq(Sent)
    BY <2>1
  <2>3. d = [c EXCEPT !.open = FALSE, !.ended = TRUE, !.wire = q, !.buf = q]
    BY <1>1, <2>1 DEF Hangup
  <2>4. d \in Conn /\ d.open = FALSE /\ d.buf = q /\ d.sent = c.sent /\ d.got = c.got
    BY <2>2, <2>3 DEF Conn
  <2> QED BY <2>1, <2>4
<1>3. Heard(d, n)
  BY <1>2 DEF Heard
<1>4. Len(d.buf) <= 1
  BY <1>2
<1>5. ConnInv(d)
  BY <1>2, <1>3, <1>4 DEF ConnInv, OpenInv
<1> QED BY <1>1, <1>5

\* One line was taken from the wire.
LEMMA TailCounts ==
  ASSUME NEW c \in Conn, NEW f, Counts(c, f), c.wire # <<>>,
         NEW d \in Conn, d.wire = Tail(c.wire), d.sent = c.sent, d.ended = c.ended,
         Len(d.got) + Len(d.buf) = f[1], d.buf # <<>> <=> c.wire[1][1] = "data"
  PROVE  \E g : Counts(d, g)
<1>1. PICK w, n : w = c.wire /\ n = Len(w)
  OBVIOUS
<1>2. /\ w \in Seq(Lines) /\ n \in Nat /\ n > 0 /\ c.sent \in Seq(Sent)
      /\ Len(d.wire) = n - 1 /\ \A i \in 1..(n - 1) : d.wire[i] = w[i + 1]
  BY <1>1 DEF Conn
<1>3. PICK g : g = [i \in 0..(n - 1) |-> f[i + 1]]
  OBVIOUS
<1>4. /\ g \in [0..Len(d.wire) -> 0..Len(d.sent)] /\ g[0] = f[1]
      /\ \A i \in 0..(n - 1) : g[i] = f[i + 1]
  BY <1>1, <1>2, <1>3 DEF Counts
<1>5. \A i \in 0..(n - 1) : Pending(d, i) <=> Pending(c, i + 1)
  BY <1>1, <1>2 DEF Pending
<1>6. ASSUME NEW i \in 1..(n - 1)
      PROVE  LineInv(d, g, i)
  <2>1. LineInv(c, f, i + 1)
    BY <1>1, <1>2 DEF Counts
  <2>2. /\ d.wire[i] = c.wire[i + 1] /\ g[i] = f[i + 1] /\ g[i - 1] = f[i]
        /\ Pending(d, i - 1) <=> Pending(c, i)
        /\ i + 1 = Len(c.wire) <=> i = Len(d.wire)
        /\ (i + 1) - 1 = i
    BY <1>1, <1>2, <1>4, <1>5
  <2> QED BY <2>1, <2>2 DEF LineInv
<1>7. ~d.ended => g[n - 1] = Len(d.sent) /\ ~Pending(d, n - 1)
  <2>1. g[n - 1] = f[n] /\ (Pending(d, n - 1) <=> Pending(c, n))
    BY <1>2, <1>4, <1>5
  <2> QED BY <1>1, <2>1 DEF Counts
<1> QED BY <1>1, <1>2, <1>4, <1>6, <1>7 DEF Counts

\* d is c when the worker has sent e.
Said(c, d, e, n, k) ==
  /\ ~c.ended /\ n = Len(c.wire) /\ k = Len(c.sent)
  /\ Len(d.wire) = n + 2 /\ \A i \in 1..n : d.wire[i] = c.wire[i]
  /\ d.wire[n + 1][1] = "data" /\ d.wire[n + 1][2] = e /\ d.wire[n + 2][1] = "blank"
  /\ Len(d.sent) = k + 1 /\ d.sent[k + 1] = e /\ \A i \in 1..k : d.sent[i] = c.sent[i]
  /\ d.ended = c.ended /\ d.got = c.got /\ d.buf = c.buf

\* Two lines are added to the wire; u events are behind them.
LEMMA MoreLines ==
  ASSUME NEW c \in Conn, NEW f, Counts(c, f), ~c.ended, NEW n \in Nat, n = Len(c.wire),
         NEW d \in Conn, Len(d.wire) = n + 2, \A i \in 1..n : d.wire[i] = c.wire[i],
         d.ended = c.ended, d.got = c.got, d.buf = c.buf,
         Len(c.sent) <= Len(d.sent), \A i \in 1..Len(c.sent) : d.sent[i] = c.sent[i],
         NEW u \in Nat, u = Len(d.sent), d.wire[n + 2][1] = "blank",
         \/ /\ u = Len(c.sent) + 1 /\ d.wire[n + 1][1] = "data"
            /\ d.wire[n + 1][2] = d.sent[u]
         \/ u = Len(c.sent) /\ d.wire[n + 1][1] = "comment"
  PROVE  \E g : Counts(d, g)
<1>1. PICK k : k = Len(c.sent)
  OBVIOUS
<1>2. k \in Nat /\ k <= u
  BY <1>1 DEF Conn
<1>3. PICK g : g = [i \in 0..(n + 2) |-> IF i <= n THEN f[i] ELSE u]
  OBVIOUS
<1>4. /\ f \in [0..n -> 0..k] /\ f[0] = Len(c.got) + Len(c.buf) /\ f[n] = k
      /\ ~Pending(c, n) /\ \A i \in 1..n : LineInv(c, f, i)
  BY <1>1 DEF Counts
<1>5. /\ g \in [0..(n + 2) -> 0..u] /\ \A i \in 0..n : g[i] = f[i]
      /\ g[n] = k /\ g[n + 1] = u /\ g[n + 2] = u
  <2>1. \A i \in 0..(n + 2) : IF i <= n THEN f[i] \in 0..u ELSE u \in 0..u
    BY <1>2, <1>4
  <2>2. g \in [0..(n + 2) -> 0..u]
    BY <1>3, <2>1
  <2>3. n \in 0..(n + 2) /\ n + 1 \in 0..(n + 2) /\ n + 2 \in 0..(n + 2)
    OBVIOUS
  <2>4. \A i \in 0..n : i \in 0..(n + 2) /\ i <= n
    OBVIOUS
  <2> QED BY <1>3, <1>4, <2>2, <2>3, <2>4
<1>6. \A i \in 0..n : Pending(d, i) <=> Pending(c, i)
  BY DEF Pending
<1>7. ASSUME NEW i \in 1..n
      PROVE  LineInv(d, g, i)
  <2>1. LineInv(c, f, i) /\ f[i] \in 0..k /\ f[i - 1] \in 0..k
    <3>1. i \in 0..n /\ i - 1 \in 0..n
      OBVIOUS
    <3> QED BY <1>4, <3>1
  <2>2. /\ d.wire[i] = c.wire[i] /\ g[i] = f[i] /\ g[i - 1] = f[i - 1]
        /\ Pending(d, i - 1) <=> Pending(c, i - 1)
    <3>1. i \in 0..n /\ i - 1 \in 0..n
      OBVIOUS
    <3> QED BY <1>5, <1>6, <3>1
  <2>3. ASSUME d.wire[i][1] = "data"
        PROVE  d.sent[f[i]] = c.sent[f[i]]
    <3>1. f[i] = f[i - 1] + 1
      BY <2>1, <2>2, <2>3 DEF LineInv
    <3>2. f[i] \in 1..k
      BY <1>2, <2>1, <3>1
    <3> QED BY <1>1, <3>2
  <2>4. c.wire[i][1] \notin {"eof", "reset"}
    BY <2>1 DEF LineInv
  <2> QED BY <2>1, <2>2, <2>3, <2>4 DEF LineInv
<1>8. LineInv(d, g, n + 1)
  <2>1. (n + 1) - 1 = n /\ ~Pending(d, n)
    BY <1>4, <1>6
  <2>2. CASE d.wire[n + 1][1] = "comment"
    <3>1. u = k
      BY <1>1, <2>2
    <3> QED BY <1>5, <2>1, <2>2, <3>1 DEF LineInv
  <2>3. CASE d.wire[n + 1][1] = "data"
    <3>1. u = k + 1 /\ d.wire[n + 1][2] = d.sent[u]
      BY <1>1, <2>3
    <3> QED BY <1>5, <2>1, <2>3, <3>1 DEF LineInv
  <2> QED BY <2>2, <2>3
<1>9. LineInv(d, g, n + 2)
  <2>1. (n + 2) - 1 = n + 1
    OBVIOUS
  <2> QED BY <1>5, <2>1 DEF LineInv
<1>10. \A i \in 1..(n + 2) : LineInv(d, g, i)
  <2>1. \A i \in 1..(n + 2) : i \in 1..n \/ i = n + 1 \/ i = n + 2
    OBVIOUS
  <2> QED BY <1>7, <1>8, <1>9, <2>1
<1>11. g[0] = Len(d.got) + Len(d.buf)
  <2>1. 0 \in 0..n
    OBVIOUS
  <2> QED BY <1>4, <1>5, <2>1
<1>12. ~Pending(d, n + 2)
  BY DEF Pending
<1> QED BY <1>5, <1>10, <1>11, <1>12 DEF Counts

LEMMA MoreCounts ==
  ASSUME NEW c \in Conn, NEW f, Counts(c, f), NEW d \in Conn, NEW e \in Sent,
         NEW n \in Nat, NEW k \in Nat, Said(c, d, e, n, k)
  PROVE  \E g : Counts(d, g)
<1>1. PICK u \in Nat : u = k + 1
  OBVIOUS
<1>2. /\ ~c.ended /\ n = Len(c.wire) /\ Len(d.wire) = n + 2
      /\ \A i \in 1..n : d.wire[i] = c.wire[i]
      /\ d.ended = c.ended /\ d.got = c.got /\ d.buf = c.buf
      /\ Len(c.sent) <= Len(d.sent) /\ \A i \in 1..Len(c.sent) : d.sent[i] = c.sent[i]
      /\ u = Len(d.sent) /\ u = Len(c.sent) + 1
      /\ d.wire[n + 1][1] = "data" /\ d.wire[n + 1][2] = d.sent[u]
      /\ d.wire[n + 2][1] = "blank"
  BY <1>1 DEF Said
<1> QED BY <1>2, MoreLines

\* The connection breaks behind k lines.
LEMMA BrokenCounts ==
  ASSUME NEW c \in Conn, NEW f, Counts(c, f), ~c.ended, NEW k \in 0..Len(c.wire),
         NEW d \in Conn, d.ended, Len(d.wire) = k + 1,
         \A i \in 1..k : d.wire[i] = c.wire[i], d.wire[k + 1][1] \in {"eof", "reset"},
         d.sent = c.sent, d.got = c.got, d.buf = c.buf
  PROVE  \E g : Counts(d, g)
<1>1. PICK n : n = Len(c.wire)
  OBVIOUS
<1>2. n \in Nat /\ k \in Nat /\ k <= n
  BY <1>1 DEF Conn
<1>4. PICK g : g = [i \in 0..(k + 1) |-> IF i <= k THEN f[i] ELSE f[k]]
  OBVIOUS
<1>5. /\ f \in [0..n -> 0..Len(c.sent)] /\ \A i \in 1..n : LineInv(c, f, i)
      /\ f[0] = Len(c.got) + Len(c.buf)
  BY <1>1 DEF Counts
<1>6. /\ g \in [0..Len(d.wire) -> 0..Len(d.sent)]
      /\ \A i \in 0..k : g[i] = f[i]
      /\ g[k + 1] = g[k]
  BY <1>2, <1>4, <1>5
<1>7. \A i \in 0..k : Pending(d, i) <=> Pending(c, i)
  BY <1>2 DEF Pending
<1>8. ASSUME NEW i \in 1..(k + 1)
      PROVE  LineInv(d, g, i)
  <2>1. CASE i <= k
    <3>1. LineInv(c, f, i) /\ i \in 1..n
      BY <1>2, <1>5, <2>1
    <3>2. /\ d.wire[i] = c.wire[i] /\ g[i] = f[i] /\ g[i - 1] = f[i - 1]
          /\ Pending(d, i - 1) <=> Pending(c, i - 1)
      BY <1>2, <1>6, <1>7, <2>1
    <3> QED BY <3>1, <3>2 DEF LineInv
  <2>2. CASE i = k + 1
    <3>1. d.wire[i][1] \in {"eof", "reset"} /\ g[i] = g[i - 1] /\ i = Len(d.wire)
      BY <1>2, <1>6, <2>2
    <3> QED BY <3>1 DEF LineInv
  <2> QED BY <1>2, <2>1, <2>2
<1>9. g[0] = Len(d.got) + Len(d.buf)
  <2>1. g[0] = f[0]
    BY <1>2, <1>6
  <2> QED BY <1>5, <2>1
<1> QED BY <1>2, <1>6, <1>8, <1>9 DEF Counts

LEMMA Lengths ==
  ASSUME NEW S, NEW v \in Seq(S), v # <<>>, Len(v) <= 1
  PROVE  Len(v) = 1 /\ v = <<v[1]>> /\ v[1] \in S /\ Head(v) = v[1]
<1>1. Len(v) \in Nat /\ Len(v) # 0
  OBVIOUS
<1>2. Len(v) = 1
  BY <1>1
<1> QED BY <1>2

LEMMA Appending ==
  ASSUME NEW S, NEW v \in Seq(S), NEW w \in Seq(S)
  PROVE  /\ v \o w \in Seq(S) /\ Len(v \o w) = Len(v) + Len(w)
         /\ \A i \in 1..Len(v) : (v \o w)[i] = v[i]
         /\ \A i \in 1..Len(w) : (v \o w)[Len(v) + i] = w[i]
OBVIOUS

\* Only the wire and what was sent are touched.
LEMMA SaidMore ==
  ASSUME NEW c, ConnInv(c), c.open, NEW d \in Conn, NEW g, Counts(d, g),
         d.open = c.open, d.got = c.got, d.buf = c.buf,
         Len(c.sent) <= Len(d.sent), \A i \in 1..Len(c.sent) : d.sent[i] = c.sent[i]
  PROVE  ConnInv(d)
<1>1. PICK n, k, m : n = Len(c.got) /\ k = Len(c.sent) /\ m = Len(d.sent)
  OBVIOUS
<1>2. /\ c \in Conn /\ Len(c.buf) <= 1
      /\ \A i \in DOMAIN c.got : c.got[i] \in Final => i = Len(c.got) /\ ~c.open
      /\ Heard(c, n)
      /\ c.buf # <<>> => n + 1 <= k /\ c.buf[1] = c.sent[n + 1]
  BY <1>1 DEF ConnInv, OpenInv
<1>3. n \in Nat /\ k \in Nat /\ m \in Nat /\ k <= m /\ n <= k
  BY <1>1, <1>2 DEF Conn, Heard
<1>4. Heard(d, n)
  <2>1. \A i \in 1..n : c.got[i] = c.sent[i] /\ i \in 1..k
    BY <1>1, <1>2, <1>3 DEF Heard
  <2>2. \A i \in 1..n : d.got[i] = d.sent[i]
    BY <1>1, <2>1
  <2> QED BY <1>1, <1>3, <2>2 DEF Heard
<1>5. d.buf # <<>> => n + 1 <= m /\ d.buf[1] = d.sent[n + 1]
  <2> SUFFICES ASSUME c.buf # <<>>
               PROVE  n + 1 <= m /\ c.buf[1] = d.sent[n + 1]
    OBVIOUS
  <2>1. n + 1 <= k /\ c.buf[1] = c.sent[n + 1] /\ n + 1 \in 1..k
    BY <1>2, <1>3
  <2> QED BY <1>1, <1>3, <2>1
<1>6. OpenInv(d)
  BY <1>1, <1>4, <1>5 DEF OpenInv
<1> QED BY <1>2, <1>3, <1>4, <1>6 DEF ConnInv

\* Two lines at the end of the wire.
LEMMA OnTheWire ==
  ASSUME NEW q \in Seq(Lines), NEW x \in Lines, NEW y \in Lines
  PROVE  /\ q \o <<x, y>> \in Seq(Lines) /\ Len(q \o <<x, y>>) = Len(q) + 2
         /\ \A i \in 1..Len(q) : (q \o <<x, y>>)[i] = q[i]
         /\ (q \o <<x, y>>)[Len(q) + 1] = x /\ (q \o <<x, y>>)[Len(q) + 2] = y
<1>1. PICK w : w = <<x, y>>
  OBVIOUS
<1>2. w \in Seq(Lines) /\ Len(w) = 2 /\ w[1] = x /\ w[2] = y
  BY <1>1
<1>3. /\ q \o w \in Seq(Lines) /\ Len(q \o w) = Len(q) + Len(w)
      /\ \A i \in 1..Len(q) : (q \o w)[i] = q[i]
      /\ \A i \in 1..Len(w) : (q \o w)[Len(q) + i] = w[i]
  BY <1>2, Appending
<1>4. 1 \in 1..Len(w) /\ 2 \in 1..Len(w)
  BY <1>2
<1> QED BY <1>1, <1>2, <1>3, <1>4

\* The worker sends an event over the stream.
LEMMA SaidKeeps ==
  ASSUME NEW c, ConnInv(c), c.open, ~c.ended, NEW e \in Sent,
         NEW d, d = [c EXCEPT !.wire = c.wire \o <<<<"data", e>>, <<"blank">>>>,
                              !.sent = Append(c.sent, e)]
  PROVE  ConnInv(d)
<1>1. c \in Conn /\ c.wire \in Seq(Lines) /\ c.sent \in Seq(Sent)
  BY DEF ConnInv, Conn
<1>2. PICK n, k, x, y : n = Len(c.wire) /\ k = Len(c.sent) /\ x = <<"data", e>> /\ y = <<"blank">>
  OBVIOUS
<1>3. x \in Lines /\ y \in Lines /\ x[1] = "data" /\ x[2] = e /\ y[1] = "blank"
  BY <1>2, LineShapes DEF Sent
<1>4. PICK v, s : v = c.wire \o <<x, y>> /\ s = Append(c.sent, e)
  OBVIOUS
<1>5. /\ n \in Nat /\ v \in Seq(Lines) /\ Len(v) = n + 2
      /\ \A i \in 1..n : v[i] = c.wire[i]
      /\ v[n + 1] = x /\ v[n + 2] = y
  <2>1. n \in Nat
    BY <1>1, <1>2
  <2> QED BY <1>1, <1>2, <1>3, <1>4, <2>1, OnTheWire
<1>6. /\ k \in Nat /\ s \in Seq(Sent) /\ Len(s) = k + 1 /\ s[k + 1] = e
      /\ \A i \in 1..k : s[i] = c.sent[i]
  BY <1>1, <1>2, <1>4
<1>7. d = [c EXCEPT !.wire = v, !.sent = s]
  BY <1>2, <1>4
<1>8. /\ d \in Conn
      /\ d.wire = v /\ d.sent = s /\ d.open = c.open /\ d.got = c.got /\ d.buf = c.buf
      /\ d.ended = c.ended
  BY <1>1, <1>5, <1>6, <1>7 DEF Conn
<1>9. PICK f : Counts(c, f)
  BY DEF ConnInv, OpenInv
<1>10. Said(c, d, e, n, k)
  BY <1>2, <1>3, <1>5, <1>6, <1>8 DEF Said
<1>11. PICK g : Counts(d, g)
  BY <1>1, <1>5, <1>6, <1>8, <1>9, <1>10, MoreCounts
<1>12. Len(c.sent) <= Len(d.sent) /\ \A i \in 1..Len(c.sent) : d.sent[i] = c.sent[i]
  BY <1>2, <1>6, <1>8
<1> QED BY <1>8, <1>11, <1>12, SaidMore

\* A block without data is added to the wire.
LEMMA CommentedKeeps ==
  ASSUME NEW c, ConnInv(c), c.open, ~c.ended,
         NEW d, d = [c EXCEPT !.wire = c.wire \o <<<<"comment">>, <<"blank">>>>]
  PROVE  ConnInv(d)
<1>1. c \in Conn /\ c.wire \in Seq(Lines) /\ c.sent \in Seq(Sent)
  BY DEF ConnInv, Conn
<1>2. PICK n, u, x, y : n = Len(c.wire) /\ u = Len(c.sent) /\ x = <<"comment">> /\ y = <<"blank">>
  OBVIOUS
<1>3. x \in Lines /\ y \in Lines /\ x[1] = "comment" /\ y[1] = "blank"
  BY <1>2, LineShapes
<1>4. PICK v : v = c.wire \o <<x, y>>
  OBVIOUS
<1>5. /\ n \in Nat /\ u \in Nat /\ v \in Seq(Lines) /\ Len(v) = n + 2
      /\ \A i \in 1..n : v[i] = c.wire[i]
      /\ v[n + 1] = x /\ v[n + 2] = y
  <2>1. n \in Nat /\ u \in Nat
    BY <1>1, <1>2
  <2> QED BY <1>1, <1>2, <1>3, <1>4, <2>1, OnTheWire
<1>6. /\ d \in Conn
      /\ d.wire = v /\ d.sent = c.sent /\ d.open = c.open /\ d.got = c.got
      /\ d.buf = c.buf /\ d.ended = c.ended
  BY <1>1, <1>2, <1>4, <1>5 DEF Conn
<1>7. PICK f : Counts(c, f)
  BY DEF ConnInv, OpenInv
<1>8. Len(c.sent) <= Len(d.sent) /\ \A i \in 1..Len(c.sent) : d.sent[i] = c.sent[i]
  BY <1>2, <1>5, <1>6
<1>9. /\ Len(d.wire) = n + 2 /\ \A i \in 1..n : d.wire[i] = c.wire[i]
      /\ u = Len(d.sent) /\ u = Len(c.sent)
      /\ d.wire[n + 1][1] = "comment" /\ d.wire[n + 2][1] = "blank"
  BY <1>2, <1>3, <1>5, <1>6
<1>10. PICK g : Counts(d, g)
  BY <1>1, <1>2, <1>5, <1>6, <1>7, <1>8, <1>9, MoreLines
<1> QED BY <1>6, <1>8, <1>10, SaidMore

\* The stream falls silent: nothing is on its way.
LEMMA VanishedKeeps ==
  ASSUME NEW c, ConnInv(c), c.open,
         NEW d, d = [c EXCEPT !.wire = <<>>, !.ended = TRUE, !.lost = TRUE]
  PROVE  ConnInv(d)
<1>1. c \in Conn /\ c.sent \in Seq(Sent) /\ c.wire \in Seq(Lines)
  BY DEF ConnInv, Conn
<1>2. PICK q : q = <<>>
  OBVIOUS
<1>3. q \in Seq(Lines) /\ Len(q) = 0
  BY <1>2
<1>4. d = [c EXCEPT !.wire = q, !.ended = TRUE, !.lost = TRUE]
  BY <1>2
<1>5. /\ d \in Conn /\ d.wire = q /\ d.sent = c.sent /\ d.open = c.open /\ d.got = c.got
      /\ d.buf = c.buf /\ d.ended
  BY <1>1, <1>3, <1>4 DEF Conn
<1>6. PICK f : Counts(c, f)
  BY DEF ConnInv, OpenInv
<1>7. f[0] \in 0..Len(c.sent) /\ f[0] = Len(c.got) + Len(c.buf)
  <2>1. 0 \in 0..Len(c.wire)
    BY <1>1
  <2> QED BY <1>6, <2>1 DEF Counts
<1>8. PICK g : g = [i \in 0..0 |-> f[0]]
  OBVIOUS
<1>9. Counts(d, g)
  <2>1. Len(d.wire) = 0 /\ 1..0 = {} /\ Len(d.sent) = Len(c.sent)
    BY <1>3, <1>5
  <2>2. g \in [0..0 -> 0..Len(c.sent)] /\ g[0] = f[0]
    <3>1. PICK u : u = f[0]
      OBVIOUS
    <3>2. g = [i \in 0..0 |-> u] /\ 0 \in 0..0
      BY <1>8, <3>1
    <3>3. u \in 0..Len(c.sent)
      BY <1>7, <3>1
    <3> QED BY <3>1, <3>2, <3>3
  <2> QED BY <1>5, <1>7, <2>1, <2>2 DEF Counts
<1>10. Len(c.sent) <= Len(d.sent) /\ \A i \in 1..Len(c.sent) : d.sent[i] = c.sent[i]
  BY <1>1, <1>5
<1> QED BY <1>5, <1>9, <1>10, SaidMore

\* The stream ends behind k lines of the wire.
LEMMA EndedKeeps ==
  ASSUME NEW c, ConnInv(c), c.open, ~c.ended, NEW k \in 0..Len(c.wire),
         NEW how \in {<<"eof">>, <<"reset">>},
         NEW d, d = [c EXCEPT !.wire = Append(SubSeq(c.wire, 1, k), how), !.ended = TRUE]
  PROVE  ConnInv(d)
<1>1. c \in Conn /\ c.wire \in Seq(Lines) /\ c.sent \in Seq(Sent)
  BY DEF ConnInv, Conn
<1>2. how \in Lines /\ how[1] \in {"eof", "reset"}
  BY LineShapes
<1>3. PICK u : u = SubSeq(c.wire, 1, k)
  OBVIOUS
<1>4. u \in Seq(Lines) /\ Len(u) = k /\ \A i \in 1..k : u[i] = c.wire[i]
  BY <1>1, <1>3
<1>5. PICK v : v = Append(u, how)
  OBVIOUS
<1>6. /\ v \in Seq(Lines) /\ Len(v) = k + 1 /\ v[k + 1] = how
      /\ \A i \in 1..k : v[i] = c.wire[i]
  BY <1>2, <1>4, <1>5
<1>7. d = [c EXCEPT !.wire = v, !.ended = TRUE]
  BY <1>3, <1>5
<1>8. /\ d \in Conn /\ d.wire = v /\ d.sent = c.sent /\ d.open = c.open /\ d.got = c.got
      /\ d.buf = c.buf /\ d.ended
  BY <1>1, <1>6, <1>7 DEF Conn
<1>9. PICK f : Counts(c, f)
  BY DEF ConnInv, OpenInv
<1>10. /\ Len(d.wire) = k + 1 /\ \A i \in 1..k : d.wire[i] = c.wire[i]
       /\ d.wire[k + 1][1] \in {"eof", "reset"}
  BY <1>2, <1>6, <1>8
<1>11. PICK g : Counts(d, g)
  BY <1>1, <1>8, <1>9, <1>10, BrokenCounts
<1>12. Len(c.sent) <= Len(d.sent) /\ \A i \in 1..Len(c.sent) : d.sent[i] = c.sent[i]
  BY <1>1, <1>8
<1> QED BY <1>8, <1>11, <1>12, SaidMore

\* event_gen takes one line off the wire.
LEMMA TakingKeeps ==
  ASSUME NEW c, ConnInv(c), c.open, c.wire # <<>>
  PROVE  ConnInv(Taking(c))
<1>1. /\ c \in Conn /\ Len(c.buf) <= 1 /\ c.wire \in Seq(Lines) /\ c.buf \in Seq(Sent)
      /\ c.sent \in Seq(Sent) /\ c.got \in Seq(Events) /\ c.open \in BOOLEAN
      /\ \A i \in DOMAIN c.got : c.got[i] \notin Final
  BY DEF ConnInv, Conn
<1>2. PICK n, k, x, q : /\ n = Len(c.got) /\ k = Len(c.sent)
                        /\ x = c.wire[1] /\ q = Tail(c.wire)
  OBVIOUS
<1>3. PICK f : Counts(c, f)
  BY DEF ConnInv, OpenInv
<1>4. /\ n \in Nat /\ k \in Nat /\ x \in Lines /\ q \in Seq(Lines) /\ Head(c.wire) = x
      /\ x[1] \in {"data", "blank", "comment", "eof", "reset"}
      /\ Heard(c, n) /\ n <= k
      /\ \A i \in 1..n : c.got[i] = c.sent[i]
      /\ c.buf # <<>> => n + 1 <= k /\ c.buf[1] = c.sent[n + 1]
  <2>1. n \in Nat /\ k \in Nat /\ x \in Lines /\ q \in Seq(Lines) /\ Head(c.wire) = x
    BY <1>1, <1>2
  <2>2. x[1] \in {"data", "blank", "comment", "eof", "reset"}
    BY <2>1, LineShapes
  <2>3. /\ Heard(c, n)
        /\ c.buf # <<>> => n + 1 <= k /\ c.buf[1] = c.sent[n + 1]
    BY <1>2 DEF ConnInv, OpenInv
  <2>4. n <= k /\ \A i \in 1..n : c.got[i] = c.sent[i]
    BY <1>2, <2>1, <2>3 DEF Heard
  <2> QED BY <2>1, <2>2, <2>3, <2>4
<1>5. /\ f[0] = n + Len(c.buf) /\ f[1] \in 0..k
      /\ x[1] = "data" => c.buf = <<>> /\ f[1] = n + 1 /\ x[2] = c.sent[n + 1]
      /\ x[1] = "blank" => f[1] = f[0]
      /\ x[1] = "comment" => c.buf = <<>> /\ f[1] = f[0]
  <2>1. Len(c.wire) \in Nat /\ Len(c.wire) > 0
    BY <1>1
  <2>2. LineInv(c, f, 1) /\ f[0] = n + Len(c.buf) /\ f[1] \in 0..k
    BY <1>2, <1>3, <2>1 DEF Counts
  <2>3. Pending(c, 0) <=> c.buf # <<>>
    BY DEF Pending
  <2>4. c.buf = <<>> => Len(c.buf) = 0
    OBVIOUS
  <2>5. 1 - 1 = 0 /\ n + 0 + 1 = n + 1
    BY <1>4
  <2> QED BY <1>2, <2>2, <2>3, <2>4, <2>5 DEF LineInv
<1>6. PICK rest : rest = [c EXCEPT !.wire = q]
  OBVIOUS
<1>7. /\ rest \in Conn /\ rest.wire = q /\ rest.sent = c.sent /\ rest.open /\ rest.got = c.got
      /\ rest.buf = c.buf /\ rest.ended = c.ended
  BY <1>1, <1>4, <1>6 DEF Conn
<1>8. CASE x[1] = "data"
  <2>1. PICK b : b = Append(c.buf, x[2])
    OBVIOUS
  <2>2. /\ b \in Seq(Sent) /\ Len(b) = 1 /\ b[1] = c.sent[n + 1] /\ b # <<>>
        /\ n + 1 <= k
    <3>1. n + 1 \in 1..k
      BY <1>4, <1>5, <1>8
    <3>2. x[2] = c.sent[n + 1] /\ x[2] \in Sent /\ c.buf = <<>>
      BY <1>1, <1>2, <1>5, <1>8, <3>1
    <3>3. b = <<x[2]>>
      BY <2>1, <3>2
    <3>4. b \in Seq(Sent) /\ Len(b) = 1 /\ b[1] = x[2] /\ b # <<>>
      BY <3>2, <3>3
    <3> QED BY <1>4, <3>1, <3>2, <3>4
  <2>3. PICK d : d = [rest EXCEPT !.buf = b]
    OBVIOUS
  <2>4. /\ d \in Conn /\ d.wire = q /\ d.sent = c.sent /\ d.open /\ d.got = c.got
        /\ d.buf = b /\ d.ended = c.ended
    BY <1>7, <2>2, <2>3 DEF Conn
  <2>5. PICK g : Counts(d, g)
    <3>1. Len(d.got) + Len(d.buf) = f[1]
      BY <1>2, <1>5, <1>8, <2>2, <2>4
    <3>2. d.buf # <<>> <=> c.wire[1][1] = "data"
      BY <1>2, <1>8, <2>2, <2>4
    <3>3. d.wire = Tail(c.wire)
      BY <1>2, <2>4
    <3> QED BY <1>1, <1>3, <2>4, <3>1, <3>2, <3>3, TailCounts
  <2>6. Heard(d, n)
    BY <1>2, <1>4, <2>4 DEF Heard
  <2>7. OpenInv(d)
    BY <1>2, <2>2, <2>4, <2>5, <2>6 DEF OpenInv
  <2>8. ConnInv(d)
    <3>1. Len(d.buf) <= 1
      <4>1. Len(b) = 1 /\ d.buf = b
        BY <2>2, <2>4
      <4>2. Len(d.buf) = 1
        BY <4>1
      <4> QED BY <4>2
    <3>2. \A i \in DOMAIN d.got : d.got[i] \notin Final
      <4>1. \A i \in DOMAIN c.got : c.got[i] \notin Final
        BY <1>1
      <4>2. d.got = c.got
        BY <2>4
      <4> QED BY <4>1, <4>2
    <3> QED BY <1>4, <2>4, <2>6, <2>7, <3>1, <3>2 DEF ConnInv
  <2>9. Taking(c) = d
    BY <1>2, <1>4, <1>6, <1>8, <2>1, <2>3, <1>7 DEF Taking
  <2> QED BY <2>8, <2>9
<1>9. CASE x[1] = "comment"
  <2>1. PICK g : Counts(rest, g)
    <3>1. Len(rest.got) + Len(rest.buf) = f[1]
      BY <1>2, <1>5, <1>7, <1>9
    <3>2. rest.buf # <<>> <=> c.wire[1][1] = "data"
      BY <1>2, <1>5, <1>7, <1>9
    <3>3. rest.wire = Tail(c.wire)
      BY <1>2, <1>7
    <3> QED BY <1>1, <1>3, <1>7, <3>1, <3>2, <3>3, TailCounts
  <2>2. Heard(rest, n)
    BY <1>2, <1>4, <1>7 DEF Heard
  <2>3. OpenInv(rest)
    BY <1>2, <1>5, <1>7, <1>9, <2>1, <2>2 DEF OpenInv
  <2>4. ConnInv(rest)
    BY <1>1, <1>4, <1>7, <2>2, <2>3 DEF ConnInv
  <2>5. Taking(c) = rest
    BY <1>2, <1>4, <1>6, <1>9 DEF Taking
  <2> QED BY <2>4, <2>5
<1>10. CASE x[1] = "blank" /\ c.buf # <<>>
  <2>1. PICK h, z : h = c.got \o c.buf /\ z = <<>>
    OBVIOUS
  <2>2. c.buf = <<c.buf[1]>> /\ c.buf[1] = c.sent[n + 1] /\ n + 1 <= k /\ c.buf[1] \in Sent
        /\ Len(c.buf) = 1
    <3>1. c.buf # <<>>
      BY <1>5, <1>10
    <3>2. Len(c.buf) = 1 /\ c.buf = <<c.buf[1]>> /\ c.buf[1] \in Sent
      BY <1>1, <3>1, Lengths
    <3> QED BY <1>4, <3>1, <3>2
  <2>3. /\ h \in Seq(Events) /\ Len(h) = n + 1 /\ h[n + 1] = c.buf[1]
        /\ \A i \in 1..n : h[i] = c.got[i]
        /\ z \in Seq(Sent) /\ Len(z) = 0
    <3>1. c.buf \in Seq(Events) /\ z \in Seq(Sent) /\ Len(z) = 0
      <4>1. PICK y : y = c.buf[1]
        OBVIOUS
      <4>2. y \in Events /\ c.buf = <<y>>
        BY <2>2, <4>1 DEF Sent
      <4> QED BY <2>1, <4>2
    <3>2. PICK y : y = c.buf[1]
      OBVIOUS
    <3>3. y \in Events /\ h = c.got \o <<y>>
      BY <2>1, <2>2, <3>2 DEF Sent
    <3>4. h = Append(c.got, y)
      BY <1>1, <3>3, AppendIsConcat
    <3>5. /\ h \in Seq(Events) /\ Len(h) = Len(c.got) + 1 /\ h[Len(c.got) + 1] = y
          /\ \A i \in 1..Len(c.got) : h[i] = c.got[i]
      BY <1>1, <3>3, <3>4, AppendProperties
    <3> QED BY <1>2, <3>1, <3>2, <3>5
  <2>4. PICK said : said = [rest EXCEPT !.buf = z, !.got = h]
    OBVIOUS
  <2>5. /\ said \in Conn /\ said.wire = q /\ said.sent = c.sent /\ said.open /\ said.got = h
        /\ said.buf = z /\ said.ended = c.ended
    BY <1>7, <2>3, <2>4 DEF Conn
  <2>6. Heard(said, n + 1)
    <3>1. n + 1 \in 0..k /\ \A i \in 1..(n + 1) : i \in 1..n \/ i = n + 1
      BY <1>4, <2>2
    <3>2. \A i \in 1..(n + 1) : h[i] = c.sent[i]
      BY <1>4, <2>2, <2>3, <3>1
    <3>3. said.got = h /\ said.sent = c.sent /\ Len(said.sent) = k /\ Len(said.got) = n + 1
      BY <1>2, <2>3, <2>5
    <3> QED BY <1>4, <3>1, <3>2, <3>3 DEF Heard
  <2>7. \A i \in DOMAIN said.got : said.got[i] \in Final => i = n + 1 /\ c.buf[1] \in Final
    <3>1. DOMAIN said.got = 1..(n + 1) /\ said.got = h
      BY <2>3, <2>5
    <3>2. \A i \in 1..(n + 1) : i \in 1..n \/ i = n + 1
      BY <1>4
    <3>3. \A i \in 1..n : h[i] \notin Final
      BY <1>1, <1>2, <2>3
    <3> QED BY <2>3, <3>1, <3>2, <3>3
  <2>8. Head(c.buf) = c.buf[1]
    BY <2>2
  <2>9. Taking(c) = IF c.buf[1] \in Final THEN Hangup(said) ELSE said
    <3>1. said = [[c EXCEPT !.wire = Tail(@)] EXCEPT !.buf = <<>>, !.got = @ \o c.buf]
      BY <1>2, <1>6, <1>7, <2>1, <2>4
    <3> QED BY <1>2, <1>4, <1>10, <2>8, <3>1 DEF Taking, Reset, Terminal
  <2>10. CASE c.buf[1] \in Final
    <3>1. Len(said.got) = n + 1 /\ n + 1 \in Nat
      BY <1>4, <2>3, <2>5
    <3> QED BY <2>5, <2>6, <2>7, <2>9, <2>10, <3>1, HangupKeeps
  <2>11. CASE c.buf[1] \notin Final
    <3>1. PICK g : Counts(said, g)
      <4>1. Len(said.got) + Len(said.buf) = f[1]
        BY <1>4, <1>5, <1>10, <2>2, <2>3, <2>5
      <4>2. said.buf # <<>> <=> c.wire[1][1] = "data"
        BY <1>2, <1>10, <2>1, <2>5
      <4>3. said.wire = Tail(c.wire)
        BY <1>2, <2>5
      <4> QED BY <1>1, <1>3, <2>5, <4>1, <4>2, <4>3, TailCounts
    <3>2. OpenInv(said)
      <4>1. Len(said.got) = n + 1 /\ said.buf = <<>>
        BY <2>1, <2>3, <2>5
      <4> QED BY <2>6, <3>1, <4>1 DEF OpenInv
    <3>3. ConnInv(said)
      <4>1. Len(said.buf) <= 1 /\ n + 1 \in Nat
        BY <1>4, <2>3, <2>5
      <4> QED BY <2>5, <2>6, <2>7, <2>11, <3>2, <4>1 DEF ConnInv
    <3> QED BY <2>9, <2>11, <3>3
  <2> QED BY <2>10, <2>11
<1>11. Heard(rest, n) /\ \A i \in DOMAIN rest.got : rest.got[i] \notin Final
  BY <1>1, <1>2, <1>4, <1>7 DEF Heard
<1>14. CASE x[1] = "blank" /\ c.buf = <<>>
  <2>1. PICK g : Counts(rest, g)
    <3>1. Len(rest.got) + Len(rest.buf) = f[1]
      BY <1>2, <1>5, <1>7, <1>14
    <3>2. rest.buf # <<>> <=> c.wire[1][1] = "data"
      BY <1>2, <1>7, <1>14
    <3>3. rest.wire = Tail(c.wire)
      BY <1>2, <1>7
    <3> QED BY <1>1, <1>3, <1>7, <3>1, <3>2, <3>3, TailCounts
  <2>2. OpenInv(rest)
    BY <1>2, <1>7, <1>11, <1>14, <2>1 DEF OpenInv
  <2>3. ConnInv(rest)
    BY <1>1, <1>4, <1>7, <1>11, <2>2 DEF ConnInv
  <2>4. PICK z, h : z = <<>> /\ h = c.got \o c.buf
    OBVIOUS
  <2>5. PICK said : said = [rest EXCEPT !.buf = z, !.got = h]
    OBVIOUS
  <2>6. h = c.got /\ z = c.buf
    BY <1>1, <1>14, <2>4
  <2>7. said = rest
    BY <1>1, <1>7, <2>5, <2>6 DEF Conn
  <2>8. Taking(c) = said
    <3>1. said = [[c EXCEPT !.wire = Tail(@)] EXCEPT !.buf = <<>>, !.got = @ \o c.buf]
      BY <1>2, <1>6, <1>7, <2>4, <2>5
    <3>2. ~Terminal(c)
      BY <1>14 DEF Terminal
    <3> QED BY <1>2, <1>4, <1>14, <3>1, <3>2 DEF Taking, Reset
  <2> QED BY <2>3, <2>7, <2>8
<1>12. CASE x[1] = "eof"
  <2>1. Taking(c) = Hangup(rest)
    BY <1>2, <1>4, <1>6, <1>12 DEF Taking, AtEnd
  <2> QED BY <1>4, <1>7, <1>11, <2>1, HangupKeeps
<1>13. CASE x[1] = "reset"
  <2>1. PICK h : h = Append(c.got, "proxyError")
    OBVIOUS
  <2>2. /\ h \in Seq(Events) /\ Len(h) = n + 1 /\ h[n + 1] = "proxyError"
        /\ \A i \in 1..n : h[i] = c.got[i]
    <3>1. "proxyError" \in Events
      BY DEF Events
    <3> QED BY <1>1, <1>2, <2>1, <3>1
  <2>3. PICK d : d = [rest EXCEPT !.got = h]
    OBVIOUS
  <2>4. d \in Conn /\ d.sent = c.sent /\ d.got = h
    BY <1>7, <2>2, <2>3 DEF Conn
  <2>5. Heard(d, n)
    <3>1. /\ \A i \in 1..n : d.got[i] = d.sent[i]
          /\ Len(d.sent) = k /\ Len(d.got) = n + 1 /\ d.got[n + 1] = "proxyError"
      BY <1>2, <1>4, <2>2, <2>4
    <3> QED BY <1>4, <3>1 DEF Heard
  <2>6. \A i \in DOMAIN d.got : d.got[i] \notin Final
    <3>1. DOMAIN d.got = 1..(n + 1) /\ d.got = h
      BY <2>2, <2>4
    <3>2. \A i \in 1..(n + 1) : i \in 1..n \/ i = n + 1
      BY <1>4
    <3>3. \A i \in 1..n : h[i] \notin Final
      BY <1>1, <1>2, <2>2
    <3>4. "proxyError" \notin Final
      BY DEF Final
    <3> QED BY <2>2, <3>1, <3>2, <3>3, <3>4
  <2>7. Taking(c) = Hangup(d)
    <3>1. d = [[c EXCEPT !.wire = Tail(@)] EXCEPT !.got = Append(@, "proxyError")]
      BY <1>2, <1>6, <1>7, <2>1, <2>3
    <3> QED BY <1>2, <1>4, <1>13, <3>1 DEF Taking
  <2> QED BY <1>4, <2>4, <2>5, <2>6, <2>7, HangupKeeps
<1> QED BY <1>4, <1>8, <1>9, <1>10, <1>12, <1>13, <1>14
----------------------------------------------------------------------------
(* The streams of the state                                                *)

LEMMA OneStream ==
  ASSUME StreamsInv, NEW l \in Logins, NEW d, ConnInv(d), conn' = [conn EXCEPT ![l] = d]
  PROVE  StreamsInv'
<1>1. d \in Conn
  BY DEF ConnInv
<1>2. /\ conn' \in [Logins -> Conn] /\ conn'[l] = d
      /\ \A m \in Logins \ {l} : conn'[m] = conn[m]
  BY <1>1 DEF StreamsInv
<1>3. ASSUME NEW m \in Logins
      PROVE  ConnInv(conn'[m])
  <2>1. CASE m = l
    BY <1>2, <2>1
  <2>2. CASE m # l
    BY <1>2, <2>2 DEF StreamsInv
  <2> QED BY <2>1, <2>2
<1> QED BY <1>2, <1>3 DEF StreamsInv

LEMMA SameStreams ==
  ASSUME StreamsInv, UNCHANGED conn
  PROVE  StreamsInv'
BY DEF StreamsInv

LEMMA SendsKeeps ==
  ASSUME StreamsInv, NEW l \in Logins, NEW e \in Sent, conn' = Sends(l, e)
  PROVE  StreamsInv'
<1>1. CASE conn[l].open /\ ~conn[l].ended
  <2>1. PICK c, d : /\ c = conn[l]
                    /\ d = [c EXCEPT !.wire = c.wire \o <<<<"data", e>>, <<"blank">>>>,
                                     !.sent = Append(c.sent, e)]
    OBVIOUS
  <2>2. ConnInv(c) /\ conn \in [Logins -> Conn]
    BY <2>1 DEF StreamsInv
  <2>3. ConnInv(d)
    BY <1>1, <2>1, <2>2, SaidKeeps
  <2>4. conn' = [conn EXCEPT ![l] = d]
    BY <1>1, <2>1, <2>2 DEF Sends
  <2> QED BY <2>3, <2>4, OneStream
<1>2. CASE ~(conn[l].open /\ ~conn[l].ended)
  BY <1>2, SameStreams DEF Sends
<1> QED BY <1>1, <1>2

LEMMA PingsKeeps ==
  ASSUME StreamsInv, NEW l \in Logins, Pings(l) \/ Comments(l)
  PROVE  StreamsInv'
<1>1. CASE Pings(l)
  BY <1>1, SendsKeeps DEF Pings, Sent, Events
<1>2. CASE Comments(l)
  <2>1. PICK c, d : /\ c = conn[l]
                    /\ d = [c EXCEPT !.wire = c.wire \o <<<<"comment">>, <<"blank">>>>]
    OBVIOUS
  <2>2. ConnInv(c) /\ conn \in [Logins -> Conn] /\ c.open /\ ~c.ended
    BY <1>2, <2>1 DEF StreamsInv, Comments
  <2>3. ConnInv(d)
    BY <2>1, <2>2, CommentedKeeps
  <2>4. conn' = [conn EXCEPT ![l] = d]
    BY <1>2, <2>1, <2>2 DEF Comments
  <2> QED BY <2>3, <2>4, OneStream
<1> QED BY <1>1, <1>2

LEMMA EndsKeeps ==
  ASSUME StreamsInv, NEW l \in Logins,
         \/ Finishes(l) \/ Vanishes(l)
         \/ \E how \in {<<"eof">>, <<"reset">>} : Breaks(l, how)
  PROVE  StreamsInv'
<1>1. PICK c : c = conn[l]
  OBVIOUS
<1>2. /\ ConnInv(c) /\ conn \in [Logins -> Conn] /\ c.wire \in Seq(Lines)
      /\ c.open /\ ~c.ended
  BY <1>1 DEF StreamsInv, ConnInv, Conn, Finishes, Vanishes, Breaks
<1>3. CASE Vanishes(l)
  <2>1. PICK d : d = [c EXCEPT !.wire = <<>>, !.ended = TRUE, !.lost = TRUE]
    OBVIOUS
  <2>2. ConnInv(d)
    BY <1>2, <2>1, VanishedKeeps
  <2>3. conn' = [conn EXCEPT ![l] = d]
    BY <1>1, <1>2, <1>3, <2>1 DEF Vanishes
  <2> QED BY <2>2, <2>3, OneStream
<1>4. ASSUME ~Vanishes(l)
      PROVE  \E k \in 0..Len(c.wire), how \in {<<"eof">>, <<"reset">>} :
               conn' = [conn EXCEPT ![l].wire = Append(SubSeq(c.wire, 1, k), how),
                                    ![l].ended = TRUE]
  <2>1. CASE Finishes(l)
    <3>1. conn' = [conn EXCEPT ![l].wire = Append(c.wire, <<"eof">>), ![l].ended = TRUE]
      BY <1>1, <1>2, <2>1 DEF Finishes
    <3>2. SubSeq(c.wire, 1, Len(c.wire)) = c.wire /\ Len(c.wire) \in 0..Len(c.wire)
      BY <1>2
    <3> QED BY <3>1, <3>2
  <2>2. ASSUME NEW how \in {<<"eof">>, <<"reset">>}, Breaks(l, how)
        PROVE  <1>4!2
    <3>1. conn' = [conn EXCEPT ![l].wire = <<how>>, ![l].ended = TRUE]
      BY <2>2 DEF Breaks
    <3>2. SubSeq(c.wire, 1, 0) = <<>> /\ 0 \in 0..Len(c.wire)
      BY <1>2
    <3>3. Append(SubSeq(c.wire, 1, 0), how) = <<how>>
      <4>1. PICK q : q = <<>>
        OBVIOUS
      <4>2. Append(q, how) = <<how>>
        BY <4>1
      <4> QED BY <3>2, <4>1, <4>2
    <3> QED BY <3>1, <3>2, <3>3
  <2> QED BY <1>4, <2>1, <2>2
<1>5. CASE ~Vanishes(l)
  <2>1. PICK k \in 0..Len(c.wire), how \in {<<"eof">>, <<"reset">>} :
          conn' = [conn EXCEPT ![l].wire = Append(SubSeq(c.wire, 1, k), how),
                               ![l].ended = TRUE]
    BY <1>4, <1>5
  <2>2. PICK d : d = [c EXCEPT !.wire = Append(SubSeq(c.wire, 1, k), how), !.ended = TRUE]
    OBVIOUS
  <2>3. ConnInv(d)
    BY <1>2, <2>2, EndedKeeps
  <2>4. conn' = [conn EXCEPT ![l] = d]
    BY <1>1, <1>2, <2>1, <2>2
  <2> QED BY <2>3, <2>4, OneStream
<1> QED BY <1>3, <1>5

LEMMA RelayKeeps ==
  ASSUME StreamsInv, NEW l \in Logins, Relay(l)
  PROVE  StreamsInv'
<1>1. ConnInv(Taking(conn[l]))
  BY TakingKeeps DEF StreamsInv, Relay
<1>2. conn' = [conn EXCEPT ![l] = Taking(conn[l])]
  BY DEF Relay
<1> QED BY <1>1, <1>2, OneStream

LEMMA DisconnectKeeps ==
  ASSUME StreamsInv, NEW l \in Logins, Disconnect(l)
  PROVE  StreamsInv'
<1>1. ConnInv(Hangup(conn[l]))
  <2>1. ConnInv(conn[l])
    BY DEF StreamsInv
  <2>2. PICK n \in Nat : Heard(conn[l], n)
    BY <2>1 DEF ConnInv
  <2> QED BY <2>1, <2>2, HangupKeeps DEF ConnInv
<1>2. conn' = [conn EXCEPT ![l] = Hangup(conn[l])]
  BY DEF Disconnect, StreamsInv
<1> QED BY <1>1, <1>2, OneStream

\* A stream that begins: with the snapshot, or with the proxy's error.
LEMMA ClosedKeeps ==
  /\ ConnInv(Closed) /\ Closed \in Conn
  /\ Closed.open = FALSE /\ Closed.ended = FALSE /\ Closed.lost = FALSE
  /\ Closed.buf = <<>> /\ Closed.sent = <<>> /\ Closed.got = <<>>
<1>1. PICK q : q = <<>>
  OBVIOUS
<1>2. Len(q) = 0 /\ q \in Seq(Lines) /\ q \in Seq(Sent) /\ q \in Seq(Events)
  BY <1>1
<1>3. PICK c : c = [open |-> FALSE, wire |-> q, buf |-> q, sent |-> q, got |-> q,
                    ended |-> FALSE, lost |-> FALSE]
  OBVIOUS
<1>4. c \in Conn /\ c.open = FALSE /\ c.ended = FALSE /\ c.lost = FALSE /\ c.buf = q /\ c.got = q /\ c.sent = q
  BY <1>2, <1>3 DEF Conn
<1>5. Heard(c, 0)
  <2>1. Len(c.sent) = 0 /\ Len(c.got) = 0
    BY <1>2, <1>4
  <2> QED BY <2>1 DEF Heard
<1>6. ConnInv(c)
  <2>1. Len(c.buf) = 0 /\ DOMAIN c.got = {}
    BY <1>1, <1>2, <1>4
  <2>2. Len(c.buf) <= 1
    BY <2>1
  <2> QED BY <1>4, <1>5, <2>1, <2>2 DEF ConnInv, OpenInv
<1> QED BY <1>1, <1>3, <1>4, <1>6 DEF Closed

LEMMA OpenedKeeps ==
  ASSUME NEW e \in Sent
  PROVE  /\ ConnInv(Opened(e)) /\ Opened(e).open /\ ~Opened(e).ended
         /\ Opened(e).wire \in Seq(Lines) /\ Len(Opened(e).wire) = 2
<1>1. PICK z : z = Closed
  OBVIOUS
<1>2. z \in Conn /\ ~z.open /\ ~z.ended /\ z.buf = <<>> /\ z.sent = <<>> /\ z.got = <<>>
      /\ e \in Events
  BY <1>1, ClosedKeeps DEF Sent
<1>3. PICK x, y : x = <<"data", e>> /\ y = <<"blank">>
  OBVIOUS
<1>4. x \in Lines /\ y \in Lines /\ x[1] = "data" /\ x[2] = e /\ y[1] = "blank"
  BY <1>2, <1>3, LineShapes
<1>5. PICK v, s, q : v = <<x, y>> /\ s = <<e>> /\ q = <<>>
  OBVIOUS
<1>6. /\ v \in Seq(Lines) /\ Len(v) = 2 /\ v[1] = x /\ v[2] = y
      /\ s \in Seq(Sent) /\ Len(s) = 1 /\ s[1] = e
      /\ q \in Seq(Sent) /\ q \in Seq(Events) /\ Len(q) = 0 /\ DOMAIN q = {}
  BY <1>2, <1>4, <1>5
<1>7. PICK d : d = [z EXCEPT !.open = TRUE, !.sent = s, !.wire = v]
  OBVIOUS
<1>8. /\ d \in Conn /\ d.open /\ ~d.ended /\ d.wire = v /\ d.buf = q /\ d.sent = s
      /\ d.got = q
  BY <1>2, <1>5, <1>6, <1>7 DEF Conn
<1>9. Heard(d, 0)
  <2>1. Len(d.sent) = 1 /\ Len(d.got) = 0
    BY <1>6, <1>8
  <2> QED BY <2>1 DEF Heard
<1>10. \E f : Counts(d, f)
  <2>1. PICK f : f = [i \in 0..2 |-> IF i = 0 THEN 0 ELSE 1]
    OBVIOUS
  <2>2. f \in [0..2 -> 0..1] /\ f[0] = 0 /\ f[1] = 1 /\ f[2] = 1
    BY <2>1
  <2>3. ~Pending(d, 0) /\ Pending(d, 1) /\ ~Pending(d, 2)
    BY <1>4, <1>5, <1>6, <1>8 DEF Pending
  <2>4. LineInv(d, f, 1) /\ LineInv(d, f, 2)
    BY <1>4, <1>6, <1>8, <2>2, <2>3 DEF LineInv
  <2>5. Len(d.wire) = 2 /\ Len(d.sent) = 1 /\ Len(d.got) + Len(d.buf) = 0
    BY <1>6, <1>8
  <2>6. \A i \in 1..2 : LineInv(d, f, i)
    BY <2>4
  <2> QED BY <2>2, <2>3, <2>5, <2>6 DEF Counts
<1>11. ConnInv(d)
  <2>1. Len(d.got) = 0 /\ Len(d.buf) <= 1 /\ d.buf = <<>> /\ DOMAIN d.got = {}
    BY <1>5, <1>6, <1>8
  <2>2. OpenInv(d)
    BY <1>9, <1>10, <2>1 DEF OpenInv
  <2> QED BY <1>8, <1>9, <2>1, <2>2 DEF ConnInv
<1>12. Opened(e) = d
  BY <1>1, <1>3, <1>5, <1>7 DEF Opened
<1> QED BY <1>6, <1>8, <1>11, <1>12

LEMMA ConnectKeeps ==
  ASSUME StreamsInv, StateTypes, NEW l \in Logins, Connect(l)
  PROVE  StreamsInv'
<1>1. PICK z : z = Closed
  OBVIOUS
<1>2. z \in Conn /\ ~z.open /\ ~z.ended /\ z.buf = <<>> /\ z.sent = <<>> /\ z.got = <<>>
  BY <1>1, ClosedKeeps
<1>3. CASE There(l)
  <2>1. PICK e : e = worker[l].state
    OBVIOUS
  <2>2. e \in Sent
    <3>1. e \in {"none", "gone"} \cup Changing \cup Final /\ e \notin {"none", "gone"}
      BY <1>3, <2>1 DEF StateTypes, Worker, There
    <3>2. "proxyError" \notin Changing \cup Final
      BY DEF Changing, Final
    <3> QED BY <3>1, <3>2 DEF Sent, Events
  <2>3. conn' = [conn EXCEPT ![l] = Opened(e)]
    BY <1>3, <2>1 DEF Connect
  <2> QED BY <2>2, <2>3, OpenedKeeps, OneStream
<1>5. CASE ~There(l) /\ Stored(l)
  <2>1. PICK c, d : /\ c = Opened("DONE")
                    /\ d = [c EXCEPT !.wire = Append(c.wire, <<"eof">>), !.ended = TRUE]
    OBVIOUS
  <2>2. ConnInv(c) /\ c.open /\ ~c.ended /\ c.wire \in Seq(Lines) /\ Len(c.wire) = 2
    BY <2>1, OpenedKeeps DEF Sent, Events, Final
  <2>3. SubSeq(c.wire, 1, 2) = c.wire /\ 2 \in 0..Len(c.wire)
    BY <2>2
  <2>4. d = [c EXCEPT !.wire = Append(SubSeq(c.wire, 1, 2), <<"eof">>), !.ended = TRUE]
    BY <2>1, <2>3
  <2>5. ConnInv(d)
    BY <2>2, <2>3, <2>4, EndedKeeps
  <2>6. conn' = [conn EXCEPT ![l] = d]
    BY <1>5, <2>1 DEF Connect
  <2> QED BY <2>5, <2>6, OneStream
<1>4. CASE ~There(l) /\ ~Stored(l)
  <2>1. PICK h, q : h = <<"proxyError">> /\ q = <<>>
    OBVIOUS
  <2>2. /\ h \in Seq(Events) /\ Len(h) = 1 /\ h[1] = "proxyError"
        /\ q \in Seq(Lines) /\ q \in Seq(Sent) /\ Len(q) = 0
    BY <2>1 DEF Events
  <2>3. PICK d : d = [z EXCEPT !.got = h]
    OBVIOUS
  <2>4. d \in Conn /\ ~d.open /\ d.buf = q /\ d.sent = q /\ d.got = h
    BY <1>2, <2>1, <2>2, <2>3 DEF Conn
  <2>5. Heard(d, 0)
    <3>1. Len(d.sent) = 0 /\ Len(d.got) = 1 /\ d.got[1] = "proxyError"
      BY <2>2, <2>4
    <3> QED BY <3>1 DEF Heard
  <2>6. ConnInv(d)
    <3>1. Len(d.buf) <= 1
      BY <2>2, <2>4
    <3>2. \A i \in DOMAIN d.got : d.got[i] \notin Final
      BY <2>1, <2>4 DEF Final
    <3> QED BY <2>4, <2>5, <3>1, <3>2 DEF ConnInv, OpenInv
  <2>7. conn' = [conn EXCEPT ![l] = d]
    BY <1>1, <1>4, <2>1, <2>3 DEF Connect
  <2> QED BY <2>6, <2>7, OneStream
<1> QED BY <1>3, <1>4, <1>5
----------------------------------------------------------------------------
(* Logins, sessions and calls                                              *)

\* The parts but that of the streams.
RestInv == StateTypes /\ CallInv

LEMMA Numbers ==
  /\ MaxTime \in Nat /\ MaxConns \in Nat
  /\ StateTypes => Pruned \in [Logins -> Times \cup {None}]
BY ProxyConstants DEF StateTypes, Pruned

\* The service's own steps leave the sessions, the calls and the clock alone.
LEMMA LoginStep ==
  ASSUME RestInv,
         \/ Prune
         \/ \E l \in Logins : \/ Post(l) \/ Answered(l) \/ Refused(l) \/ LoginLost(l)
                             \/ Connect(l)
  PROVE  RestInv'
<1>1. UNCHANGED <<worker, call, now>>
  BY DEF Prune, Post, Answered, Refused, LoginLost, Connect
<1>2. CASE Prune
  BY <1>1, <1>2, Numbers DEF Prune, RestInv, StateTypes, CallInv
<1>3. ASSUME NEW l \in Logins,
             Post(l) \/ Answered(l) \/ Refused(l) \/ LoginLost(l) \/ Connect(l)
      PROVE  RestInv'
  <2>1. conns' \in [Logins -> 0..MaxConns]
    <3>1. CASE Connect(l)
      <4>1. conns[l] + 1 \in 0..MaxConns
        BY <3>1, Numbers DEF Connect, RestInv, StateTypes
      <4> QED BY <3>1, <4>1 DEF Connect, RestInv, StateTypes
    <3>2. CASE ~Connect(l)
      BY <1>3, <3>2 DEF Post, Answered, Refused, LoginLost, RestInv, StateTypes
    <3> QED BY <3>1, <3>2
  <2>2. login' \in [Logins -> {"idle", "posted", "known", "refused", "lost"}]
    BY <1>3 DEF Post, Answered, Refused, LoginLost, Connect, RestInv, StateTypes
  <2>3. entry' \in [Logins -> Times \cup {None}]
    <3>1. CASE Post(l) \/ Connect(l)
      BY <3>1, Numbers DEF Post, Connect, RestInv
    <3>2. CASE Answered(l) \/ Refused(l) \/ LoginLost(l)
      BY <3>2 DEF Answered, Refused, LoginLost, RestInv, StateTypes
    <3> QED BY <1>3, <3>1, <3>2
  <2>4. StateTypes'
    BY <1>1, <2>1, <2>2, <2>3 DEF RestInv, StateTypes
  <2> QED BY <1>1, <2>4 DEF RestInv, CallInv
<1> QED BY <1>2, <1>3

\* The session of l becomes w: what is past the code stays so.
Becomes(l, w) ==
  /\ w \in Worker /\ worker' = [worker EXCEPT ![l] = w]
  /\ worker[l].state \in After => w.state \in After

\* The worker's session only goes on.
LEMMA WorkerStep ==
  ASSUME RestInv, NEW l \in Logins,
         \/ Taken(l) \/ WorkerForgets(l)
         \/ \E to \in Changing \cup Final, kick \in BOOLEAN : Moves(l, to, kick)
  PROVE  RestInv'
<1>1. UNCHANGED <<login, entry, call, conns, now>>
  BY DEF Taken, WorkerForgets, Moves
<1>2. PICK w : Becomes(l, w)
  <2>1. worker \in [Logins -> Worker] /\ worker[l] \in Worker /\ now \in Times
    BY DEF RestInv, StateTypes
  <2>2. CASE Taken(l)
    <3>1. PICK v, w : v = worker[l] /\ w = [v EXCEPT !.state = "LOGGING_IN", !.born = now]
      OBVIOUS
    <3>2. w \in Worker
      BY <2>1, <3>1 DEF Worker, Changing
    <3>3. worker' = [worker EXCEPT ![l] = w] /\ worker[l].state = "none"
      BY <2>1, <2>2, <3>1 DEF Taken
    <3>4. "none" \notin After
      BY DEF After, Final
    <3> QED BY <3>2, <3>3, <3>4 DEF Becomes
  <2>3. CASE WorkerForgets(l)
    <3>1. PICK v, w : v = worker[l] /\ w = [v EXCEPT !.state = "gone"]
      OBVIOUS
    <3>2. w \in Worker /\ w.state \in After
      BY <2>1, <3>1 DEF Worker, After
    <3>3. worker' = [worker EXCEPT ![l] = w]
      BY <2>1, <2>3, <3>1 DEF WorkerForgets
    <3> QED BY <3>2, <3>3 DEF Becomes
  <2>4. ASSUME NEW to \in Changing \cup Final, NEW kick \in BOOLEAN, Moves(l, to, kick)
        PROVE  \E w : Becomes(l, w)
    <3>1. PICK v, at : v = worker[l] /\ at = IF to = "DONE" THEN now ELSE v.saved
      OBVIOUS
    <3>2. PICK w : w = [v EXCEPT !.state = to, !.kicked = kick, !.saved = at]
      OBVIOUS
    <3>3. w \in Worker /\ w.state = to
      BY <2>1, <3>1, <3>2 DEF Worker
    <3>4. worker' = [worker EXCEPT ![l] = w]
      BY <2>1, <2>4, <3>1, <3>2 DEF Moves
    <3>5. v.state \in After => to \in After
      BY <2>4, <3>1 DEF Moves, After, Changing, Final
    <3> QED BY <3>1, <3>3, <3>4, <3>5 DEF Becomes
  <2> QED BY <2>2, <2>3, <2>4
<1>3. /\ worker' \in [Logins -> Worker]
      /\ \A k \in Logins : worker[k].state \in After => worker'[k].state \in After
  BY <1>2 DEF Becomes, RestInv, StateTypes
<1>4. StateTypes'
  BY <1>1, <1>3 DEF RestInv, StateTypes
<1>5. CallInv'
  <2>1. ASSUME NEW m \in Calls, call[m].answer = 202
        PROVE  worker'[call[m].sid].state \in After
    <3>1. call[m].sid \in Logins
      BY <2>1 DEF RestInv, StateTypes, CallType, CallInv, CallFact
    <3> QED BY <1>3, <2>1, <3>1 DEF RestInv, CallInv
  <2> QED BY <1>1, <2>1 DEF RestInv, CallInv
<1> QED BY <1>4, <1>5 DEF RestInv

LEMMA StreamStep ==
  ASSUME RestInv, UNCHANGED <<login, worker, entry, call, conns, now>>
  PROVE  RestInv'
BY DEF RestInv, StateTypes, CallInv

LEMMA TickStep == RestInv /\ Tick => RestInv'
<1> SUFFICES ASSUME RestInv, Tick PROVE RestInv'
  OBVIOUS
<1>1. now' \in Times
  BY Numbers DEF Tick, Times, RestInv, StateTypes
<1> QED BY <1>1 DEF Tick, RestInv, StateTypes, CallInv

\* call m becomes d, which is no new acceptance
CallBecomes(m, d) ==
  /\ d \in CallType /\ CallFact(d) /\ call' = [call EXCEPT ![m] = d]
  /\ d.answer = 202 => d.sid = call[m].sid /\ call[m].answer = 202

\* A call that is answered, told or refused here.
LEMMA CallStep ==
  ASSUME RestInv, NEW m \in Calls,
         (\E l \in Logins : Submit(m, l)) \/ MfaAnswered(m) \/ MfaLost(m)
  PROVE  RestInv'
<1>1. PICK c : c = call[m]
  OBVIOUS
<1>2. c \in CallType /\ CallFact(c) /\ call \in [Calls -> CallType]
  BY <1>1 DEF RestInv, StateTypes, CallInv
<1>3. PICK d : CallBecomes(m, d)
  <2>1. ASSUME NEW l \in Logins, Submit(m, l)
        PROVE  \E d : CallBecomes(m, d)
    <3>1. CASE Known(l)
      <4>1. PICK p : p = "posted"
        OBVIOUS
      <4>2. p \in {"idle", "posted", "told"} /\ 0 \in Answers \cap Statuses /\ l # None /\ p # "idle"
        BY <4>1, ProxyConstants DEF Answers, Statuses
      <4>3. PICK d : d = [NotCalled EXCEPT !.pc = p, !.sid = l]
        OBVIOUS
      <4>4. call' = [call EXCEPT ![m] = d]
        BY <2>1, <3>1, <4>1, <4>3 DEF Submit
      <4>5. d = [pc |-> p, sid |-> l, answer |-> 0, status |-> 0]
        BY <4>3 DEF NotCalled
      <4>6. d \in CallType
        BY <4>2, <4>5 DEF CallType
      <4>7. ~Unsent(d) /\ d.sid = l
        BY <4>2, <4>5 DEF Unsent
      <4>8. d.answer = 0 /\ d.status = 0
        BY <4>5
      <4>9. CallFact(d)
        BY <4>7, <4>8 DEF CallFact
      <4>10. d.answer # 202
        BY <4>8
      <4>11. CallBecomes(m, d)
        BY <4>4, <4>6, <4>9, <4>10 DEF CallBecomes
      <4> QED BY <4>11
    <3>2. CASE ~Known(l)
      <4>1. PICK p, s : p = "told" /\ s = 404
        OBVIOUS
      <4>2. p \in {"idle", "posted", "told"} /\ 0 \in Answers \cap Statuses /\ s \in Statuses /\ p # "idle"
        BY <4>1 DEF Answers, Statuses
      <4>3. PICK d : d = [NotCalled EXCEPT !.pc = p, !.status = s]
        OBVIOUS
      <4>4. call' = [call EXCEPT ![m] = d]
        BY <2>1, <3>2, <4>1, <4>3 DEF Submit
      <4>5. d = [pc |-> p, sid |-> None, answer |-> 0, status |-> s]
        BY <4>3 DEF NotCalled
      <4>6. d \in CallType
        BY <4>2, <4>5 DEF CallType
      <4>7. s # 202 /\ d.answer = 0 /\ d.status = s /\ d.sid = None
        BY <4>1, <4>5
      <4>8. ~Unsent(d)
        BY <4>2, <4>5 DEF Unsent
      <4>9. CallFact(d)
        BY <4>7, <4>8 DEF CallFact
      <4>10. d.answer # 202
        BY <4>7
      <4>11. CallBecomes(m, d)
        BY <4>4, <4>6, <4>9, <4>10 DEF CallBecomes
      <4> QED BY <4>11
    <3> QED BY <3>1, <3>2
  <2>2. CASE MfaAnswered(m)
    <3>1. PICK p, a : p = "told" /\ a = c.answer
      OBVIOUS
    <3>2. p \in {"idle", "posted", "told"} /\ p # "idle" /\ a \in Answers /\ a \in Statuses /\ a # 0
      BY <1>1, <1>2, <2>2, <3>1 DEF MfaAnswered, CallType, Statuses
    <3>3. call' = [call EXCEPT ![m].pc = p, ![m].status = a]
      BY <1>1, <2>2, <3>1 DEF MfaAnswered, Mapped
    <3>4. PICK d : d = [c EXCEPT !.pc = p, !.status = a]
      OBVIOUS
    <3>5. call' = [call EXCEPT ![m] = d]
      BY <1>1, <1>2, <3>3, <3>4
    <3>6. d \in CallType /\ d.pc = p /\ d.sid = c.sid /\ d.answer = c.answer /\ d.status = a
      BY <1>2, <3>2, <3>4 DEF CallType
    <3>7. c.sid # None
      BY <1>2, <3>1, <3>2 DEF CallFact
    <3>8. ~Unsent(d)
      BY <3>2, <3>6 DEF Unsent
    <3>9. d.answer = a /\ d.status = a /\ d.sid # None /\ a # 0
      BY <3>1, <3>2, <3>6, <3>7
    <3>10. CallFact(d)
      BY <3>8, <3>9 DEF CallFact
    <3>11. CallBecomes(m, d)
      BY <1>1, <3>5, <3>6, <3>10 DEF CallBecomes
    <3> QED BY <3>11
  <2>3. CASE MfaLost(m)
    <3>1. PICK p, s : p = "told" /\ s = 502
      OBVIOUS
    <3>2. p # "idle"
      BY <3>1
    <3>3. call' = [call EXCEPT ![m].pc = p, ![m].status = s]
      BY <2>3, <3>1 DEF MfaLost
    <3>4. PICK d : d = [c EXCEPT !.pc = p, !.status = s]
      OBVIOUS
    <3>5. call' = [call EXCEPT ![m] = d]
      BY <1>1, <1>2, <3>3, <3>4
    <3>6. d \in CallType /\ d.pc = p /\ d.sid = c.sid /\ d.answer = c.answer /\ d.status = s
      <4>1. p \in {"idle", "posted", "told"}
        BY <3>1
      <4>2. s \in Statuses
        BY <3>1 DEF Statuses
      <4> QED BY <1>2, <3>4, <4>1, <4>2 DEF CallType
    <3>7. ~Unsent(d) /\ ~Unsent(c)
      BY <1>1, <2>3, <3>2, <3>6 DEF Unsent, MfaLost
    <3>8. d.answer = c.answer /\ d.sid = c.sid /\ d.status = s /\ s # 202 /\ s # 404 /\ s # 409
      BY <3>1, <3>6
    <3>9. CallFact(d)
      BY <1>2, <3>7, <3>8 DEF CallFact
    <3>10. CallBecomes(m, d)
      BY <1>1, <3>5, <3>6, <3>9 DEF CallBecomes
    <3> QED BY <3>10
  <2> QED BY <2>1, <2>2, <2>3
<1>4. UNCHANGED <<login, worker, conns, now>> /\ entry' \in [Logins -> Times \cup {None}]
  BY Numbers DEF Submit, MfaAnswered, MfaLost, RestInv, StateTypes
<1>5. StateTypes'
  BY <1>2, <1>3, <1>4 DEF RestInv, StateTypes, CallBecomes
<1>6. \A n \in Calls : /\ CallFact(call'[n])
                       /\ call'[n].answer = 202 =>
                            call[n].answer = 202 /\ call'[n].sid = call[n].sid
  BY <1>1, <1>2, <1>3 DEF RestInv, CallInv, CallBecomes
<1>7. CallInv'
  BY <1>4, <1>6 DEF RestInv, CallInv
<1> QED BY <1>5, <1>7 DEF RestInv

\* The worker takes a code only for a session that waits for one, which gave none.
LEMMA HandledStep ==
  ASSUME RestInv, NEW m \in Calls, Handled(m)
  PROVE  RestInv'
<1>1. PICK c, l : c = call[m] /\ l = c.sid
  OBVIOUS
<1>2. c \in CallType /\ CallFact(c) /\ call \in [Calls -> CallType]
  BY <1>1 DEF RestInv, StateTypes, CallInv
<1>3. c.pc # "idle" /\ l # None /\ l \in Logins /\ c.answer = 0
  BY <1>1, <1>2 DEF Handled, CallType
<1>4. PICK a : a = IF Waits(l) THEN 202 ELSE IF There(l) THEN 409 ELSE 404
  OBVIOUS
<1>5. PICK d : d = [c EXCEPT !.answer = a]
  OBVIOUS
<1>6. /\ a \in Answers /\ a # 0 /\ d \in CallType /\ d.pc = c.pc /\ d.sid = l
      /\ d.answer = a /\ d.status = c.status
  BY <1>1, <1>2, <1>4, <1>5 DEF CallType, Answers
<1>7. call' = [call EXCEPT ![m] = d]
  BY <1>1, <1>2, <1>4, <1>5 DEF Handled
<1>8. CallFact(d)
  <2>1. c.status # 202 /\ c.status \notin {404, 409}
    BY <1>1, <1>2, <1>3 DEF CallFact, Unsent
  <2> QED BY <1>2, <1>3, <1>6, <2>1 DEF CallFact, Unsent
<1>9. /\ worker' \in [Logins -> Worker]
      /\ \A k \in Logins : worker[k].state \in After => worker'[k].state \in After
      /\ Waits(l) => worker'[l].state \in After
  <2>1. worker \in [Logins -> Worker] /\ worker[l] \in Worker
    BY <1>3 DEF RestInv, StateTypes
  <2>2. PICK v, w : v = worker[l] /\ w = [v EXCEPT !.state = "FETCHING_DOCS"]
    OBVIOUS
  <2>3. w \in Worker /\ w.state \in After
    BY <2>1, <2>2 DEF Worker, Changing, After
  <2>4. IF Waits(l) THEN worker' = [worker EXCEPT ![l] = w] ELSE UNCHANGED worker
    BY <1>1, <2>1, <2>2 DEF Handled
  <2> QED BY <1>3, <2>1, <2>3, <2>4
<1>10. UNCHANGED <<login, entry, conns, now>>
  BY DEF Handled
<1>11. StateTypes'
  BY <1>2, <1>6, <1>7, <1>9, <1>10 DEF RestInv, StateTypes
<1>12. Waits(l) => \A n \in Calls : call[n].sid = l => call[n].answer # 202
  BY DEF Waits, RestInv, CallInv, After, Final
<1>13. /\ call'[m] = d /\ \A n \in Calls \ {m} : call'[n] = call[n]
  BY <1>2, <1>6, <1>7
<1>14. a = 202 => Waits(l)
  BY <1>4
<1>15. CallInv'
  <2> SUFFICES ASSUME NEW n \in Calls
               PROVE  /\ CallFact(call'[n])
                      /\ call'[n].answer = 202 =>
                           /\ worker'[call'[n].sid].state \in After
                           /\ \A k \in Calls \ {n} :
                                call'[k].sid = call'[n].sid => call'[k].answer # 202
    BY DEF CallInv
  <2>1. CallFact(call'[n])
    BY <1>8, <1>13 DEF RestInv, CallInv
  <2>2. ASSUME call'[n].answer = 202
        PROVE  worker'[call'[n].sid].state \in After
    <3>1. CASE n = m
      BY <1>6, <1>9, <1>13, <1>14, <2>2, <3>1
    <3>2. CASE n # m
      <4>1. call[n].answer = 202 /\ call'[n].sid = call[n].sid
        BY <1>13, <2>2, <3>2
      <4>2. call[n].sid \in Logins /\ worker[call[n].sid].state \in After
        BY <4>1 DEF RestInv, StateTypes, CallType, CallInv, CallFact
      <4> QED BY <1>9, <4>1, <4>2
    <3> QED BY <3>1, <3>2
  <2>3. ASSUME call'[n].answer = 202, NEW k \in Calls \ {n}, call'[k].sid = call'[n].sid
        PROVE  call'[k].answer # 202
    <3>1. CASE n = m
      BY <1>6, <1>12, <1>13, <1>14, <2>3, <3>1
    <3>2. CASE k = m
      <4>1. call[n].answer = 202 /\ call[n].sid = l
        BY <1>6, <1>13, <2>3, <3>2
      <4> QED BY <1>6, <1>12, <1>13, <1>14, <3>2, <4>1
    <3>3. CASE n # m /\ k # m
      BY <1>13, <2>3, <3>3 DEF RestInv, CallInv
    <3> QED BY <3>1, <3>2, <3>3
  <2> QED BY <2>1, <2>2, <2>3
<1> QED BY <1>11, <1>15 DEF RestInv
----------------------------------------------------------------------------
(* The invariant, and what it is for                                       *)

LEMMA WInitInv == Init => WInv
<1> SUFFICES ASSUME Init PROVE WInv
  OBVIOUS
<1>1. StateTypes
  <2>1. 0 \in Times /\ 0 \in 0..MaxConns
    BY Numbers DEF Times
  <2>2. [state |-> "none", born |-> 0, saved |-> None, kicked |-> FALSE] \in Worker
    BY <2>1 DEF Worker
  <2>3. NotCalled \in CallType
    <3>1. 0 \in Answers /\ 0 \in Statuses
      BY DEF Answers, Statuses
    <3> QED BY <3>1 DEF NotCalled, CallType
  <2> QED BY <2>1, <2>2, <2>3 DEF Init, StateTypes
<1>2. CallInv
  <2>1. CallFact(NotCalled) /\ NotCalled.answer = 0
    BY DEF NotCalled, CallFact
  <2> QED BY <2>1 DEF Init, CallInv
<1>3. StreamsInv
  BY ClosedKeeps DEF Init, StreamsInv
<1> QED BY <1>1, <1>2, <1>3 DEF WInv

LEMMA SentFacts ==
  Changing \cup Final \subseteq Sent /\ "FETCHING_DOCS" \in Sent
BY DEF Sent, Events, Changing, Final

LEMMA WNextInv == WInv /\ [Next]_vars => WInv'
<1> SUFFICES ASSUME WInv, [Next]_vars PROVE WInv'
  OBVIOUS
<1>1. RestInv /\ StreamsInv
  BY DEF WInv, RestInv
<1>2. SUFFICES RestInv' /\ StreamsInv'
  BY DEF WInv, RestInv
<1>3. ASSUME \/ Prune
             \/ \E l \in Logins : Post(l) \/ Answered(l) \/ Refused(l) \/ LoginLost(l)
      PROVE  RestInv' /\ StreamsInv'
  <2>1. UNCHANGED conn
    BY <1>3 DEF Prune, Post, Answered, Refused, LoginLost
  <2> QED BY <1>1, <1>3, <2>1, LoginStep, SameStreams
<1>4. ASSUME NEW l \in Logins, Taken(l) \/ WorkerForgets(l)
      PROVE  RestInv' /\ StreamsInv'
  <2>1. UNCHANGED conn
    BY <1>4 DEF Taken, WorkerForgets
  <2> QED BY <1>1, <1>4, <2>1, WorkerStep, SameStreams
<1>5. ASSUME NEW l \in Logins, NEW to \in Changing \cup Final, NEW kick \in BOOLEAN,
             Moves(l, to, kick)
      PROVE  RestInv' /\ StreamsInv'
  <2>1. conn' = Sends(l, to) /\ to \in Sent
    BY <1>5, SentFacts DEF Moves
  <2>2. RestInv'
    BY <1>1, <1>5, WorkerStep
  <2> QED BY <1>1, <2>1, <2>2, SendsKeeps
<1>6. ASSUME NEW l \in Logins,
             \/ Finishes(l) \/ Vanishes(l)
             \/ \E how \in {<<"eof">>, <<"reset">>} : Breaks(l, how)
      PROVE  RestInv' /\ StreamsInv'
  <2>1. UNCHANGED <<login, worker, entry, call, conns, now>>
    BY <1>6 DEF Finishes, Vanishes, Breaks
  <2>2. StreamsInv'
    BY <1>1, <1>6, EndsKeeps
  <2> QED BY <1>1, <2>1, <2>2, StreamStep
<1>7. ASSUME NEW l \in Logins, Pings(l) \/ Comments(l)
      PROVE  RestInv' /\ StreamsInv'
  <2>1. UNCHANGED <<login, worker, entry, call, conns, now>>
    BY <1>7 DEF Pings, Comments
  <2> QED BY <1>1, <1>7, <2>1, StreamStep, PingsKeeps
<1>8. ASSUME NEW l \in Logins, Disconnect(l) \/ Relay(l)
      PROVE  RestInv' /\ StreamsInv'
  <2>1. UNCHANGED <<login, worker, entry, call, conns, now>>
    BY <1>8 DEF Disconnect, Relay
  <2> QED BY <1>1, <1>8, <2>1, StreamStep, DisconnectKeeps, RelayKeeps
<1>9. ASSUME NEW l \in Logins, Connect(l)
      PROVE  RestInv' /\ StreamsInv'
  BY <1>1, <1>9, LoginStep, ConnectKeeps DEF RestInv
<1>10. ASSUME NEW m \in Calls, Handled(m)
       PROVE  RestInv' /\ StreamsInv'
  <2>1. RestInv'
    BY <1>1, <1>10, HandledStep
  <2>2. CASE Waits(call[m].sid)
    <3>1. call[m].sid \in Logins
      BY <1>1, <1>10 DEF RestInv, StateTypes, CallType, Handled
    <3>2. conn' = Sends(call[m].sid, "FETCHING_DOCS")
      BY <1>10, <2>2 DEF Handled
    <3> QED BY <1>1, <2>1, <3>1, <3>2, SendsKeeps, SentFacts
  <2>3. CASE ~Waits(call[m].sid)
    <3>1. UNCHANGED conn
      BY <1>10, <2>3 DEF Handled
    <3> QED BY <1>1, <2>1, <3>1, SameStreams
  <2> QED BY <2>2, <2>3
<1>11. ASSUME NEW m \in Calls,
              (\E l \in Logins : Submit(m, l)) \/ MfaAnswered(m) \/ MfaLost(m)
       PROVE  RestInv' /\ StreamsInv'
  <2>1. UNCHANGED conn
    BY <1>11 DEF Submit, MfaAnswered, MfaLost
  <2>2. RestInv'
    BY <1>1, <1>11, CallStep
  <2> QED BY <1>1, <2>1, <2>2, SameStreams
<1>12. CASE Tick
  <2>1. UNCHANGED conn
    BY <1>12 DEF Tick
  <2> QED BY <1>1, <1>12, <2>1, TickStep, SameStreams
<1>13. CASE UNCHANGED vars
  <2>1. UNCHANGED <<login, worker, entry, call, conns, now>> /\ UNCHANGED conn
    BY <1>13 DEF vars
  <2> QED BY <1>1, <2>1, StreamStep, SameStreams
<1>14. CASE \E l \in Logins :
              \/ Post(l) \/ Taken(l) \/ Answered(l) \/ Refused(l) \/ LoginLost(l)
              \/ \E to \in Changing \cup Final, kick \in BOOLEAN : Moves(l, to, kick)
              \/ Finishes(l) \/ Pings(l) \/ Comments(l) \/ WorkerForgets(l)
              \/ Vanishes(l) \/ \E how \in {<<"eof">>, <<"reset">>} : Breaks(l, how)
              \/ Connect(l) \/ Disconnect(l) \/ Relay(l)
  BY <1>3, <1>4, <1>5, <1>6, <1>7, <1>8, <1>9, <1>14
<1>15. CASE \E m \in Calls : \/ \E l \in Logins : Submit(m, l)
                             \/ Handled(m) \/ MfaAnswered(m) \/ MfaLost(m)
  BY <1>10, <1>11, <1>15
<1> QED BY <1>3, <1>12, <1>13, <1>14, <1>15 DEF Next

\* The inductive invariant holds in every reachable state of the proxy.
THEOREM WInvariance == Spec => []WInv
BY WInitInv, WNextInv, PTL DEF Spec

\* What of a stream is on its way is a line the worker may have sent.
LEMMA TypedStream ==
  ASSUME NEW c \in Conn, Len(c.buf) <= 1
  PROVE  /\ DOMAIN c = DOMAIN Closed /\ {c.open, c.ended, c.lost} \subseteq BOOLEAN
         /\ \A i \in DOMAIN c.wire : c.wire[i] \in Lines
         /\ Len(c.buf) <= 1 /\ {c.sent[i] : i \in DOMAIN c.sent} \subseteq Events
<1>1. DOMAIN c = DOMAIN Closed
  BY DEF Conn, Closed
<1>2. c.open \in BOOLEAN /\ c.ended \in BOOLEAN /\ c.lost \in BOOLEAN
  BY DEF Conn
<1>3. c.wire \in Seq(Lines) /\ c.sent \in Seq(Sent)
  BY DEF Conn
<1>4. \A i \in DOMAIN c.sent : c.sent[i] \in Events
  BY <1>3 DEF Sent
<1> QED BY <1>1, <1>2, <1>3, <1>4

\* The proxy is well-formed, and a user is told that the code was accepted only if
\* the worker took this very one, and its login went on with it
\* (worker_proxy.py:94-100).
THEOREM ProxyInvProved == Spec => []ProxyInv
<1>1. WInv => ProxyInv
  <2> SUFFICES ASSUME WInv PROVE ProxyInv
    OBVIOUS
  <2>1. StateTypes /\ CallInv /\ StreamsInv
    BY DEF WInv
  <2>2. AcceptedByWorker
    BY <2>1 DEF AcceptedByWorker, CallInv, CallFact, After
  <2>3. \A l \in Logins : conn[l] \in Conn /\ Len(conn[l].buf) <= 1
    BY <2>1 DEF StreamsInv, ConnInv
  <2>4. ProxyTypes
    <3>1. Statuses = {0, 202, 404, 409, 502}
      BY DEF Statuses, Answers
    <3>2. CallType = [pc : {"idle", "posted", "told"}, sid : Logins \cup {None},
                      answer : {0, 202, 404, 409}, status : {0, 202, 404, 409, 502}]
      BY <3>1 DEF CallType, Answers
    <3> QED BY <2>1, <2>3, <3>2, TypedStream DEF ProxyTypes, StateTypes
  <2> QED BY <2>2, <2>4 DEF ProxyInv
<1> QED BY <1>1, WInvariance, PTL

\* What was heard, but for the proxy's own error, is a beginning of what was said.
LEMMA HeardIsPrefix ==
  ASSUME NEW c \in Conn, NEW n \in Nat, Heard(c, n),
         NEW own, own = IF c.got # <<>> /\ Last(c.got) = "proxyError"
                        THEN Front(c.got) ELSE c.got
  PROVE  IsPrefix(own, c.sent)
<1>1. PICK g, s : g = c.got /\ s = c.sent
  OBVIOUS
<1>2. g \in Seq(Events) /\ s \in Seq(Sent) /\ Len(g) \in Nat /\ Len(s) \in Nat
  BY <1>1 DEF Conn
<1>3. /\ n <= Len(s) /\ n <= Len(g) /\ \A i \in 1..n : g[i] = s[i]
      /\ n = Len(g) \/ (n + 1 = Len(g) /\ g[n + 1] = "proxyError")
  BY <1>1, <1>2 DEF Heard
<1>4. \A i \in 1..Len(s) : s[i] # "proxyError"
  BY <1>2 DEF Sent
<1>5. own \in Seq(Events) /\ Len(own) = n /\ \A i \in 1..n : own[i] = s[i]
  <2>1. CASE n = Len(g)
    <3>1. g # <<>> => Last(g) # "proxyError"
      <4> SUFFICES ASSUME g # <<>> PROVE Last(g) # "proxyError"
        OBVIOUS
      <4>1. n \in 1..n /\ n \in 1..Len(s)
        BY <1>2, <1>3, <2>1
      <4>2. Last(g) = s[n]
        BY <1>2, <1>3, <2>1, <4>1 DEF Last
      <4> QED BY <1>4, <4>1, <4>2
    <3>2. own = g
      BY <1>1, <3>1
    <3> QED BY <1>2, <1>3, <2>1, <3>2
  <2>2. CASE n + 1 = Len(g) /\ g[n + 1] = "proxyError"
    <3>1. g # <<>> /\ Last(g) = "proxyError"
      BY <1>2, <2>2 DEF Last
    <3>2. own = Front(g)
      BY <1>1, <3>1
    <3>3. own = SubSeq(g, 1, n)
      BY <1>2, <2>2, <3>2 DEF Front
    <3> QED BY <1>2, <1>3, <2>2, <3>3
  <2> QED BY <1>3, <2>1, <2>2
<1>6. IsPrefix(own, s)
  BY <1>2, <1>3, <1>5 DEF IsPrefix
<1> QED BY <1>1, <1>6

\* What a browser heard over a stream is what the worker said, in its order and
\* from the first event on, wherever the connection broke; an error the proxy
\* makes up comes last, and the outcome closes the stream
\* (worker_proxy.py:59-77, 151-166).
THEOREM StreamInvProved == Spec => []StreamInv
<1>1. WInv => StreamInv
  <2> SUFFICES ASSUME WInv PROVE StreamInv
    OBVIOUS
  <2>1. \A l \in Logins : ConnInv(conn[l])
    BY DEF WInv, StreamsInv
  <2>2. RelayFaithful
    <3> SUFFICES ASSUME NEW l \in Logins
                 PROVE  IsPrefix(IF conn[l].got # <<>> /\ Last(conn[l].got) = "proxyError"
                                 THEN Front(conn[l].got) ELSE conn[l].got, conn[l].sent)
      BY DEF RelayFaithful
    <3>1. conn[l] \in Conn /\ \E n \in Nat : Heard(conn[l], n)
      BY <2>1 DEF ConnInv
    <3> QED BY <3>1, HeardIsPrefix
  <2>3. OutcomeIsLast
    BY <2>1 DEF OutcomeIsLast, ConnInv
  <2> QED BY <2>2, <2>3 DEF StreamInv
<1> QED BY <1>1, WInvariance, PTL

\* Of all the calls for one login, those whose answer was lost and those that
\* reached the worker after the proxy had given them up included, the worker takes
\* one code; and a user who was told 404 or 409 knows that it was not the one of
\* this call (worker_proxy.py:83-100, session_manager.py:266-274).
THEOREM RetryIsSafeProved == Spec => []RetryIsSafe
<1>1. WInv => RetryIsSafe
  BY DEF WInv, CallInv, CallFact, RetryIsSafe
<1> QED BY <1>1, WInvariance, PTL
=============================================================================
