--------------------------- MODULE LoginFlowProofs ---------------------------
(***************************************************************************)
(* Proofs about LoginFlow, for any number of sessions, streams, codes,     *)
(* documents and restarts.  LInv is inductive.  It is a conjunction of one *)
(* part per session and one part per stream, because a step of a login     *)
(* touches one session and the streams that follow it: StepOf says what    *)
(* such a step does, and its consequences are proved once for all steps.   *)
(***************************************************************************)
EXTENDS LoginFlow, TLAPS

Active == PCs \ {"none", "end", "cancelled"}

\* no save is still to come
Settled == {"teardown", "unwind", "kick", "end", "cancelled"}

\* where a session is DONE although its result could not be persisted
Unsaved == {"check", "quickExit", "quickFetch", "quickSave", "fullCtx", "unwind"}

BeforeMfa == {"none", "start", "quickCtx", "quickPage", "direct", "directSave",
              "check", "quickFetch", "quickSave", "quickExit", "fullCtx", "login"}

Announces(e) == e.kind = "docs_ready" /\ e.state = "DONE"

Items(q) == {q[i] : i \in DOMAIN q}

Events(r) == {streams[r].seen} \cup Items(streams[r].queue)

Latest(x) == IF x.queue = <<>> THEN x.seen ELSE x.queue[Len(x.queue)]

\* a session is there while its task runs and until it is pruned
SessionInv(s) ==
  /\ task[s].pc \in Active => Present(s)
  /\ Present(s) => /\ sessions[s] \in Session
                   /\ task[s].pc \notin {"none", "cancelled"}
                   /\ sessions[s].state = "DONE" => sessions[s].docs > 0
  /\ result[s].at # "none" => result[s].docs > 0

\* the hand-over of the code: posted once, while the task waits for it
MfaInv(s) ==
  /\ Len(accepted[s]) <= 1
  /\ task[s].got # NoCode => accepted[s] = <<task[s].got>>
  /\ task[s].pc \in BeforeMfa =>
        /\ accepted[s] = <<>> /\ task[s].got = NoCode
        /\ Present(s) => ~sessions[s].mfaEvent /\ sessions[s].state # "MFA_REQUIRED"
  /\ Present(s) /\ sessions[s].state = "MFA_REQUIRED" =>
        task[s].pc \in {"mfa", "unwind"} /\ accepted[s] = <<>> /\ task[s].got = NoCode
  /\ Present(s) /\ task[s].pc = "mfa" /\ sessions[s].mfaEvent =>
        accepted[s] = <<sessions[s].code>>

\* the outcome is final, and DONE is on disk
EndInv(s) ==
  Present(s) /\ task[s].pc \in Ended =>
    /\ sessions[s].state \in Final
    /\ sessions[s].state = "DONE" =>
         result[s].at # "none" /\ result[s].docs = sessions[s].docs

\* the latest event is the session as it is, or its result was not persisted
Follows(x) ==
  x.at \in {"open", "sent"} /\ Present(x.sid) =>
    \/ /\ Latest(x).state = sessions[x.sid].state
       /\ Latest(x).docs = sessions[x.sid].docs
    \/ sessions[x.sid].state = "DONE" /\ task[x.sid].pc \in Unsaved

\* what the events of a stream say of its session
Sound(x, e) ==
  /\ e.state = "DONE" => e.docs > 0
  /\ Announces(e) => /\ result[x.sid].at # "none" /\ result[x.sid].docs = e.docs
                     /\ task[x.sid].pc \in Settled

StreamInv(x) ==
  /\ x \in Stream
  /\ x.at \in {"open", "sent"} => task[x.sid].pc # "none"
  /\ Sound(x, x.seen) /\ \A e \in Items(x.queue) : Sound(x, e)
  /\ Follows(x)

Typed ==
  /\ DOMAIN sessions \subseteq Sids
  /\ task \in [Sids -> Task]
  /\ result \in [Sids -> Result]
  /\ old \subseteq Sids
  /\ streams \in [Clients -> Stream]
  /\ accepted \in [Sids -> Seq(Codes)]

LInv ==
  /\ Typed
  /\ \A s \in Sids : SessionInv(s) /\ MfaInv(s) /\ EndInv(s)
  /\ \A r \in Clients : StreamInv(streams[r])
----------------------------------------------------------------------------
(* Queues                                                                  *)

LEMMA Appended ==
  ASSUME NEW q \in Seq(Event), NEW e \in Event
  PROVE  /\ Append(q, e) \in Seq(Event) /\ Append(q, e) # <<>>
         /\ Append(q, e)[Len(Append(q, e))] = e
         /\ Items(Append(q, e)) \subseteq Items(q) \cup {e}
BY DEF Items

LEMMA Shifted ==
  ASSUME NEW q \in Seq(Event), q # <<>>
  PROVE  /\ Head(q) \in Event /\ Tail(q) \in Seq(Event)
         /\ Head(q) \in Items(q) /\ Items(Tail(q)) \subseteq Items(q)
         /\ Tail(q) = <<>> => Head(q) = q[Len(q)]
         /\ Tail(q) # <<>> => Tail(q)[Len(Tail(q))] = q[Len(q)]
<1>1. /\ Len(q) \in Nat \ {0} /\ DOMAIN q = 1..Len(q)
      /\ \A i \in 1..Len(q) : q[i] \in Event
  OBVIOUS
<1>2. Head(q) = q[1]
  OBVIOUS
<1>3. /\ Tail(q) \in Seq(Event) /\ Len(Tail(q)) = Len(q) - 1
      /\ \A i \in 1..(Len(q) - 1) : Tail(q)[i] = q[i + 1]
  OBVIOUS
<1>4. Items(Tail(q)) \subseteq Items(q)
  <2> SUFFICES ASSUME NEW i \in 1..(Len(q) - 1) PROVE Tail(q)[i] \in Items(q)
    BY <1>3 DEF Items
  <2>1. i + 1 \in 1..Len(q)
    BY <1>1
  <2> QED BY <1>1, <1>3, <2>1 DEF Items
<1>5. ASSUME Tail(q) = <<>> PROVE Len(q) = 1
  <2> DEFINE t == Tail(q)
  <2>1. Len(t) = Len(q) - 1 /\ t = <<>>
    BY <1>3, <1>5
  <2> HIDE DEF t
  <2>2. Len(t) = 0
    BY <2>1
  <2>3. \A n \in Nat : 0 = n - 1 => n = 1
    OBVIOUS
  <2> QED BY <1>1, <2>1, <2>2, <2>3
<1>6. ASSUME Tail(q) # <<>> PROVE Tail(q)[Len(Tail(q))] = q[Len(q)]
  <2>1. Len(q) - 1 \in 1..(Len(q) - 1)
    BY <1>1, <1>3, <1>6
  <2>2. (Len(q) - 1) + 1 = Len(q)
    BY <1>1
  <2> QED BY <1>3, <2>1, <2>2
<1>7. Head(q) \in Event /\ Head(q) \in Items(q)
  BY <1>1, <1>2 DEF Items
<1> QED BY <1>1, <1>2, <1>3, <1>4, <1>5, <1>6, <1>7

LEMMA LInitInv == Init => LInv
<1> SUFFICES ASSUME Init PROVE LInv
  OBVIOUS
<1> DEFINE any == CHOOSE s \in Sids : TRUE
           off == [at |-> "off", sid |-> any, queue |-> <<>>, seen |-> NoEvent]
<1>1. any \in Sids
  BY LoginConstants
<1>2. /\ DOMAIN sessions = {} /\ old = {} /\ streams = [r \in Clients |-> off]
      /\ task = [s \in Sids |-> [pc |-> "none", usaa |-> FALSE,
                                 timedOut |-> FALSE, got |-> NoCode, emits |-> 0]]
      /\ result = [s \in Sids |-> [at |-> "none", docs |-> 0]]
      /\ accepted = [s \in Sids |-> <<>>]
  BY DEF Init
<1> HIDE DEF any
<1>3. off \in Stream
  <2>1. NoEvent \in Event
    BY LoginConstants DEF NoEvent, Event, States
  <2> QED BY <1>1, <2>1 DEF Stream
<1>4. Typed
  <2>1. [pc |-> "none", usaa |-> FALSE, timedOut |-> FALSE, got |-> NoCode, emits |-> 0]
          \in Task
    BY LoginConstants DEF Task, PCs
  <2>2. [at |-> "none", docs |-> 0] \in Result
    BY LoginConstants DEF Result
  <2> HIDE DEF off
  <2> QED BY <1>2, <1>3, <2>1, <2>2 DEF Typed
<1>5. ASSUME NEW s \in Sids PROVE SessionInv(s) /\ MfaInv(s) /\ EndInv(s)
  BY <1>2 DEF SessionInv, MfaInv, EndInv, Present, Active
<1>6. StreamInv(off)
  BY <1>3 DEF StreamInv, Sound, Announces, Follows, Items, NoEvent
<1> QED BY <1>2, <1>4, <1>5, <1>6 DEF LInv
----------------------------------------------------------------------------
(* A step of a login                                                       *)

\* it touches its own session and task, and ends at most once
Moved(s) ==
  /\ task[s].pc \in Active
  /\ task' \in [Sids -> Task] /\ \A t \in Sids \ {s} : task'[t] = task[t]
  /\ task'[s].pc \in Active \cup {"end"}
  /\ task[s].pc \in Settled => task'[s].pc \in Settled
  /\ DOMAIN sessions' = DOMAIN sessions
  /\ \A t \in DOMAIN sessions \ {s} : sessions'[t] = sessions[t]
  /\ sessions'[s] \in Session
  /\ sessions'[s].state = "DONE" => sessions'[s].docs > 0
  /\ accepted' \in [Sids -> Seq(Codes)]
  /\ \A t \in Sids \ {s} : accepted'[t] = accepted[t]
  /\ UNCHANGED <<old, crashes>>

Saves(s) ==
  \/ UNCHANGED result
  \/ /\ task[s].pc \notin Settled
     /\ \E n \in 1..MaxDocs :
          result' = [result EXCEPT ![s] = [at |-> "fresh", docs |-> n]]

\* its streams are told what became of the session; of DONE once it is saved
Tells(s) ==
  \E kind \in {"state_change", "docs_ready", "error"} :
    /\ Publish(s, sessions'[s], kind)
    /\ kind = "docs_ready" /\ sessions'[s].state = "DONE" =>
         /\ task'[s].pc \in Settled
         /\ result' = [result EXCEPT ![s] = [at |-> "fresh", docs |-> sessions'[s].docs]]

Hides(s) ==
  /\ UNCHANGED streams
  /\ \/ sessions'[s].state = "DONE" /\ task'[s].pc \in Unsaved
     \/ /\ sessions'[s].state = sessions[s].state
        /\ sessions'[s].docs = sessions[s].docs
        /\ sessions[s].state = "DONE" /\ task[s].pc \in Unsaved =>
             task'[s].pc \in Unsaved

StepOf(s) ==
  Moved(s) /\ Saves(s) /\ (Tells(s) \/ Hides(s)) /\ MfaInv(s)' /\ EndInv(s)'

LEMMA StepKeeps ==
  ASSUME LInv, NEW s \in Sids, StepOf(s)
  PROVE  LInv'
<1> USE DEF LInv
<1>1. Moved(s) /\ Present(s) /\ DOMAIN sessions \subseteq Sids
  BY DEF StepOf, Moved, SessionInv, Typed
<1>2. /\ result' \in [Sids -> Result]
      /\ \A t \in Sids \ {s} : result'[t] = result[t]
      /\ result'[s] # result[s] => result'[s].at = "fresh" /\ result'[s].docs > 0
      /\ task[s].pc \in Settled => result'[s] = result[s]
  <2>1. \A n \in 1..MaxDocs : [at |-> "fresh", docs |-> n] \in Result
    BY LoginConstants DEF Result
  <2>2. ASSUME task[s].pc \notin Settled, NEW n \in 1..MaxDocs,
               result' = [result EXCEPT ![s] = [at |-> "fresh", docs |-> n]]
        PROVE  <1>2!:
    <3>1. n > 0
      BY LoginConstants
    <3>2. result'[s] = [at |-> "fresh", docs |-> n]
      BY <2>2 DEF Typed
    <3> QED BY <2>1, <2>2, <3>1, <3>2 DEF Typed
  <2>3. CASE UNCHANGED result
    BY <2>3 DEF Typed
  <2> QED BY <2>2, <2>3 DEF StepOf, Saves
<1>3. \A t \in Sids : SessionInv(t)'
  <2>1. SessionInv(s)'
    BY <1>1, <1>2 DEF Moved, SessionInv, Present, Active
  <2>2. ASSUME NEW t \in Sids, t # s PROVE SessionInv(t)'
    BY <1>1, <1>2, <2>2 DEF Moved, SessionInv, Present
  <2> QED BY <2>1, <2>2
<1>4. \A t \in Sids : MfaInv(t)'
  <2>1. ASSUME NEW t \in Sids, t # s PROVE MfaInv(t)'
    BY <1>1, <2>1 DEF Moved, MfaInv, Present
  <2> QED BY <2>1 DEF StepOf
<1>5. \A z \in Stream, e \in Event : Sound(z, e) => Sound(z, e)'
  <2> SUFFICES ASSUME NEW z \in Stream, NEW e \in Event, Sound(z, e)
               PROVE  Sound(z, e)'
    OBVIOUS
  <2>1. z.sid \in Sids
    BY DEF Stream
  <2>2. CASE z.sid = s
    BY <1>1, <1>2, <2>2 DEF Sound, Moved
  <2>3. CASE z.sid # s
    BY <1>1, <1>2, <2>1, <2>3 DEF Sound, Moved
  <2> QED BY <2>2, <2>3
<1>6. ASSUME NEW z \in Stream, StreamInv(z), z.sid # s \/ z.at \notin {"open", "sent"} \/ Hides(s)
      PROVE  StreamInv(z)'
  <2>1. z.sid \in Sids /\ z.seen \in Event /\ \A e \in Items(z.queue) : e \in Event
    BY DEF Stream, Items
  <2>2. Sound(z, z.seen)' /\ \A e \in Items(z.queue) : Sound(z, e)'
    BY <1>5, <1>6, <2>1 DEF StreamInv
  <2>3. z.at \in {"open", "sent"} => task'[z.sid].pc # "none"
    BY <1>1, <1>6, <2>1 DEF StreamInv, Moved, Active
  <2>4. Follows(z)'
    <3>1. CASE z.sid # s
      BY <1>1, <1>6, <2>1, <3>1 DEF StreamInv, Follows, Moved, Present
    <3>2. CASE z.at \notin {"open", "sent"}
      BY <3>2 DEF Follows
    <3>3. CASE z.sid = s /\ Hides(s)
      BY <1>1, <1>6, <3>3 DEF StreamInv, Follows, Hides, Present
    <3> QED BY <1>6, <3>1, <3>2, <3>3
  <2> QED BY <2>2, <2>3, <2>4 DEF StreamInv, Items
<1>7. ASSUME NEW z \in Stream, StreamInv(z), z.sid = s, z.at \in {"open", "sent"},
             NEW e \in Event, e.state = sessions'[s].state, e.docs = sessions'[s].docs,
             Announces(e) =>
               /\ task'[s].pc \in Settled
               /\ result' = [result EXCEPT ![s] = [at |-> "fresh", docs |-> e.docs]],
             NEW y, y = [z EXCEPT !.queue = Append(@, e)]
      PROVE  y \in Stream /\ StreamInv(y)'
  <2>1. z.queue \in Seq(Event) /\ z.seen \in Event /\ \A f \in Items(z.queue) : f \in Event
    BY DEF Stream, Items
  <2>2. y.queue = Append(z.queue, e)
    BY <1>7 DEF Stream
  <2>3. /\ y.queue \in Seq(Event) /\ y.queue # <<>> /\ y.queue[Len(y.queue)] = e
        /\ Items(y.queue) \subseteq Items(z.queue) \cup {e}
    BY <2>1, <2>2, Appended
  <2>4. y \in Stream /\ y.at = z.at /\ y.sid = s /\ y.seen = z.seen
    BY <1>7, <2>3 DEF Stream
  <2>5. Sound(y, e)'
    <3>1. e.state = "DONE" => e.docs > 0
      BY <1>1, <1>7 DEF Moved
    <3>2. Announces(e) => /\ result'[s].at # "none" /\ result'[s].docs = e.docs
                          /\ task'[s].pc \in Settled
      BY <1>7 DEF Typed
    <3> QED BY <2>4, <3>1, <3>2 DEF Sound
  <2>6. \A f \in Event : Sound(z, f)' => Sound(y, f)'
    BY <1>7, <2>4 DEF Sound
  <2>7. Sound(y, y.seen)' /\ \A f \in Items(y.queue) : Sound(y, f)'
    BY <1>5, <1>7, <2>1, <2>3, <2>4, <2>5, <2>6 DEF StreamInv
  <2>8. Follows(y)'
    BY <1>7, <2>3, <2>4 DEF Follows, Latest
  <2>9. task'[s].pc # "none"
    BY <1>1 DEF Moved, Active
  <2> QED BY <2>4, <2>7, <2>8, <2>9 DEF StreamInv, Items
<1>8. ASSUME NEW r \in Clients
      PROVE  streams'[r] \in Stream /\ StreamInv(streams[r])'
  <2>1. streams[r] \in Stream /\ StreamInv(streams[r])
    BY DEF Typed
  <2>2. CASE Hides(s)
    BY <1>6, <2>1, <2>2 DEF Hides
  <2>3. CASE Tells(s)
    <3>1. PICK kind \in {"state_change", "docs_ready", "error"} :
            /\ Publish(s, sessions'[s], kind)
            /\ kind = "docs_ready" /\ sessions'[s].state = "DONE" =>
                 /\ task'[s].pc \in Settled
                 /\ result' = [result EXCEPT
                      ![s] = [at |-> "fresh", docs |-> sessions'[s].docs]]
      BY <2>3 DEF Tells
    <3>2. PICK z, y : z = streams[r] /\ y = streams'[r]
      OBVIOUS
    <3>3. CASE z.at \in {"open", "sent"} /\ z.sid = s
      <4>1. PICK e : e = Snapshot(sessions'[s], kind)
        OBVIOUS
      <4>2. /\ e \in Event /\ e.state = sessions'[s].state /\ e.docs = sessions'[s].docs
            /\ Announces(e) => kind = "docs_ready" /\ sessions'[s].state = "DONE"
        BY <1>1, <4>1 DEF Moved, Snapshot, Event, Session, Announces
      <4>3. y = [z EXCEPT !.queue = Append(@, e)]
        BY <3>1, <3>2, <3>3, <4>1 DEF Publish, Connected
      <4>4. z \in Stream /\ StreamInv(z)
        BY <2>1, <3>2
      <4>5. y \in Stream /\ StreamInv(y)'
        BY <1>7, <3>1, <3>3, <4>2, <4>3, <4>4
      <4> QED BY <3>2, <4>5
    <3>4. CASE ~(z.at \in {"open", "sent"} /\ z.sid = s)
      <4>1. y = z
        BY <3>1, <3>2, <3>4 DEF Publish, Connected
      <4> QED BY <1>6, <2>1, <3>2, <3>4, <4>1
    <3> QED BY <3>3, <3>4
  <2> QED BY <2>2, <2>3 DEF StepOf
<1>9. streams' \in [Clients -> Stream]
  <2>1. streams' = [r \in Clients |-> streams'[r]]
    BY DEF StepOf, Tells, Hides, Publish, Typed
  <2> QED BY <1>8, <2>1
<1>10. Typed'
  BY <1>1, <1>2, <1>9 DEF Typed, Moved
<1>11. \A t \in Sids : EndInv(t)'
  <2>1. ASSUME NEW t \in Sids, t # s PROVE EndInv(t)'
    BY <1>1, <1>2, <2>1 DEF Moved, EndInv, Present
  <2> QED BY <2>1 DEF StepOf
<1> QED BY <1>3, <1>4, <1>8, <1>10, <1>11
----------------------------------------------------------------------------
(* Every step of a login is of that kind                                   *)

LEMMA TaskFields ==
  ASSUME NEW y \in Task, NEW p \in PCs
  PROVE  LET z == [y EXCEPT !.pc = p]
         IN  /\ z \in Task /\ z.pc = p /\ z.usaa = y.usaa /\ z.got = y.got
             /\ z.timedOut = y.timedOut /\ z.emits = y.emits
BY DEF Task

LEMMA SessionFields ==
  ASSUME NEW x \in Session, NEW st \in States
  PROVE  LET z == [x EXCEPT !.state = st]
         IN  /\ z \in Session /\ z.state = st /\ z.docs = x.docs
             /\ z.mfaEvent = x.mfaEvent /\ z.code = x.code
BY DEF Session

LEMMA DocsField ==
  ASSUME NEW x \in Session, NEW n \in 0..MaxDocs
  PROVE  LET z == [x EXCEPT !.docs = n]
         IN  /\ z \in Session /\ z.state = x.state /\ z.docs = n
             /\ z.mfaEvent = x.mfaEvent /\ z.code = x.code
BY DEF Session

\* what the parts of a step do, put into the terms of Moved
LEMMA Goes ==
  ASSUME LInv, NEW s \in Sids, NEW p \in PCs, GoTo(s, p)
  PROVE  /\ task' \in [Sids -> Task] /\ \A t \in Sids \ {s} : task'[t] = task[t]
         /\ task'[s].pc = p /\ task'[s].got = task[s].got
<1>1. task \in [Sids -> Task] /\ task[s] \in Task
  BY DEF LInv, Typed
<1>2. task' = [task EXCEPT ![s].pc = p] /\ task'[s] = [task[s] EXCEPT !.pc = p]
  BY <1>1 DEF GoTo
<1> QED BY <1>1, <1>2, TaskFields

LEMMA Sets ==
  ASSUME LInv, NEW s \in Sids, Present(s), NEW x \in Session, SetSession(s, x)
  PROVE  /\ DOMAIN sessions' = DOMAIN sessions /\ sessions'[s] = x
         /\ \A t \in DOMAIN sessions \ {s} : sessions'[t] = sessions[t]
BY DEF SetSession, Present

LEMMA ActiveSession ==
  ASSUME LInv, NEW s \in Sids, task[s].pc \in Active
  PROVE  /\ Present(s) /\ sessions[s] \in Session /\ sessions[s].docs \in 0..MaxDocs
         /\ sessions[s].docs \in Nat /\ task[s] \in Task
         /\ accepted \in [Sids -> Seq(Codes)]
         /\ sessions[s].state = "DONE" => sessions[s].docs > 0
         /\ SessionInv(s) /\ MfaInv(s) /\ EndInv(s)
BY LoginConstants DEF LInv, SessionInv, Session, Typed

\* The task moves on and says nothing.
LEMMA QuietStep ==
  ASSUME LInv, NEW s \in Sids, NEW p \in Active \cup {"end"},
         task[s].pc \in Active, GoTo(s, p), Quiet, UNCHANGED <<result, old, accepted, crashes>>,
         task[s].pc \in Settled => p \in Settled,
         task[s].pc \in Unsaved => p \in Unsaved \/ sessions[s].state # "DONE",
         p \in BeforeMfa => task[s].pc \in BeforeMfa,
         p # "mfa", task[s].pc \in {"mfa", "unwind"} => p = "unwind",
         p \in Ended => task[s].pc \in Ended
  PROVE  StepOf(s)
<1>1. p \in PCs
  BY DEF Active, PCs
<1>2. /\ task' \in [Sids -> Task] /\ \A t \in Sids \ {s} : task'[t] = task[t]
      /\ task'[s].pc = p /\ task'[s].got = task[s].got
  BY <1>1, Goes
<1>3. sessions' = sessions /\ streams' = streams
  BY DEF Quiet
<1>4. Moved(s)
  BY <1>2, <1>3, ActiveSession DEF Moved
<1>5. Saves(s) /\ Hides(s)
  BY <1>2, <1>3 DEF Saves, Hides
<1>6. MfaInv(s)'
  BY <1>2, <1>3, ActiveSession DEF MfaInv, Present
<1>7. EndInv(s)'
  BY <1>2, <1>3, ActiveSession DEF EndInv, Present
<1> QED BY <1>4, <1>5, <1>6, <1>7 DEF StepOf

\* The session changes its state and tells its streams.
LEMMA ToldStep ==
  ASSUME LInv, NEW s \in Sids, NEW p \in Active \cup {"end"}, NEW st \in States \ {"DONE"},
         NEW kind \in {"state_change", "error"},
         task[s].pc \in Active, GoTo(s, p),
         Change(s, [sessions[s] EXCEPT !.state = st], kind),
         UNCHANGED <<result, old, accepted, crashes>>,
         task[s].pc \in Settled => p \in Settled,
         p \in BeforeMfa => task[s].pc \in BeforeMfa,
         p = "mfa" \/ st = "MFA_REQUIRED" =>
           p = "mfa" /\ st = "MFA_REQUIRED" /\ task[s].pc \in BeforeMfa,
         p \in Ended => st = "ERROR"
  PROVE  StepOf(s)
<1> DEFINE x == [sessions[s] EXCEPT !.state = st]
<1>1. p \in PCs /\ Present(s)
  BY ActiveSession DEF Active, PCs
<1>2. /\ task' \in [Sids -> Task] /\ \A t \in Sids \ {s} : task'[t] = task[t]
      /\ task'[s].pc = p /\ task'[s].got = task[s].got
  BY <1>1, Goes
<1>3. /\ x \in Session /\ x.state = st /\ x.docs = sessions[s].docs
      /\ x.mfaEvent = sessions[s].mfaEvent /\ x.code = sessions[s].code
  BY ActiveSession, SessionFields
<1>4. SetSession(s, x) /\ Publish(s, x, kind)
  BY DEF Change
<1> HIDE DEF x
<1>5. /\ DOMAIN sessions' = DOMAIN sessions /\ sessions'[s] = x
      /\ \A t \in DOMAIN sessions \ {s} : sessions'[t] = sessions[t]
  BY <1>1, <1>3, <1>4, Sets
<1>6. Moved(s)
  BY <1>2, <1>3, <1>5, ActiveSession DEF Moved
<1>7. Saves(s) /\ Tells(s)
  BY <1>3, <1>4, <1>5 DEF Saves, Tells
<1>8. MfaInv(s)'
  BY <1>1, <1>2, <1>3, <1>5, ActiveSession DEF MfaInv, Present, BeforeMfa
<1>9. EndInv(s)'
  BY <1>2, <1>3, <1>5 DEF EndInv, Final
<1> QED BY <1>6, <1>7, <1>8, <1>9 DEF StepOf

\* Any exception ends in set_error (orchestrator.py:250-300).
LEMMA ErrorStep ==
  ASSUME LInv, NEW s \in Sids, task[s].pc \in Active, SetError(s),
         UNCHANGED <<old, accepted, crashes>>
  PROVE  StepOf(s)
<1>1. "kick" \in Active /\ "kick" \in Settled /\ "kick" \notin BeforeMfa /\ "ERROR" \in States
  BY DEF Active, PCs, Settled, BeforeMfa, States
<1> QED BY <1>1, ToldStep DEF SetError

\* _run_full_login up to its first await.
LEMMA EnterStep ==
  ASSUME LInv, NEW s \in Sids, task[s].pc \in {"start", "quickExit"}, EnterFullLogin(s),
         UNCHANGED <<old, accepted, crashes>>
  PROVE  StepOf(s)
<1> USE DEF Active, PCs, Settled, Unsaved, BeforeMfa, States, Ended
<1>1. CASE Transition(s, "LOGGING_IN") /\ GoTo(s, "login") /\ UNCHANGED result
  BY <1>1, ToldStep DEF Transition
<1>2. CASE Quiet /\ GoTo(s, "fullCtx") /\ UNCHANGED result /\ task[s].pc = "quickExit"
  BY <1>2, QuietStep
<1>3. CASE Quiet /\ GoTo(s, "fullCtx") /\ UNCHANGED result /\ task[s].pc = "start"
  BY <1>3, QuietStep
<1> QED BY <1>1, <1>2, <1>3 DEF EnterFullLogin

\* The awaits at which a login only moves on, changes its state or fails
\* (orchestrator.py:97-300).
LEMMA ControlStep ==
  ASSUME LInv, NEW s \in Sids,
         \/ Start(s) \/ QuickCtx(s) \/ QuickPage(s) \/ Check(s) \/ QuickExit(s)
         \/ FullCtx(s) \/ Login(s) \/ SubmitToPortal(s) \/ SaveAuth(s)
         \/ Teardown(s) \/ Unwind(s)
  PROVE  StepOf(s)
<1>1. CASE Start(s)
  <2>1. task[s].pc = "start" /\ UNCHANGED <<old, accepted, crashes>>
    BY <1>1 DEF Start, At
  <2>2. CASE GoTo(s, "quickCtx") /\ Quiet /\ UNCHANGED result
    BY <2>1, <2>2, QuietStep DEF Active, PCs, Settled, Unsaved, BeforeMfa, Ended
  <2>3. CASE EnterFullLogin(s)
    BY <2>1, <2>3, EnterStep
  <2>4. CASE SetError(s)
    BY <2>1, <2>4, ErrorStep DEF Active, PCs
  <2> QED BY <1>1, <2>2, <2>3, <2>4 DEF Start
<1>2. CASE QuickCtx(s)
  <2>1. task[s].pc = "quickCtx" /\ UNCHANGED <<old, accepted, crashes>>
    BY <1>2 DEF QuickCtx, At
  <2>2. CASE Transition(s, "FETCHING_DOCS") /\ GoTo(s, "quickPage") /\ UNCHANGED result
    BY <2>1, <2>2, ToldStep DEF Transition, Active, PCs, Settled, BeforeMfa, Ended, States
  <2>3. CASE SetError(s)
    BY <2>1, <2>3, ErrorStep DEF Active, PCs
  <2> QED BY <1>2, <2>2, <2>3 DEF QuickCtx
<1>3. CASE QuickPage(s)
  <2>1. task[s].pc = "quickPage" /\ UNCHANGED <<old, accepted, crashes>>
    BY <1>3 DEF QuickPage, At
  <2>2. ASSUME NEW p \in {"direct", "check", "unwind"}, GoTo(s, p), Quiet, UNCHANGED result
        PROVE  StepOf(s)
    BY <2>1, <2>2, QuietStep DEF Active, PCs, Settled, Unsaved, BeforeMfa, Ended
  <2> QED BY <1>3, <2>2 DEF QuickPage, Raise
<1>4. CASE Check(s)
  <2>1. task[s].pc = "check" /\ UNCHANGED <<old, accepted, crashes>>
    BY <1>4 DEF Check, At
  <2>2. ASSUME NEW p \in {"quickFetch", "quickExit"}, GoTo(s, p), Quiet, UNCHANGED result
        PROVE  StepOf(s)
    BY <2>1, <2>2, QuietStep DEF Active, PCs, Settled, Unsaved, BeforeMfa, Ended
  <2> QED BY <1>4, <2>2 DEF Check
<1>5. CASE QuickExit(s)
  <2>1. task[s].pc = "quickExit" /\ UNCHANGED <<old, accepted, crashes>>
    BY <1>5 DEF QuickExit, At
  <2> QED BY <1>5, <2>1, EnterStep, ErrorStep DEF QuickExit, Active, PCs
<1>6. CASE FullCtx(s)
  <2>1. task[s].pc = "fullCtx" /\ UNCHANGED <<old, accepted, crashes>>
    BY <1>6 DEF FullCtx, At
  <2>2. CASE Transition(s, "LOGGING_IN") /\ GoTo(s, "login") /\ UNCHANGED result
    BY <2>1, <2>2, ToldStep DEF Transition, Active, PCs, Settled, BeforeMfa, Ended, States
  <2>3. CASE SetError(s)
    BY <2>1, <2>3, ErrorStep DEF Active, PCs
  <2> QED BY <1>6, <2>2, <2>3 DEF FullCtx
<1>7. CASE Login(s)
  <2>1. task[s].pc = "login" /\ UNCHANGED <<old, accepted, crashes>>
    BY <1>7 DEF Login, At
  <2>2. CASE Transition(s, "MFA_REQUIRED") /\ GoTo(s, "mfa") /\ UNCHANGED result
    BY <2>1, <2>2, ToldStep DEF Transition, Active, PCs, Settled, BeforeMfa, Ended, States
  <2>3. ASSUME NEW p \in {"auth", "unwind"}, GoTo(s, p), Quiet, UNCHANGED result
        PROVE  StepOf(s)
    BY <2>1, <2>3, QuietStep DEF Active, PCs, Settled, Unsaved, BeforeMfa, Ended
  <2> QED BY <1>7, <2>2, <2>3 DEF Login, Raise
<1>8. CASE SubmitToPortal(s)
  <2>1. task[s].pc = "submit" /\ UNCHANGED <<old, accepted, crashes>>
    BY <1>8 DEF SubmitToPortal, At
  <2>2. ASSUME NEW p \in {"auth", "unwind"}, GoTo(s, p), Quiet, UNCHANGED result
        PROVE  StepOf(s)
    BY <2>1, <2>2, QuietStep DEF Active, PCs, Settled, Unsaved, BeforeMfa, Ended
  <2> QED BY <1>8, <2>2 DEF SubmitToPortal, Raise
<1>9. CASE SaveAuth(s)
  <2>1. task[s].pc = "auth" /\ UNCHANGED <<old, accepted, crashes>>
    BY <1>9 DEF SaveAuth, At
  <2>2. Transition(s, "FETCHING_DOCS") /\ GoTo(s, "fetch") /\ UNCHANGED result
    BY <1>9 DEF SaveAuth
  <2> QED BY <2>1, <2>2, ToldStep DEF Transition, Active, PCs, Settled, BeforeMfa, Ended, States
<1>10. CASE Teardown(s)
  <2>1. task[s].pc = "teardown" /\ UNCHANGED <<old, accepted, crashes>>
    BY <1>10 DEF Teardown, At
  <2>2. CASE GoTo(s, "end") /\ Quiet /\ UNCHANGED result
    BY <2>1, <2>2, QuietStep DEF Active, PCs, Settled, Unsaved, BeforeMfa, Ended
  <2> QED BY <1>10, <2>1, <2>2, ErrorStep DEF Teardown, Active, PCs
<1>11. CASE Unwind(s)
  BY <1>11, ErrorStep DEF Unwind, At, Active, PCs
<1> QED BY <1>1, <1>2, <1>3, <1>4, <1>5, <1>6, <1>7, <1>8, <1>9, <1>10, <1>11

\* Documents come in or do not: the list shown grows (orchestrator.py:387-440).
LEMMA ProgressStep ==
  ASSUME LInv, NEW s \in Sids, Progress(s)
  PROVE  StepOf(s)
<1>1. /\ task[s].pc \in {"direct", "quickFetch", "fetch"} /\ task[s].pc \in Active
      /\ task[s].pc \notin Settled /\ task[s].pc # "mfa"
      /\ UNCHANGED <<result, old, accepted, crashes>>
  BY DEF Progress, At, Active, PCs, Settled
<1>2. /\ task' \in [Sids -> Task] /\ \A t \in Sids \ {s} : task'[t] = task[t]
      /\ task'[s].pc = task[s].pc /\ task'[s].got = task[s].got
  <2>1. task' = [task EXCEPT ![s].emits = @ + 1] /\ task[s].emits < MaxEmits
    BY DEF Progress
  <2>2. task[s] \in Task /\ task \in [Sids -> Task]
    BY DEF LInv, Typed
  <2>3. task[s].emits + 1 \in 0..MaxEmits
    BY <2>1, <2>2, LoginConstants DEF Task
  <2>4. [task[s] EXCEPT !.emits = @ + 1] \in Task
    BY <2>2, <2>3 DEF Task
  <2> QED BY <2>1, <2>2, <2>4 DEF Task
<1>3. EndInv(s)'
  BY <1>1, <1>2 DEF EndInv, Ended
<1>4. CASE Quiet
  <2>1. Moved(s)
    BY <1>1, <1>2, <1>4, ActiveSession DEF Moved, Quiet
  <2>2. Saves(s) /\ Hides(s)
    BY <1>1, <1>2, <1>4 DEF Saves, Hides, Quiet
  <2>3. MfaInv(s)'
    BY <1>1, <1>2, <1>4, ActiveSession DEF MfaInv, Present, Quiet
  <2> QED BY <1>3, <2>1, <2>2, <2>3 DEF StepOf
<1>5. ASSUME NEW n \in 1..MaxDocs, ~Dropped(s, n),
             Change(s, [sessions[s] EXCEPT !.docs = n], "docs_ready")
      PROVE  StepOf(s)
  <2> DEFINE x == [sessions[s] EXCEPT !.docs = n]
  <2>1. /\ x \in Session /\ x.state = sessions[s].state /\ x.docs = n
        /\ x.mfaEvent = sessions[s].mfaEvent /\ x.code = sessions[s].code
    <3>1. n \in 0..MaxDocs
      BY LoginConstants
    <3> QED BY <1>1, <3>1, ActiveSession, DocsField
  <2>2. SetSession(s, x) /\ Publish(s, x, "docs_ready")
    BY <1>5 DEF Change
  <2> HIDE DEF x
  <2>3. /\ DOMAIN sessions' = DOMAIN sessions /\ sessions'[s] = x
        /\ \A t \in DOMAIN sessions \ {s} : sessions'[t] = sessions[t]
    BY <1>1, <2>1, <2>2, Sets, ActiveSession
  <2>4. sessions[s].state # "DONE" /\ ~(n < sessions[s].docs)
    BY <1>5 DEF Dropped, Final
  <2>5. Moved(s)
    BY <1>1, <1>2, <2>1, <2>3, <2>4, ActiveSession DEF Moved
  <2>6. Saves(s) /\ Tells(s)
    BY <1>1, <2>1, <2>2, <2>3, <2>4 DEF Saves, Tells
  <2>7. MfaInv(s)'
    BY <1>1, <1>2, <2>1, <2>3, ActiveSession DEF MfaInv, Present
  <2> QED BY <1>3, <2>5, <2>6, <2>7 DEF StepOf
<1> QED BY <1>4, <1>5 DEF Progress

LEMMA FetchStep ==
  ASSUME LInv, NEW s \in Sids, Fetch(s)
  PROVE  StepOf(s)
<1>1. /\ task[s].pc \in {"direct", "quickFetch", "fetch"}
      /\ Quiet /\ UNCHANGED <<result, old, accepted, crashes>>
      /\ \/ task' = [task EXCEPT ![s].pc = AfterFetch[@]]
         \/ task' = [task EXCEPT ![s].pc = FetchFailed[@]]
  BY DEF Fetch, At, AfterFetch
<1>2. CASE task[s].pc = "direct"
  <2>1. GoTo(s, "directSave") \/ GoTo(s, "check")
    BY <1>1, <1>2 DEF GoTo, AfterFetch, FetchFailed
  <2> QED BY <1>1, <1>2, <2>1, QuietStep DEF Active, PCs, Settled, Unsaved, BeforeMfa, Ended
<1>3. CASE task[s].pc = "quickFetch"
  <2>1. GoTo(s, "quickSave") \/ GoTo(s, "quickExit")
    BY <1>1, <1>3 DEF GoTo, AfterFetch, FetchFailed
  <2> QED BY <1>1, <1>3, <2>1, QuietStep DEF Active, PCs, Settled, Unsaved, BeforeMfa, Ended
<1>4. CASE task[s].pc = "fetch"
  <2>1. GoTo(s, "save") \/ GoTo(s, "unwind")
    BY <1>1, <1>4 DEF GoTo, AfterFetch, FetchFailed
  <2> QED BY <1>1, <1>4, <2>1, QuietStep DEF Active, PCs, Settled, Unsaved, BeforeMfa, Ended
<1> QED BY <1>1, <1>2, <1>3, <1>4

\* DONE is written, told, or neither; it is told only once it is on disk, and
\* stays untold only where the code goes on after a failed save
\* (session_manager.py:145-156).
LEMMA SaveStep ==
  ASSUME LInv, NEW s \in Sids, Save(s)
  PROVE  StepOf(s)
<1>1. /\ task[s].pc \in {"directSave", "quickSave", "save"} /\ task[s].pc \in Active
      /\ task[s].pc \notin Settled /\ task[s].pc # "mfa"
      /\ UNCHANGED <<old, accepted, crashes>>
  BY DEF Save, At, SaveFailed, Active, PCs, Settled
<1>2. /\ SaveFailed[task[s].pc] \in Active /\ SaveFailed[task[s].pc] \in Unsaved
      /\ SaveFailed[task[s].pc] # "mfa" /\ SaveFailed[task[s].pc] \notin Ended
      /\ SaveFailed[task[s].pc] \in BeforeMfa => task[s].pc \in BeforeMfa
  BY <1>1 DEF SaveFailed, Active, PCs, Unsaved, BeforeMfa, Ended
<1>3. task' = [task EXCEPT ![s].pc = SaveFailed[@]] <=> GoTo(s, SaveFailed[task[s].pc])
  BY DEF GoTo
<1>4. CASE GoTo(s, SaveFailed[task[s].pc]) /\ Quiet /\ UNCHANGED result
  BY <1>1, <1>2, <1>4, QuietStep DEF Active, PCs, Settled, Unsaved
<1>5. ASSUME NEW n \in 0..MaxDocs, Fetched(n), NEW p \in Active,
             p # "mfa", p \in BeforeMfa => task[s].pc \in BeforeMfa, GoTo(s, p),
             SetSession(s, [sessions[s] EXCEPT !.state = "DONE", !.docs = n]),
             \/ UNCHANGED result /\ UNCHANGED streams /\ p \in Unsaved
             \/ result' = SavedDone(s, n) /\ UNCHANGED streams /\ p \in Unsaved
             \/ /\ result' = SavedDone(s, n) /\ p \in Settled
                /\ Publish(s, [sessions[s] EXCEPT !.state = "DONE", !.docs = n], "docs_ready")
      PROVE  StepOf(s)
  <2> DEFINE x == [sessions[s] EXCEPT !.state = "DONE", !.docs = n]
  <2>1. /\ x \in Session /\ x.state = "DONE" /\ x.docs = n
        /\ x.mfaEvent = sessions[s].mfaEvent /\ x.code = sessions[s].code
    <3>1. sessions[s] \in Session /\ "DONE" \in States
      BY <1>1, ActiveSession DEF States
    <3> QED BY <3>1 DEF Session
  <2>2. SetSession(s, x)
    BY <1>5
  <2>3. n > 0 /\ n \in 1..MaxDocs
    BY <1>5, LoginConstants DEF Fetched
  <2> HIDE DEF x
  <2>4. /\ DOMAIN sessions' = DOMAIN sessions /\ sessions'[s] = x
        /\ \A t \in DOMAIN sessions \ {s} : sessions'[t] = sessions[t]
    BY <1>1, <2>1, <2>2, Sets, ActiveSession
  <2>5. /\ task' \in [Sids -> Task] /\ \A t \in Sids \ {s} : task'[t] = task[t]
        /\ task'[s].pc = p /\ task'[s].got = task[s].got
    BY <1>5, Goes DEF Active
  <2>6. Moved(s)
    BY <1>1, <2>1, <2>3, <2>4, <2>5, ActiveSession DEF Moved
  <2>7. Saves(s)
    BY <1>1, <1>5, <2>3 DEF Saves, SavedDone
  <2>8. Tells(s) \/ Hides(s)
    <3>1. CASE UNCHANGED streams /\ p \in Unsaved
      BY <2>1, <2>4, <2>5, <3>1 DEF Hides
    <3>2. CASE /\ result' = SavedDone(s, n) /\ p \in Settled
               /\ Publish(s, x, "docs_ready")
      <4>1. Publish(s, sessions'[s], "docs_ready")
        BY <2>4, <3>2
      <4> QED BY <2>1, <2>4, <2>5, <3>2, <4>1 DEF Tells, SavedDone
    <3> QED BY <1>5, <3>1, <3>2 DEF x
  <2>9. MfaInv(s)'
    BY <1>1, <1>5, <2>1, <2>4, <2>5, ActiveSession DEF MfaInv, Present
  <2>10. EndInv(s)'
    <3>1. CASE p \in Unsaved
      BY <2>5, <3>1 DEF EndInv, Unsaved, Ended
    <3>2. CASE result' = SavedDone(s, n)
      <4>1. result'[s] = [at |-> "fresh", docs |-> n]
        BY <3>2 DEF SavedDone, LInv, Typed
      <4> QED BY <2>1, <2>4, <4>1 DEF EndInv, Final
    <3> QED BY <1>5, <3>1, <3>2
  <2> QED BY <2>6, <2>7, <2>8, <2>9, <2>10 DEF StepOf
<1>6. "teardown" \in Active /\ "teardown" \in Settled /\ "teardown" \notin BeforeMfa
  BY DEF Active, PCs, Settled, BeforeMfa
<1>7. ASSUME NEW n \in 0..MaxDocs, Fetched(n),
             Change(s, [sessions[s] EXCEPT !.state = "DONE", !.docs = n], "docs_ready"),
             result' = SavedDone(s, n), GoTo(s, "teardown")
      PROVE  StepOf(s)
  BY <1>5, <1>6, <1>7 DEF Change
<1>8. ASSUME NEW n \in 0..MaxDocs, Fetched(n),
             SetSession(s, [sessions[s] EXCEPT !.state = "DONE", !.docs = n]),
             result' \in {result, SavedDone(s, n)}, GoTo(s, SaveFailed[task[s].pc]),
             UNCHANGED streams
      PROVE  StepOf(s)
  BY <1>2, <1>5, <1>8
<1> QED BY <1>3, <1>4, <1>7, <1>8 DEF Save

\* wait_for returned the code that was posted (session_manager.py:240-264).
LEMMA ResumeStep ==
  ASSUME LInv, NEW s \in Sids, MfaResume(s)
  PROVE  StepOf(s)
<1>1. task[s].pc = "mfa" /\ task[s].pc \in Active /\ UNCHANGED <<old, accepted, crashes>>
  BY DEF MfaResume, At, Active, PCs
<1>2. CASE Raise(s)
  BY <1>1, <1>2, QuietStep DEF Raise, Active, PCs, Settled, Unsaved, BeforeMfa, Ended
<1>3. CASE /\ sessions[s].mfaEvent
           /\ task' = [task EXCEPT ![s].pc = "submit", ![s].got = sessions[s].code]
           /\ SetSession(s, [sessions[s] EXCEPT !.mfaEvent = FALSE, !.code = NoCode])
           /\ UNCHANGED <<streams, result>>
  <2> DEFINE x == [sessions[s] EXCEPT !.mfaEvent = FALSE, !.code = NoCode]
             y == [task[s] EXCEPT !.pc = "submit", !.got = sessions[s].code]
  <2>1. sessions[s] \in Session /\ sessions[s].code \in Codes \cup {NoCode}
    BY <1>1, ActiveSession DEF Session
  <2>2. /\ x \in Session /\ x.state = sessions[s].state /\ x.docs = sessions[s].docs
        /\ ~x.mfaEvent
    BY <2>1 DEF Session
  <2>3. y \in Task /\ y.pc = "submit" /\ y.got = sessions[s].code
    BY <1>1, <2>1, ActiveSession DEF Task, PCs
  <2>4. task' \in [Sids -> Task] /\ task'[s] = y /\ \A t \in Sids \ {s} : task'[t] = task[t]
    <3>1. task \in [Sids -> Task]
      BY DEF LInv, Typed
    <3>2. task' = [task EXCEPT ![s] = y]
      BY <1>3, <3>1
    <3> HIDE DEF y
    <3> QED BY <2>3, <3>1, <3>2
  <2>5. SetSession(s, x) /\ UNCHANGED <<streams, result>>
    BY <1>3
  <2>6. accepted[s] = <<sessions[s].code>>
    BY <1>1, <1>3, ActiveSession DEF MfaInv
  <2> HIDE DEF x, y
  <2>7. /\ DOMAIN sessions' = DOMAIN sessions /\ sessions'[s] = x
        /\ \A t \in DOMAIN sessions \ {s} : sessions'[t] = sessions[t]
    BY <1>1, <2>2, <2>5, Sets, ActiveSession
  <2>8. "submit" \in Active /\ "submit" \notin BeforeMfa /\ "mfa" \notin Settled \cup Unsaved
    BY DEF Active, PCs, BeforeMfa, Settled, Unsaved
  <2>9. Moved(s)
    BY <1>1, <2>2, <2>3, <2>4, <2>7, <2>8, ActiveSession DEF Moved
  <2>10. Saves(s) /\ Hides(s)
    BY <1>1, <2>2, <2>5, <2>7, <2>8 DEF Saves, Hides
  <2>11. sessions[s].state # "MFA_REQUIRED"
    <3>1. <<sessions[s].code>> # <<>>
      OBVIOUS
    <3>2. MfaInv(s) /\ Present(s)
      BY <1>1, ActiveSession
    <3>3. ASSUME sessions[s].state = "MFA_REQUIRED" PROVE accepted[s] = <<>>
      BY <3>2, <3>3 DEF MfaInv
    <3> QED BY <2>6, <3>1, <3>3
  <2>12. Len(<<sessions[s].code>>) <= 1
    OBVIOUS
  <2>13. MfaInv(s)'
    BY <1>1, <2>2, <2>3, <2>4, <2>6, <2>7, <2>8, <2>11, <2>12 DEF MfaInv, Present
  <2>14. EndInv(s)'
    BY <2>3, <2>4 DEF EndInv, Ended
  <2> QED BY <2>9, <2>10, <2>13, <2>14 DEF StepOf
<1> QED BY <1>2, <1>3 DEF MfaResume

LEMMA KickStep ==
  ASSUME LInv, NEW s \in Sids, Kick(s)
  PROVE  StepOf(s)
<1>1. /\ task[s].pc = "kick" /\ task[s].pc \in Active /\ task[s].pc \notin Unsaved
      /\ GoTo(s, "end") /\ UNCHANGED <<streams, result, old, accepted, crashes>>
      /\ "end" \in PCs /\ "end" \notin BeforeMfa /\ "end" \in Settled
  BY DEF Kick, At, Active, PCs, Unsaved, BeforeMfa, Settled
<1>2. PICK k \in BOOLEAN : SetSession(s, [sessions[s] EXCEPT !.kicked = k])
  BY DEF Kick
<1> DEFINE x == [sessions[s] EXCEPT !.kicked = k]
<1>3. /\ x \in Session /\ x.state = sessions[s].state /\ x.docs = sessions[s].docs
  BY <1>1, ActiveSession DEF Session
<1>4. SetSession(s, x)
  BY <1>2
<1> HIDE DEF x
<1>5. /\ DOMAIN sessions' = DOMAIN sessions /\ sessions'[s] = x
      /\ \A t \in DOMAIN sessions \ {s} : sessions'[t] = sessions[t]
  BY <1>1, <1>3, <1>4, Sets, ActiveSession
<1>6. /\ task' \in [Sids -> Task] /\ \A t \in Sids \ {s} : task'[t] = task[t]
      /\ task'[s].pc = "end" /\ task'[s].got = task[s].got
  BY <1>1, Goes
<1>7. Moved(s) /\ Saves(s) /\ Hides(s)
  BY <1>1, <1>3, <1>5, <1>6, ActiveSession DEF Moved, Saves, Hides
<1>8. MfaInv(s)'
  BY <1>1, <1>3, <1>5, <1>6, ActiveSession DEF MfaInv, Present
<1>9. EndInv(s)'
  BY <1>1, <1>3, <1>5, <1>6, ActiveSession DEF EndInv, Ended, Present
<1> QED BY <1>7, <1>8, <1>9 DEF StepOf

LEMMA TaskStepIsStep ==
  ASSUME LInv, NEW s \in Sids, TaskStep(s)
  PROVE  StepOf(s)
BY ControlStep, ProgressStep, FetchStep, SaveStep, ResumeStep, KickStep DEF TaskStep
----------------------------------------------------------------------------
(* The handlers, the streams and time                                      *)

\* What the TTL, a timer or the fate of the process changes leaves every session
\* as it is or takes it away, with its task.
LEMMA LossKeeps ==
  ASSUME LInv, task' \in [Sids -> Task], result' \in [Sids -> Result], old' \subseteq Sids,
         DOMAIN sessions' \subseteq DOMAIN sessions,
         \A s \in DOMAIN sessions' : sessions'[s] = sessions[s],
         \A s \in Sids :
           /\ task'[s].got = task[s].got
           /\ \/ task'[s].pc = task[s].pc /\ (Present(s) => Present(s)')
              \/ task'[s].pc = "cancelled" /\ ~Present(s)' /\ task[s].pc # "none"
              \/ task'[s].pc = "end" /\ task[s].pc = "end" /\ ~Present(s)'
           /\ result'[s].docs = result[s].docs
           /\ result'[s].at = "none" <=> result[s].at = "none",
         UNCHANGED accepted,
         streams' \in [Clients -> Stream],
         \A r \in Clients :
           \/ streams'[r] = streams[r]
           \/ \E y : y = streams'[r] /\ StreamInv(y)'
           \/ /\ streams'[r].at \notin {"open", "sent"} /\ streams'[r].sid = streams[r].sid
              /\ Items(streams'[r].queue) = {} /\ streams'[r].seen = streams[r].seen
  PROVE  LInv'
<1> USE DEF LInv
<1>1. Typed'
  BY DEF Typed
<1>2. ASSUME NEW s \in Sids PROVE SessionInv(s)' /\ MfaInv(s)' /\ EndInv(s)'
  <2>1. SessionInv(s) /\ MfaInv(s) /\ EndInv(s)
    OBVIOUS
  <2>2. Present(s)' => Present(s) /\ sessions'[s] = sessions[s]
    BY DEF Present
  <2>3. SessionInv(s)'
    BY <2>1, <2>2 DEF SessionInv, Active
  <2>4. MfaInv(s)'
    BY <2>1, <2>2 DEF MfaInv, BeforeMfa
  <2>5. EndInv(s)'
    BY <2>1, <2>2 DEF EndInv, Ended
  <2> QED BY <2>3, <2>4, <2>5
<1>3. ASSUME NEW z \in Stream, StreamInv(z), NEW y \in Stream,
             \/ y = z
             \/ /\ y.at \notin {"open", "sent"} /\ y.sid = z.sid
                /\ Items(y.queue) = {} /\ y.seen = z.seen
      PROVE  StreamInv(y)'
  <2>1. z.sid \in Sids
    BY DEF Stream
  <2>2. task[z.sid].pc \in Settled => task'[z.sid].pc \in Settled
    BY <2>1 DEF Settled
  <2>3. \A e : Sound(z, e) => Sound(z, e)'
    BY <2>1, <2>2 DEF Sound
  <2>4. Sound(y, y.seen)' /\ \A e \in Items(y.queue) : Sound(y, e)'
    BY <1>3, <2>3 DEF StreamInv, Sound
  <2>5. y.at \in {"open", "sent"} => task'[y.sid].pc # "none"
    BY <1>3, <2>1 DEF StreamInv
  <2>6. Follows(y)'
    <3>1. CASE y = z /\ Present(z.sid)'
      <4>1. Present(z.sid) /\ sessions'[z.sid] = sessions[z.sid]
        BY <3>1 DEF Present
      <4>2. task'[z.sid].pc = task[z.sid].pc
        BY <2>1, <3>1
      <4> QED BY <1>3, <3>1, <4>1, <4>2 DEF StreamInv, Follows
    <3> QED BY <1>3, <3>1 DEF Follows
  <2> QED BY <2>4, <2>5, <2>6 DEF StreamInv
<1>4. ASSUME NEW r \in Clients PROVE StreamInv(streams[r])'
  <2>1. PICK z, y : z = streams[r] /\ y = streams'[r]
    OBVIOUS
  <2>2. z \in Stream /\ y \in Stream /\ StreamInv(z)
    BY <2>1 DEF Typed
  <2>3. CASE \/ streams'[r] = streams[r]
             \/ /\ streams'[r].at \notin {"open", "sent"}
                /\ streams'[r].sid = streams[r].sid
                /\ Items(streams'[r].queue) = {} /\ streams'[r].seen = streams[r].seen
    <3>1. StreamInv(y)'
      BY <1>3, <2>1, <2>2, <2>3
    <3> QED BY <2>1, <3>1
  <2>4. ASSUME NEW x, x = streams'[r], StreamInv(x)' PROVE StreamInv(streams[r])'
    BY <2>4
  <2> QED BY <2>3, <2>4
<1> QED BY <1>1, <1>2, <1>4

LEMMA PrunedKeeps ==
  ASSUME LInv
  PROVE  /\ PrunedResults \in [Sids -> Result]
         /\ \A s \in Sids : /\ PrunedResults[s].docs = result[s].docs
                            /\ PrunedResults[s].at = "none" <=> result[s].at = "none"
<1>1. \A s \in Sids : result[s] \in Result
  BY DEF LInv, Typed
<1> QED BY <1>1 DEF PrunedResults, Result

\* Only one stream changes, and results may be pruned.
LEMMA StreamKeeps ==
  ASSUME LInv, UNCHANGED <<sessions, task, old, accepted>>, result' \in {result, PrunedResults},
         NEW r \in Clients, NEW y \in Stream, streams' = [streams EXCEPT ![r] = y],
         StreamInv(y)'
  PROVE  LInv'
<1>1. streams'[r] = y /\ \A q \in Clients \ {r} : streams'[q] = streams[q]
  BY DEF LInv, Typed
<1>2. \A q \in Clients : streams'[q] = streams[q] \/ \E x : x = streams'[q] /\ StreamInv(x)'
  BY <1>1
<1>3. /\ result' \in [Sids -> Result]
      /\ \A s \in Sids : /\ result'[s].docs = result[s].docs
                         /\ result'[s].at = "none" <=> result[s].at = "none"
  BY PrunedKeeps DEF LInv, Typed
<1>4. /\ task' \in [Sids -> Task] /\ old' \subseteq Sids
      /\ streams' \in [Clients -> Stream]
  BY DEF LInv, Typed
<1>5. \A s : Present(s)' <=> Present(s)
  BY DEF Present
<1>6. /\ sessions' = sessions /\ accepted' = accepted
      /\ \A s \in Sids : /\ task'[s].got = task[s].got /\ task'[s].pc = task[s].pc
                         /\ Present(s) => Present(s)'
  BY <1>5
<1> QED BY <1>2, <1>3, <1>4, <1>6, LossKeeps

LEMMA OpenKeeps ==
  ASSUME LInv, NEW r \in Clients, NEW s \in Sids, Open(r, s)
  PROVE  LInv'
<1>1. SessionInv(s) /\ UNCHANGED <<sessions, task, old, accepted>> /\ s \in Sids
  BY DEF Open, LInv
<1>2. NoEvent \in Event /\ NoEvent.state = "IDLE" /\ NoEvent.kind = "none"
  BY LoginConstants DEF NoEvent, Event, States
<1>3. CASE Present(s) /\ UNCHANGED result
           /\ streams' = [streams EXCEPT ![r] =
                [at |-> "open", sid |-> s, seen |-> NoEvent,
                 queue |-> <<Snapshot(sessions[s], "state_change")>>]]
  <2>1. PICK e : e = Snapshot(sessions[s], "state_change")
    OBVIOUS
  <2>2. /\ e \in Event /\ e.kind = "state_change" /\ e.state = sessions[s].state
        /\ e.docs = sessions[s].docs
        /\ e.state = "DONE" => e.docs > 0
    BY <1>1, <1>3, <2>1 DEF SessionInv, Snapshot, Session, Event
  <2>3. PICK y : y = [at |-> "open", sid |-> s, seen |-> NoEvent, queue |-> <<e>>]
    OBVIOUS
  <2>4. /\ <<e>> \in Seq(Event) /\ <<e>> # <<>> /\ <<e>>[Len(<<e>>)] = e
        /\ Items(<<e>>) = {e}
    BY <2>2 DEF Items
  <2>5. y \in Stream
    BY <1>2, <2>3, <2>4 DEF Stream
  <2>6. Latest(y) = e
    BY <2>3, <2>4 DEF Latest
  <2>7. StreamInv(y)'
    <3>1. Follows(y)'
      BY <1>1, <2>2, <2>3, <2>6 DEF Follows, Latest
    <3>2. Sound(y, y.seen)' /\ \A f \in Items(y.queue) : Sound(y, f)'
      BY <1>2, <2>2, <2>3, <2>4 DEF Sound, Announces
    <3>3. task'[y.sid].pc # "none"
      BY <1>1, <1>3, <2>3 DEF SessionInv
    <3> QED BY <2>5, <3>1, <3>2, <3>3 DEF StreamInv
  <2> QED BY <1>1, <1>3, <2>1, <2>3, <2>5, <2>7, StreamKeeps
<1>4. CASE /\ ~Present(s) /\ task[s].pc # "none" /\ result' = PrunedResults
           /\ LET found == result[s].at = "fresh"
              IN  streams' = [streams EXCEPT ![r] =
                    [at |-> IF found THEN "ended" ELSE "refused", sid |-> s,
                     seen |-> IF found THEN [kind |-> "docs_ready", state |-> "DONE",
                                             docs |-> result[s].docs] ELSE NoEvent,
                     queue |-> <<>>]]
  <2>1. PICK e, a :
          /\ e = IF result[s].at = "fresh"
                 THEN [kind |-> "docs_ready", state |-> "DONE", docs |-> result[s].docs]
                 ELSE NoEvent
          /\ a = IF result[s].at = "fresh" THEN "ended" ELSE "refused"
    OBVIOUS
  <2>2. PICK y : y = [at |-> a, sid |-> s, seen |-> e, queue |-> <<>>]
    OBVIOUS
  <2>3. /\ task[s].pc \in Settled /\ task[s].pc \in PCs
        /\ result[s].docs \in 0..MaxDocs
    BY <1>1, <1>4 DEF SessionInv, LInv, Typed, Task, Result, Active, Settled
  <2>4. /\ e \in Event
        /\ e.state = "DONE" => e.docs > 0 /\ result[s].at # "none"
        /\ Announces(e) => e.docs = result[s].docs /\ result[s].at # "none"
    BY <1>1, <1>2, <2>1, <2>3 DEF SessionInv, Event, States, Announces
  <2>5. y \in Stream /\ Items(y.queue) = {} /\ y.at \notin {"open", "sent"}
    BY <2>1, <2>2, <2>4 DEF Stream, Items
  <2>6. StreamInv(y)'
    <3>1. /\ result'[s].docs = result[s].docs /\ task'[s].pc \in Settled
          /\ result'[s].at = "none" <=> result[s].at = "none"
      <4>1. result' = PrunedResults /\ task' = task
        BY <1>1, <1>4
      <4> QED BY <2>3, <4>1, PrunedKeeps
    <3>2. Sound(y, e)'
      BY <2>2, <2>4, <3>1 DEF Sound
    <3> QED BY <2>2, <2>5, <3>2 DEF StreamInv, Follows
  <2> QED BY <1>1, <1>4, <2>1, <2>2, <2>5, <2>6, StreamKeeps
<1> QED BY <1>3, <1>4 DEF Open

LEMMA NoItems == <<>> \in Seq(Event) /\ Items(<<>>) = {}
BY DEF Items

LEMMA StreamStep ==
  ASSUME LInv, NEW r \in Clients, Deliver(r) \/ CloseOrHold(r) \/ Leave(r)
  PROVE  LInv'
<1>1. UNCHANGED <<sessions, task, result, old, accepted>>
  BY DEF Deliver, CloseOrHold, Leave
<1>2. PICK z : z = streams[r]
  OBVIOUS
<1>3. z \in Stream /\ StreamInv(z) /\ z.queue \in Seq(Event) /\ z.seen \in Event
  BY <1>2 DEF LInv, Typed, Stream
<1>4. /\ \A y, e : Sound(z, e) /\ y.sid = z.sid => Sound(y, e)'
      /\ \A s : Present(s)' <=> Present(s)
  BY <1>1 DEF Sound, Present
<1>5. ASSUME NEW y \in Stream, streams' = [streams EXCEPT ![r] = y], StreamInv(y)'
      PROVE  LInv'
  BY <1>1, <1>5, StreamKeeps
<1>6. CASE Deliver(r)
  <2>1. PICK y : y = [z EXCEPT !.at = "sent", !.seen = Head(z.queue), !.queue = Tail(z.queue)]
    OBVIOUS
  <2>2. streams' = [streams EXCEPT ![r] = y] /\ z.at = "open" /\ z.queue # <<>>
    BY <1>2, <1>6, <2>1 DEF Deliver, LInv, Typed
  <2>3. PICK q, e : q = Tail(z.queue) /\ e = Head(z.queue)
    OBVIOUS
  <2>4. /\ e \in Event /\ q \in Seq(Event)
        /\ e \in Items(z.queue) /\ Items(q) \subseteq Items(z.queue)
        /\ q = <<>> => e = z.queue[Len(z.queue)]
        /\ q # <<>> => q[Len(q)] = z.queue[Len(z.queue)]
    BY <1>3, <2>2, <2>3, Shifted
  <2>5. /\ y \in Stream /\ y.at = "sent" /\ y.sid = z.sid /\ y.seen = e /\ y.queue = q
    BY <1>3, <2>1, <2>3, <2>4 DEF Stream
  <2>7. Follows(y)'
    <3>1. Latest(y) = Latest(z)
      BY <2>2, <2>4, <2>5 DEF Latest
    <3>2. Follows(z)
      BY <1>3 DEF StreamInv
    <3> QED BY <1>1, <2>2, <2>5, <3>1, <3>2 DEF Follows, Present
  <2>8. Sound(y, y.seen)' /\ \A f \in Items(y.queue) : Sound(y, f)'
    BY <1>3, <1>4, <2>4, <2>5 DEF StreamInv
  <2>9. task'[y.sid].pc # "none"
    BY <1>1, <1>3, <2>2, <2>5 DEF StreamInv
  <2> QED BY <1>5, <2>2, <2>5, <2>7, <2>8, <2>9 DEF StreamInv
<1>7. CASE CloseOrHold(r)
  <2>1. PICK y : y = [z EXCEPT !.at = streams'[r].at, !.queue = streams'[r].queue]
    OBVIOUS
  <2>2. /\ streams' = [streams EXCEPT ![r] = y] /\ z.at = "sent"
        /\ \/ y.at = "ended" /\ y.queue = <<>>
           \/ y.at = "open" /\ y.queue = z.queue
    BY <1>2, <1>3, <1>7, <2>1 DEF CloseOrHold, LInv, Typed, Stream
  <2>3. y \in Stream /\ y.sid = z.sid /\ y.seen = z.seen
    <3>1. PICK a, q : a = streams'[r].at /\ q = streams'[r].queue
      OBVIOUS
    <3>2. a \in {"ended", "open"} /\ q \in Seq(Event)
      BY <1>3, <2>1, <2>2, <3>1, NoItems DEF Stream
    <3>3. y = [z EXCEPT !.at = a, !.queue = q]
      BY <2>1, <3>1
    <3> QED BY <1>3, <3>2, <3>3 DEF Stream
  <2>4. Items(y.queue) \subseteq Items(z.queue)
    BY <2>2 DEF Items
  <2>5. Follows(y)'
    <3>1. CASE y.at = "open" /\ y.queue = z.queue
      <4>1. Latest(y) = Latest(z)
        BY <2>3, <3>1 DEF Latest
      <4>2. Follows(z)
        BY <1>3 DEF StreamInv
      <4> QED BY <1>1, <2>2, <2>3, <4>1, <4>2 DEF Follows, Present
    <3> QED BY <2>2, <3>1 DEF Follows
  <2>6. Sound(y, y.seen)' /\ \A f \in Items(y.queue) : Sound(y, f)'
    BY <1>3, <1>4, <2>3, <2>4 DEF StreamInv
  <2>7. y.at \in {"open", "sent"} => task'[y.sid].pc # "none"
    BY <1>1, <1>3, <2>2, <2>3 DEF StreamInv
  <2> QED BY <1>5, <2>2, <2>3, <2>5, <2>6, <2>7 DEF StreamInv
<1>8. CASE Leave(r)
  <2>1. PICK y : y = [z EXCEPT !.at = "off", !.queue = <<>>, !.seen = NoEvent]
    OBVIOUS
  <2>2. streams' = [streams EXCEPT ![r] = y]
    BY <1>2, <1>8, <2>1 DEF Leave, LInv, Typed
  <2>3. NoEvent \in Event
    BY LoginConstants DEF NoEvent, Event, States
  <2>4. y \in Stream /\ y.at = "off" /\ y.queue = <<>> /\ y.seen = NoEvent
    <3>1. <<>> \in Seq(Event)
      OBVIOUS
    <3>2. PICK q : q = <<>>
      OBVIOUS
    <3>3. y = [z EXCEPT !.at = "off", !.queue = q, !.seen = NoEvent] /\ q \in Seq(Event)
      BY <2>1, <3>1, <3>2
    <3>4. y \in Stream /\ y.at = "off" /\ y.queue = q /\ y.seen = NoEvent
      BY <1>3, <2>3, <3>3 DEF Stream
    <3> QED BY <3>2, <3>4
  <2>5. StreamInv(y)'
    BY <2>4 DEF StreamInv, Follows, Sound, Announces, NoEvent, Items
  <2> QED BY <1>5, <2>2, <2>4, <2>5
<1> QED BY <1>6, <1>7, <1>8

\* The timer of wait_for, the TTL and the death of the process.
LEMMA TimeStep ==
  ASSUME LInv, (\E s \in Sids : MfaTimer(s) \/ Age(s)) \/ Crash
  PROVE  LInv'
<1>1. CASE \E s \in Sids : MfaTimer(s)
  <2>1. PICK s \in Sids : MfaTimer(s)
    BY <1>1
  <2>2. /\ task' = [task EXCEPT ![s].timedOut = TRUE]
        /\ UNCHANGED <<sessions, streams, result, old, accepted>>
    BY <2>1 DEF MfaTimer, At, Quiet
  <2>3. /\ task' \in [Sids -> Task]
        /\ \A t \in Sids : task'[t].pc = task[t].pc /\ task'[t].got = task[t].got
    <3>1. task \in [Sids -> Task]
      BY DEF LInv, Typed
    <3>2. [task[s] EXCEPT !.timedOut = TRUE] \in Task
      BY <3>1 DEF Task
    <3> QED BY <2>2, <3>1, <3>2 DEF Task
  <2>4. \A t : Present(t)' <=> Present(t)
    BY <2>2 DEF Present
  <2> QED BY <2>2, <2>3, <2>4, LossKeeps DEF LInv, Typed
<1>2. CASE \E s \in Sids : Age(s)
  <2>1. PICK s \in Sids : Age(s)
    BY <1>2
  <2>2. UNCHANGED <<sessions, task, streams, accepted>>
    BY <2>1 DEF Age
  <2>3. /\ old' \subseteq Sids /\ result' \in [Sids -> Result]
        /\ \A t \in Sids : /\ result'[t].docs = result[t].docs
                           /\ result'[t].at = "none" <=> result[t].at = "none"
    <3>1. result \in [Sids -> Result] /\ result[s] \in Result /\ old \subseteq Sids
      BY DEF LInv, Typed
    <3>2. CASE old' = old \cup {s} /\ UNCHANGED result
      BY <3>1, <3>2
    <3>3. CASE /\ result[s].at = "fresh" /\ UNCHANGED old
               /\ result' = [result EXCEPT ![s].at = "old"]
      <4>1. [result[s] EXCEPT !.at = "old"] \in Result
        BY <3>1 DEF Result
      <4> QED BY <3>1, <3>3, <4>1 DEF Result
    <3> QED BY <2>1, <3>2, <3>3 DEF Age
  <2>4. \A t : Present(t)' <=> Present(t)
    BY <2>2 DEF Present
  <2> QED BY <2>2, <2>3, <2>4, LossKeeps DEF LInv, Typed
<1>3. CASE Crash
  <2>1. DOMAIN sessions' = {} /\ UNCHANGED <<result, old, accepted>>
    BY <1>3 DEF Crash
  <2>2. /\ task' \in [Sids -> Task]
        /\ \A t \in Sids : /\ task'[t].got = task[t].got
                           /\ task'[t].pc = IF task[t].pc \in {"none", "end"}
                                          THEN task[t].pc ELSE "cancelled"
    <3>1. task \in [Sids -> Task] /\ \A t \in Sids : task[t] \in Task
      BY DEF LInv, Typed
    <3>2. "cancelled" \in PCs
      BY DEF PCs
    <3> SUFFICES ASSUME NEW t \in Sids
                 PROVE  /\ task'[t] \in Task /\ task'[t].got = task[t].got
                        /\ task'[t].pc = IF task[t].pc \in {"none", "end"}
                                         THEN task[t].pc ELSE "cancelled"
      BY <1>3 DEF Crash
    <3>3. CASE task[t].pc \in {"none", "end"}
      BY <1>3, <3>1, <3>3 DEF Crash
    <3>4. CASE task[t].pc \notin {"none", "end"}
      <4>1. task'[t] = [task[t] EXCEPT !.pc = "cancelled"]
        BY <1>3, <3>4 DEF Crash
      <4> QED BY <3>1, <3>2, <3>4, <4>1, TaskFields
    <3> QED BY <3>3, <3>4
  <2>3. \A t \in Sids : task[t].pc = "none" => ~Present(t)
    BY DEF LInv, SessionInv
  <2>4. \A t : ~Present(t)'
    BY <2>1 DEF Present
  <2>5. /\ streams' \in [Clients -> Stream]
        /\ \A r \in Clients :
             \/ streams'[r] = streams[r]
             \/ /\ streams'[r].at \notin {"open", "sent"} /\ streams'[r].sid = streams[r].sid
                /\ Items(streams'[r].queue) = {} /\ streams'[r].seen = streams[r].seen
    <3>1. \A r \in Clients : streams[r] \in Stream
      BY DEF LInv, Typed
    <3>2. \A x \in Stream : LET y == [x EXCEPT !.at = "off", !.queue = <<>>]
                            IN  /\ y \in Stream /\ y.at = "off" /\ y.sid = x.sid
                                /\ y.queue = <<>> /\ y.seen = x.seen
      <4> TAKE x \in Stream
      <4>1. PICK q, a : q = <<>> /\ a = "off"
        OBVIOUS
      <4>2. q \in Seq(Event) /\ a \in {"off", "open", "sent", "ended", "refused"}
        BY <4>1, NoItems
      <4>3. PICK y : y = [x EXCEPT !.at = a, !.queue = q]
        OBVIOUS
      <4>4. /\ y \in Stream /\ y.at = a /\ y.sid = x.sid
            /\ y.queue = q /\ y.seen = x.seen
        BY <4>2, <4>3 DEF Stream
      <4>5. y = [x EXCEPT !.at = "off", !.queue = <<>>]
        BY <4>1, <4>3
      <4> QED BY <4>1, <4>4, <4>5
    <3>3. Items(<<>>) = {}
      BY DEF Items
    <3> QED BY <1>3, <3>1, <3>2, <3>3 DEF Crash
  <2> QED BY <2>1, <2>2, <2>3, <2>4, <2>5, LossKeeps DEF LInv, Typed
<1> QED BY <1>1, <1>2, <1>3

\* POST /api/mfa: the code is accepted once, and the streams are told.
LEMMA SubmitStep ==
  ASSUME LInv, NEW s \in Sids, NEW c \in Codes, SubmitMfa(s, c)
  PROVE  StepOf(s)
<1>1. /\ Present(s) /\ sessions[s].state = "MFA_REQUIRED"
      /\ accepted' = [accepted EXCEPT ![s] = Append(@, c)]
      /\ UNCHANGED <<task, result, old, crashes>>
  BY DEF SubmitMfa
<1>2. /\ task[s].pc \in {"mfa", "unwind"} /\ accepted[s] = <<>> /\ task[s].got = NoCode
      /\ sessions[s] \in Session
  BY <1>1 DEF LInv, MfaInv, SessionInv
<1>3. /\ task[s].pc \in Active /\ task[s].pc \notin BeforeMfa
  BY <1>2 DEF Active, PCs, BeforeMfa
<1> DEFINE x == [sessions[s] EXCEPT !.code = c, !.state = "AUTHENTICATING", !.mfaEvent = TRUE]
<1>4. /\ x \in Session /\ x.state = "AUTHENTICATING" /\ x.docs = sessions[s].docs
      /\ x.code = c
  BY <1>2 DEF Session, States
<1>5. SetSession(s, x) /\ Publish(s, x, "state_change")
  BY DEF SubmitMfa, Change
<1> HIDE DEF x
<1>6. /\ DOMAIN sessions' = DOMAIN sessions /\ sessions'[s] = x
      /\ \A t \in DOMAIN sessions \ {s} : sessions'[t] = sessions[t]
  BY <1>1, <1>4, <1>5, Sets
<1>7. /\ accepted' \in [Sids -> Seq(Codes)] /\ accepted'[s] = <<c>>
      /\ \A t \in Sids \ {s} : accepted'[t] = accepted[t]
  <2>1. accepted \in [Sids -> Seq(Codes)] /\ <<c>> \in Seq(Codes)
    BY DEF LInv, Typed
  <2>2. Append(<<>>, c) = <<c>>
    OBVIOUS
  <2>3. accepted' = [accepted EXCEPT ![s] = <<c>>]
    BY <1>1, <1>2, <2>1, <2>2
  <2> QED BY <2>1, <2>3
<1>8. Moved(s)
  BY <1>1, <1>3, <1>4, <1>6, <1>7, ActiveSession DEF Moved, LInv, Typed
<1>9. Saves(s) /\ Tells(s)
  BY <1>1, <1>4, <1>5, <1>6 DEF Saves, Tells
<1>10. MfaInv(s)'
  <2>1. Len(<<c>>) <= 1
    OBVIOUS
  <2> QED BY <1>1, <1>2, <1>3, <1>4, <1>6, <1>7, <2>1 DEF MfaInv, Present
<1>11. EndInv(s)'
  BY <1>1, <1>2 DEF EndInv, Ended
<1> QED BY <1>8, <1>9, <1>10, <1>11 DEF StepOf

\* POST /api/login: the sessions past their TTL go with their tasks, and the new
\* session has an id nobody used.
LEMMA CreateStep ==
  ASSUME LInv, NEW s \in Sids, Create(s)
  PROVE  LInv' /\ s \notin DOMAIN sessions
<1>1. /\ task[s].pc = "none" /\ ~Present(s) /\ s \notin DOMAIN sessions
      /\ UNCHANGED <<old, streams, accepted>> /\ result' = PrunedResults
  BY DEF Create, LInv, SessionInv, Present
<1>2. /\ DOMAIN sessions' = (DOMAIN sessions \ old) \cup {s}
      /\ sessions'[s] = NewSession
      /\ \A t \in DOMAIN sessions' \ {s} : sessions'[t] = sessions[t]
  BY DEF Create
<1>3. task \in [Sids -> Task] /\ \A t \in Sids : task[t] \in Task
  BY DEF LInv, Typed
<1>4. /\ task' \in [Sids -> Task] /\ task'[s].pc = "start" /\ task'[s].got = task[s].got
      /\ \A t \in Sids \ {s} : task'[t] = PrunedTask(t)
  <2>1. PICK usaa \in BOOLEAN :
          task' = [x \in Sids |->
                     IF x = s THEN [task[s] EXCEPT !.pc = "start", !.usaa = usaa]
                     ELSE PrunedTask(x)]
    BY DEF Create
  <2>2. [task[s] EXCEPT !.pc = "start", !.usaa = usaa] \in Task
    BY <1>3 DEF Task, PCs
  <2>3. \A t \in Sids : PrunedTask(t) \in Task
    <3>1. "cancelled" \in PCs
      BY DEF PCs
    <3> QED BY <1>3, <3>1, TaskFields DEF PrunedTask
  <2>4. task'[s] = [task[s] EXCEPT !.pc = "start", !.usaa = usaa]
    BY <2>1
  <2> QED BY <1>3, <2>1, <2>2, <2>3, <2>4 DEF Task
<1>5. \A t \in Sids \ {s} :
        /\ task'[t].got = task[t].got
        /\ \/ task'[t].pc = task[t].pc /\ (Present(t) /\ t \in old => task[t].pc = "end")
           \/ task'[t].pc = "cancelled" /\ Present(t) /\ t \in old
  <2> TAKE t \in Sids \ {s}
  <2>1. task[t] \in Task /\ task'[t] = PrunedTask(t)
    BY <1>3, <1>4
  <2>2. CASE Present(t) /\ t \in old /\ task[t].pc # "end"
    <3>1. "cancelled" \in PCs /\ task'[t] = [task[t] EXCEPT !.pc = "cancelled"]
      BY <2>1, <2>2 DEF PrunedTask, PCs
    <3> QED BY <2>1, <2>2, <3>1, TaskFields
  <2>3. CASE ~(Present(t) /\ t \in old /\ task[t].pc # "end")
    BY <2>1, <2>3 DEF PrunedTask
  <2> QED BY <2>2, <2>3
<1>6. \A t \in Sids \ {s} : Present(t)' <=> Present(t) /\ t \notin old
  BY <1>2 DEF Present
<1>7. NewSession \in Session /\ NewSession.state = "IDLE" /\ ~NewSession.mfaEvent
  BY LoginConstants DEF NewSession, Session, States
<1>8. /\ result' \in [Sids -> Result]
      /\ \A t \in Sids : /\ result'[t].docs = result[t].docs
                         /\ result'[t].at = "none" <=> result[t].at = "none"
  BY <1>1, PrunedKeeps
<1>9. Typed'
  BY <1>1, <1>2, <1>4, <1>8 DEF LInv, Typed
<1>10. SessionInv(s)' /\ MfaInv(s)' /\ EndInv(s)'
  <2>1. SessionInv(s) /\ MfaInv(s)
    BY DEF LInv
  <2>2. SessionInv(s)'
    BY <1>2, <1>4, <1>7, <1>8, <2>1 DEF SessionInv, Present
  <2>3. accepted[s] = <<>> /\ task[s].got = NoCode
    BY <1>1, <2>1 DEF MfaInv, BeforeMfa
  <2>4. MfaInv(s)'
    BY <1>1, <1>2, <1>4, <1>7, <2>1, <2>3 DEF MfaInv, Present
  <2>5. EndInv(s)'
    BY <1>4 DEF EndInv, Ended
  <2> QED BY <2>2, <2>4, <2>5
<1>11. ASSUME NEW t \in Sids \ {s} PROVE SessionInv(t)' /\ MfaInv(t)' /\ EndInv(t)'
  <2>1. SessionInv(t) /\ MfaInv(t) /\ EndInv(t)
    BY DEF LInv
  <2>2. Present(t)' => sessions'[t] = sessions[t] /\ Present(t) /\ task'[t].pc = task[t].pc
    BY <1>2, <1>5, <1>6 DEF Present
  <2>3. SessionInv(t)'
    BY <1>5, <1>6, <1>8, <2>1, <2>2 DEF SessionInv, Active
  <2>4. MfaInv(t)'
    BY <1>1, <1>5, <2>1, <2>2 DEF MfaInv, BeforeMfa
  <2>5. EndInv(t)'
    BY <1>8, <2>1, <2>2 DEF EndInv
  <2> QED BY <2>3, <2>4, <2>5
<1>12. ASSUME NEW z \in Stream, StreamInv(z) PROVE StreamInv(z)'
  <2>1. z.sid \in Sids
    BY DEF Stream
  <2>2. task[z.sid].pc # "none" => z.sid # s
    BY <1>1
  <2>3. \A e : Sound(z, e) => Sound(z, e)'
    BY <1>1, <1>5, <1>8, <2>1 DEF Sound, Settled
  <2>4. z.at \in {"open", "sent"} => task'[z.sid].pc # "none"
    BY <1>12, <1>5, <2>1, <2>2 DEF StreamInv
  <2>5. Follows(z)'
    <3>1. CASE z.at \in {"open", "sent"} /\ Present(z.sid)'
      <4>1. z.sid # s
        BY <1>12, <2>2, <3>1 DEF StreamInv
      <4>2. z.sid \in DOMAIN sessions' /\ z.sid \in DOMAIN sessions /\ z.sid \notin old
        BY <1>2, <3>1, <4>1 DEF Present
      <4>3. /\ sessions'[z.sid] = sessions[z.sid] /\ task'[z.sid].pc = task[z.sid].pc
            /\ Present(z.sid)
        BY <1>2, <1>5, <2>1, <4>1, <4>2 DEF Present
      <4> QED BY <1>12, <3>1, <4>3 DEF StreamInv, Follows
    <3> QED BY <3>1 DEF Follows
  <2> QED BY <1>12, <2>3, <2>4, <2>5 DEF StreamInv
<1>13. ASSUME NEW r \in Clients PROVE StreamInv(streams[r])'
  <2>1. PICK z : z = streams[r]
    OBVIOUS
  <2>2. z \in Stream /\ StreamInv(z) /\ z = streams'[r]
    BY <1>1, <2>1 DEF LInv, Typed
  <2>3. StreamInv(z)'
    BY <1>12, <2>2
  <2> QED BY <2>2, <2>3
<1> QED BY <1>1, <1>9, <1>10, <1>11, <1>13 DEF LInv
----------------------------------------------------------------------------
LEMMA LNextInv == LInv /\ [Next]_vars => LInv'
<1> SUFFICES ASSUME LInv, [Next]_vars PROVE LInv'
  OBVIOUS
<1>1. CASE UNCHANGED vars
  BY <1>1 DEF vars, LInv, Typed, SessionInv, MfaInv, EndInv, StreamInv, Sound, Follows, Latest, Items,
              Announces, Present
<1>2. ASSUME NEW s \in Sids, Create(s) \/ TaskStep(s) \/ MfaTimer(s) \/ Age(s) PROVE LInv'
  BY <1>2, CreateStep, TaskStepIsStep, StepKeeps, TimeStep
<1>3. ASSUME NEW s \in Sids, NEW c \in Codes, SubmitMfa(s, c) PROVE LInv'
  BY <1>3, SubmitStep, StepKeeps
<1>4. ASSUME NEW r \in Clients, NEW s \in Sids, Open(r, s) PROVE LInv'
  BY <1>4, OpenKeeps
<1>5. ASSUME NEW r \in Clients, Deliver(r) \/ CloseOrHold(r) \/ Leave(r) PROVE LInv'
  BY <1>5, StreamStep
<1>6. CASE Crash
  BY <1>6, TimeStep
<1> QED BY <1>1, <1>2, <1>3, <1>4, <1>5, <1>6 DEF Next

LEMMA LInvariance == Spec => []LInv
<1> QED BY LInitInv, LNextInv, PTL DEF Spec

\* Sessions, tasks, results and streams keep their shape, and no session and no
\* event says DONE of an empty list of documents (orchestrator.py:18-24), for any
\* number of sessions, streams and documents.
THEOREM WellFormedProved == Spec => []WellFormed
<1>1. LInv => WellFormed
  <2> SUFFICES ASSUME LInv PROVE WellFormed
    OBVIOUS
  <2>1. TypeOK
    BY DEF LInv, Typed, TypeOK, SessionInv, Present
  <2>2. \A s \in DOMAIN sessions : sessions[s].state = "DONE" => sessions[s].docs > 0
    BY DEF LInv, Typed, SessionInv, Present
  <2>3. \A r \in Clients : streams[r].seen.state = "DONE" => streams[r].seen.docs > 0
    BY DEF LInv, StreamInv, Sound
  <2> QED BY <2>1, <2>2, <2>3 DEF WellFormed, DoneHasDocs
<1> QED BY <1>1, LInvariance, PTL

\* However many codes are posted, and whenever the timer fires, only the first is
\* accepted and the portal gets that one (session_manager.py:240-264).
THEOREM FirstCodeWinsProved == Spec => []FirstCodeWins
<1>1. LInv => FirstCodeWins
  BY DEF LInv, MfaInv, FirstCodeWins
<1> QED BY <1>1, LInvariance, PTL

\* The last event sent or queued for a connected browser is its session as it is
\* now, unless the result could not be persisted (session_manager.py:145-156).
THEOREM StreamsFollowProved == Spec => []StreamsFollow
<1>1. LInv => StreamsFollow
  <2> SUFFICES ASSUME LInv, NEW r \in Clients, Connected(r), Present(streams[r].sid)
               PROVE  \/ /\ Latest(streams[r]).state = sessions[streams[r].sid].state
                         /\ Latest(streams[r]).docs = sessions[streams[r].sid].docs
                      \/ /\ sessions[streams[r].sid].state = "DONE"
                         /\ task[streams[r].sid].pc \in Unsaved
    BY DEF StreamsFollow, Latest, Unsaved
  <2> QED BY DEF LInv, StreamInv, Follows, Connected
<1> QED BY <1>1, LInvariance, PTL

\* docs_ready of a DONE session is on its way only while the documents it lists are
\* on disk, across restarts and prunings (session_manager.py:146-156).
THEOREM AnnouncedIsDurableProved == Spec => []AnnouncedIsDurable
<1>1. LInv => AnnouncedIsDurable
  <2> SUFFICES ASSUME LInv, NEW r \in Clients, NEW e \in Events(r), Announces(e)
               PROVE  /\ result[streams[r].sid].at # "none"
                      /\ result[streams[r].sid].docs = e.docs
    BY DEF AnnouncedIsDurable, Events, Items, Announces
  <2> QED BY DEF LInv, StreamInv, Sound, Events
<1> QED BY <1>1, LInvariance, PTL

\* However a login ends, its session is DONE or ERROR and stays so, and DONE is what
\* the disk holds of it (session_manager.py:137-156, 249-274).
THEOREM EndsAsStoredProved == Spec => []EndsAsStored
<1>1. LInv => EndsAsStored
  BY DEF LInv, Typed, EndInv, EndsAsStored, Present
<1> QED BY <1>1, LInvariance, PTL
=============================================================================
