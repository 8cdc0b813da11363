-------------------------- MODULE UsaaFetchProofs --------------------------
(***************************************************************************)
(* Proofs about UsaaFetch and the ClickRace below it, for every set of     *)
(* buttons, every listing, all that a click can cause and any number of    *)
(* centers, accounts, searches and URLs.                                   *)
(*                                                                         *)
(* FInv is inductive.  RaceShape, FetchShape and Kept hold whatever comes  *)
(* late or moves.  Prompt speaks of the targeted path as long as nothing   *)
(* has: then all that is about is of the button that was clicked, and what *)
(* a listing has given stands in the order of its ranking.                 *)
(***************************************************************************)
EXTENDS UsaaFetch, FiniteSetTheorems, TLAPS

RacerTyped(x) == x \in Racer /\ (x.pc \in {"due", "works"} => x.on \in Effect)

RaceShape ==
  /\ clicked \in Targets \cup {None} /\ racer \in [Racers -> Racer]
  /\ \A r \in Racers : RacerTyped(racer[r])
  /\ queue \in Seq(Effect)
  /\ inflight \subseteq Effect /\ IsFiniteSet(inflight)
  /\ viewer \in Effect \cup {None} /\ found \in Targets \cup {None}
  /\ late \in 0..MaxLate

InCall == pc \in {"buttons", "clicked", "merge"}

\* a center is left while one is searched; a targeted listing is ranked, and a
\* ranked one holds policy documents only
FetchShape ==
  /\ pc \in PCs /\ left \in Left /\ keys \subseteq Policies /\ call \in Call
  /\ docs \in Seq(Document) /\ shown \in Seq(Document)
  /\ pc # "clicked" => clicked = None
  /\ pc \in {"account", "accountTerm", "term"} => left.centers > 0
  /\ InCall /\ call.path \in Targeted => left.centers > 0
  /\ call.path \in Targeted => call.ranked
  /\ call.ranked => \A t \in call.todo : KindOf[t] # "none"
  /\ ~InCall => call = NoCall
  /\ pc = "merge" => Open = {}

\* list begins with part
Begins(part, list) ==
  Len(part) <= Len(list) /\ \A i \in 1..Len(part) : list[i] = part[i]

\* what was shown is there, in docs or in the running call, and the keys stand
\* for documents
Kept ==
  /\ ~InSurface => Begins(shown, docs)
  /\ InSurface => Bodies(shown) \subseteq Bodies(docs) \cup Bodies(call.got)
  /\ InSurface => keys = {}
  /\ ~InSurface /\ keys # {} => docs # <<>>
  /\ InCall /\ call.path \in Targeted /\ call.keys # {} => keys # {} \/ call.got # <<>>
  /\ pc \in {"url", "links"} => docs = <<>>

\* all that is about is of the button that was clicked
Mine ==
  /\ clicked # None =>
       /\ \A e \in inflight : e.of = clicked
       /\ \A i \in DOMAIN queue : queue[i].of = clicked
       /\ \A r \in Racers :
            racer[r].pc \in {"due", "works"} => racer[r].on.of = clicked
       /\ viewer # None => viewer.of = clicked
  /\ clicked = None => inflight = {}

\* and it is that button's turn
InTurn ==
  /\ clicked # None => Turn(clicked)
  /\ pc = "clicked" /\ clicked = None /\ found # None => Turn(found)

\* a listing is what is left of it, what gave nothing and what gave a document;
\* and that is of a new policy and came before the rest of it
Ranked ==
  /\ call.keys = keys \cup {PolicyOf[t] : t \in call.gave}
  /\ Bodies(call.got) = {BodyOf[t] : t \in call.gave}
  /\ call.listed = call.todo \cup call.vain \cup call.gave
  /\ call.vain \cap (call.todo \cup call.gave) = {}
  /\ \A t \in call.gave : PolicyOf[t] \notin keys
  /\ \A t, u \in call.gave : PolicyOf[t] = PolicyOf[u] => t = u
  /\ \A t \in call.gave, u \in call.todo : PolicyOf[t] = PolicyOf[u] => Before(t, u)

\* the body of a button of policy k is in all
Stands(k, all) ==
  \E t \in Targets, d \in all : PolicyOf[t] = k /\ BodyOf[t] = Body(d)

\* what is collected and what is known of it agree: for each key the body of one
\* of its buttons, for each document a key, and for no key two documents
Agree(ks, all) ==
  /\ \A k \in ks : Stands(k, all)
  /\ \A d \in all : d.of = d.name /\ PolicyOf[d.name] \in ks
  /\ \A d, e \in all : PolicyOf[d.name] = PolicyOf[e.name] => d = e

Filed == Agree(keys \cup call.keys, Items(docs) \cup Items(call.got))

Ledger == Filed /\ (InCall => Ranked)

Prompt == late = 0 /\ ~InSurface => Mine /\ InTurn /\ Ledger

FInv == RaceShape /\ FetchShape /\ Kept /\ Prompt
-----------------------------------------------------------------------------
(* _merge_documents                                                        *)

(* A set of natural numbers has a least one: what stands for induction     *)
(* over the loop of _merge_documents.                                      *)
LEMMA LeastNumber ==
  ASSUME NEW T, T \subseteq Nat, T # {}
  PROVE  \E n \in T : \A m \in T : n <= m
<1>1. PICK R : R = OpToRel(<, Nat)
  OBVIOUS
<1>2. IsWellFoundedOn(R, Nat)
  BY <1>1, NatLessThanWellFounded, Zenon
<1>3. PICK x \in T : \A y \in T : ~(<<y, x>> \in R)
  BY <1>2, WFMin, Zenon
<1>4. \A y \in T : ~(y < x)
  BY <1>1, <1>3 DEF OpToRel
<1> QED BY <1>4

\* what the loop does with one document
Added(s, d) == IF \E e \in Items(s) : Body(e) = Body(d) THEN s ELSE Append(s, d)

\* f is the list after each of the first n documents of source
Loop(f, target, source, n) ==
  f = [i \in 0..n |-> IF i = 0 THEN target
         ELSE IF \E d \in Items(f[i - 1]) : Body(d) = Body(source[i])
              THEN f[i - 1] ELSE Append(f[i - 1], source[i])]

LEMMA LoopExists ==
  ASSUME NEW target, NEW source, NEW n \in Nat
  PROVE  \E f : Loop(f, target, source, n)
<1> DEFINE T == {m \in Nat : ~\E f : Loop(f, target, source, m)}
<1> SUFFICES ASSUME T # {} PROVE FALSE
  OBVIOUS
<1>1. PICK m \in T : \A k \in T : m <= k
  BY LeastNumber
<1>2. CASE m = 0
  <2>1. PICK f : f = [i \in 0..0 |-> target]
    OBVIOUS
  <2>2. Loop(f, target, source, 0)
    BY <2>1 DEF Loop
  <2> QED BY <1>2, <2>2
<1>3. CASE m # 0
  <2>1. m \in Nat /\ m - 1 \in Nat /\ ~(m <= m - 1)
    BY <1>3
  <2>2. m - 1 \notin T
    BY <1>1, <2>1
  <2>3. PICK f : Loop(f, target, source, m - 1)
    BY <2>1, <2>2
  <2>4. PICK g : g = [i \in 0..m |-> IF i = m THEN Added(f[m - 1], source[m]) ELSE f[i]]
    OBVIOUS
  <2>5. DOMAIN g = 0..m /\ \A i \in 0..(m - 1) : g[i] = f[i]
    BY <2>1, <2>4
  <2>6. g[0] = target
    BY <2>1, <2>3, <2>5 DEF Loop
  <2>7. g[m] = Added(g[m - 1], source[m])
    BY <2>1, <2>4, <2>5
  <2>8. \A i \in 1..(m - 1) : g[i] = Added(g[i - 1], source[i])
    <3> SUFFICES ASSUME NEW i \in 1..(m - 1) PROVE g[i] = Added(g[i - 1], source[i])
      OBVIOUS
    <3>1. i \in 0..(m - 1) /\ i - 1 \in 0..(m - 1) /\ i # 0
      BY <2>1
    <3>2. f[i] = Added(f[i - 1], source[i])
      BY <2>3, <3>1 DEF Loop, Added
    <3> QED BY <2>5, <3>1, <3>2
  <2>9. \A i \in 0..m : i # 0 => g[i] = Added(g[i - 1], source[i])
    <3> SUFFICES ASSUME NEW i \in 0..m, i # 0
                 PROVE  g[i] = Added(g[i - 1], source[i])
      OBVIOUS
    <3>1. i = m \/ i \in 1..(m - 1)
      BY <2>1
    <3> QED BY <2>7, <2>8, <3>1
  <2>10. g = [i \in 0..m |-> g[i]]
    BY <2>4
  <2>11. [i \in 0..m |-> g[i]]
          = [i \in 0..m |-> IF i = 0 THEN target ELSE Added(g[i - 1], source[i])]
    BY <2>6, <2>9
  <2>12. Loop(g, target, source, m)
    BY <2>10, <2>11 DEF Loop, Added
  <2> QED BY <2>12
<1> QED BY <1>2, <1>3

\* f holds the list after each document, and the last of them is the result
Merges(f, target, source) ==
  /\ Merged(target, source) = f[Len(source)]
  /\ f[0] = target
  /\ \A i \in 1..Len(source) : f[i] = Added(f[i - 1], source[i])

(* The defining equation of the loop in _merge_documents (usaa.py).        *)
LEMMA MergedLoop ==
  ASSUME NEW target, NEW source, Len(source) \in Nat
  PROVE  \E f : Merges(f, target, source)
<1> DEFINE Add[i \in 0..Len(source)] ==
             IF i = 0 THEN target
             ELSE IF \E d \in Items(Add[i - 1]) : Body(d) = Body(source[i])
                  THEN Add[i - 1] ELSE Append(Add[i - 1], source[i])
<1>1. \E f : Loop(f, target, source, Len(source))
  BY LoopExists
<1>2. Add = CHOOSE f : Loop(f, target, source, Len(source))
  BY DEF Loop
<1>3. Loop(Add, target, source, Len(source))
  BY <1>1, <1>2
<1>4. Merged(target, source) = Add[Len(source)]
  BY DEF Merged
<1>5. PICK f : f = Add
  OBVIOUS
<1>6. Loop(f, target, source, Len(source))
  BY <1>3, <1>5
<1>7. f[0] = target
  BY <1>6 DEF Loop
<1>8. \A i \in 1..Len(source) : f[i] = Added(f[i - 1], source[i])
  <2> SUFFICES ASSUME NEW i \in 1..Len(source)
               PROVE  f[i] = Added(f[i - 1], source[i])
    OBVIOUS
  <2>1. i \in 0..Len(source) /\ i # 0
    OBVIOUS
  <2> QED BY <1>6, <2>1 DEF Loop, Added
<1> QED BY <1>4, <1>5, <1>7, <1>8 DEF Merges

\* s begins with target, and has of source what i of its documents ask for
Gathered(s, target, source, i) ==
  /\ s \in Seq(Document)
  /\ Len(target) <= Len(s) /\ \A j \in 1..Len(target) : s[j] = target[j]
  /\ Items(target) \subseteq Items(s)
  /\ Items(s) \subseteq Items(target) \cup Items(source)
  /\ \A j \in 1..i : Body(source[j]) \in Bodies(s)

LEMMA AppendItems ==
  ASSUME NEW s \in Seq(Document), NEW d \in Document
  PROVE  Items(Append(s, d)) = Items(s) \cup {d}
<1>1. PICK a : a = Append(s, d)
  OBVIOUS
<1>2. /\ a \in Seq(Document) /\ Len(a) = Len(s) + 1 /\ Len(s) \in Nat
      /\ \A i \in 1..Len(s) : a[i] = s[i]
      /\ a[Len(s) + 1] = d
  BY <1>1
<1>3. DOMAIN a = 1..(Len(s) + 1) /\ DOMAIN s = 1..Len(s)
  BY <1>2
<1>4. \A i \in DOMAIN a : i = Len(s) + 1 \/ i \in DOMAIN s
  BY <1>2, <1>3
<1>5. DOMAIN s \subseteq DOMAIN a /\ Len(s) + 1 \in DOMAIN a
  BY <1>2, <1>3
<1>6. Items(a) \subseteq Items(s) \cup {d}
  BY <1>2, <1>3, <1>4 DEF Items
<1>7. Items(s) \cup {d} \subseteq Items(a)
  BY <1>2, <1>3, <1>5 DEF Items
<1> QED BY <1>1, <1>6, <1>7

LEMMA AddedGathers ==
  ASSUME NEW target \in Seq(Document), NEW source \in Seq(Document),
         NEW i \in 1..Len(source), NEW s, Gathered(s, target, source, i - 1)
  PROVE  Gathered(Added(s, source[i]), target, source, i)
<1>1. PICK d : d = source[i]
  OBVIOUS
<1>2. /\ d \in Document /\ d \in Items(source)
      /\ s \in Seq(Document) /\ Len(s) \in Nat /\ Len(target) \in Nat
  BY <1>1 DEF Gathered, Items
<1>3. \A j \in 1..i : j = i \/ j \in 1..(i - 1)
  OBVIOUS
<1>4. CASE \E e \in Items(s) : Body(e) = Body(d)
  <2>1. Body(d) \in Bodies(s)
    BY <1>4 DEF Bodies
  <2>2. \A j \in 1..i : Body(source[j]) \in Bodies(s)
    BY <1>1, <1>3, <2>1 DEF Gathered
  <2>3. Gathered(s, target, source, i)
    BY <2>2 DEF Gathered
  <2> QED BY <1>1, <1>4, <2>3 DEF Added
<1>5. CASE ~\E e \in Items(s) : Body(e) = Body(d)
  <2>1. PICK a : a = Append(s, d)
    OBVIOUS
  <2>2. /\ a \in Seq(Document) /\ Len(a) = Len(s) + 1
        /\ \A j \in 1..Len(s) : a[j] = s[j]
    BY <1>2, <2>1
  <2>3. Items(a) = Items(s) \cup {d}
    BY <1>2, <2>1, AppendItems
  <2>4. Bodies(a) = Bodies(s) \cup {Body(d)}
    BY <2>3 DEF Bodies
  <2>5. \A j \in 1..i : Body(source[j]) \in Bodies(a)
    BY <1>1, <1>3, <2>4 DEF Gathered
  <2>6. Len(target) <= Len(a)
    BY <1>2, <2>2 DEF Gathered
  <2>7. \A j \in 1..Len(target) : a[j] = target[j]
    <3> TAKE j \in 1..Len(target)
    <3>1. j \in 1..Len(s)
      BY <1>2 DEF Gathered
    <3> QED BY <2>2, <3>1 DEF Gathered
  <2>8. Items(target) \subseteq Items(a)
        /\ Items(a) \subseteq Items(target) \cup Items(source)
    BY <1>2, <2>3 DEF Gathered
  <2>9. Gathered(a, target, source, i)
    BY <2>2, <2>5, <2>6, <2>7, <2>8 DEF Gathered
  <2> QED BY <1>1, <1>5, <2>1, <2>9 DEF Added
<1> QED BY <1>4, <1>5

(* What _merge_documents makes of two lists: it begins with the first, has *)
(* nothing but their documents, and the content of each of them.           *)
LEMMA MergedGathers ==
  ASSUME NEW target \in Seq(Document), NEW source \in Seq(Document)
  PROVE  Gathered(Merged(target, source), target, source, Len(source))
<1>1. Len(source) \in Nat /\ Len(target) \in Nat
  OBVIOUS
<1>2. PICK f : Merges(f, target, source)
  BY <1>1, MergedLoop
<1> DEFINE T == {i \in 0..Len(source) : ~Gathered(f[i], target, source, i)}
<1>3. T = {}
  <2> SUFFICES ASSUME T # {} PROVE FALSE
    OBVIOUS
  <2>1. T \subseteq Nat
    BY <1>1
  <2>2. PICK i \in T : \A k \in T : i <= k
    BY <2>1, LeastNumber
  <2>3. CASE i = 0
    <3>1. Gathered(target, target, source, 0)
      BY <1>1 DEF Gathered
    <3> QED BY <1>2, <2>2, <2>3, <3>1 DEF Merges
  <2>4. CASE i # 0
    <3>1. i \in 1..Len(source) /\ i - 1 \in 0..Len(source) /\ ~(i <= i - 1)
      BY <1>1, <2>4
    <3>2. i - 1 \notin T
      BY <2>2, <3>1
    <3>3. Gathered(f[i - 1], target, source, i - 1)
      BY <3>1, <3>2
    <3>4. Gathered(Added(f[i - 1], source[i]), target, source, i)
      BY <3>1, <3>3, AddedGathers
    <3>5. Gathered(f[i], target, source, i)
      BY <1>2, <3>1, <3>4 DEF Merges
    <3> QED BY <2>2, <3>5
  <2> QED BY <2>3, <2>4
<1>4. Len(source) \in 0..Len(source)
  BY <1>1
<1>5. Gathered(f[Len(source)], target, source, Len(source))
  BY <1>3, <1>4
<1> QED BY <1>2, <1>5 DEF Merges

LEMMA MergedBodies ==
  ASSUME NEW target \in Seq(Document), NEW source \in Seq(Document)
  PROVE  /\ Bodies(target) \cup Bodies(source) \subseteq Bodies(Merged(target, source))
         /\ target # <<>> \/ source # <<>> => Merged(target, source) # <<>>
<1>1. PICK m : m = Merged(target, source)
  OBVIOUS
<1>2. Gathered(m, target, source, Len(source))
  BY <1>1, MergedGathers
<1>3. Bodies(target) \subseteq Bodies(m)
  BY <1>2 DEF Gathered, Bodies
<1>4. Bodies(source) \subseteq Bodies(m)
  BY <1>2 DEF Gathered, Bodies, Items
<1>5. ASSUME NEW s \in Seq(Document), s # <<>>, Bodies(s) \subseteq Bodies(m)
      PROVE  m # <<>>
  <2>1. 1 \in DOMAIN s
    BY <1>5
  <2>2. Body(s[1]) \in Bodies(m)
    BY <1>5, <2>1 DEF Bodies, Items
  <2>3. DOMAIN <<>> = {}
    OBVIOUS
  <2>4. \E i \in DOMAIN m : TRUE
    BY <2>2 DEF Bodies, Items
  <2> QED BY <2>3, <2>4
<1> QED BY <1>1, <1>3, <1>4, <1>5

-----------------------------------------------------------------------------
(* The ranking                                                             *)

LEMMA BeforeAsymmetric ==
  ASSUME NEW t \in Targets, NEW u \in Targets, Before(t, u)
  PROVE  ~Before(u, t)
<1>1. /\ DateOf[t] \in Nat /\ DateOf[u] \in Nat
      /\ IndexOf[t] \in Nat /\ IndexOf[u] \in Nat
  BY FetchConstants
<1>2. \A k : Priority(k) \in Nat
  BY DEF Priority
<1>3. /\ Priority(KindOf[t]) \in Nat /\ Priority(KindOf[u]) \in Nat
      /\ KindOf[t] = KindOf[u] => Priority(KindOf[t]) = Priority(KindOf[u])
  BY <1>2
<1> QED BY <1>1, <1>3 DEF Before

(* No two buttons of a ranked listing are next.                            *)
LEMMA OneTurn ==
  ASSUME FetchShape, call.ranked, NEW t, NEW u, Turn(t), Turn(u)
  PROVE  t = u
<1>1. t \in Targets /\ u \in Targets
  BY DEF Turn, Open, FetchShape, Call
<1> QED BY <1>1, BeforeAsymmetric DEF Turn

-----------------------------------------------------------------------------
(* _click_for_first_document                                               *)

LEMMA RacerShapes ==
  /\ RacerTyped(Waiting) /\ Waiting.pc = "waits"
  /\ RacerTyped(Failed) /\ Failed.pc = "failed"
  /\ \A e \in Effect : /\ RacerTyped(Working(e))
                       /\ Working(e).pc = "works" /\ Working(e).on = e
  /\ \A e \in Effect : RacerTyped([pc |-> "due", on |-> e])
BY DEF RacerTyped, Racer, Waiting, Failed, Working

(* A racer goes on to x: the racers keep their shape, and are of the       *)
(* clicked button if x is.                                                 *)
LEMMA RacerGoesOn ==
  ASSUME RaceShape, NEW r \in Racers, NEW x, RacerTyped(x),
         racer' = [racer EXCEPT ![r] = x]
  PROVE  /\ racer' \in [Racers -> Racer]
         /\ \A q \in Racers : RacerTyped(racer'[q])
         /\ racer'[r] = x /\ \A q \in Racers \ {r} : racer'[q] = racer[q]
<1>1. x \in Racer
  BY DEF RacerTyped
<1>2. racer'[r] = x /\ \A q \in Racers \ {r} : racer'[q] = racer[q]
  BY DEF RaceShape
<1> QED BY <1>1, <1>2 DEF RaceShape

\* a step inside of a call, or between two
Quiet ==
  /\ RaceShape'
  /\ clicked' = clicked /\ found' = found /\ late' = late
  /\ Mine => Mine'

LEMMA CaughtKeeps ==
  ASSUME RaceShape, NEW r \in {"download", "popup"}, NEW e \in Effect, Caught(r, e)
  PROVE  /\ racer' \in [Racers -> Racer]
         /\ \A q \in Racers : RacerTyped(racer'[q])
         /\ \A q \in Racers : racer'[q] = racer[q]
                              \/ /\ clicked # None /\ racer[q].pc = "waits"
                                 /\ racer'[q].pc = "due" /\ racer'[q].on = e
<1>1. CASE Heard(r)
  <2>1. PICK x : x = [pc |-> "due", on |-> e]
    OBVIOUS
  <2>2. RacerTyped(x) /\ x.pc = "due" /\ x.on = e
    BY <2>1, RacerShapes
  <2>3. racer' = [racer EXCEPT ![r] = x] /\ r \in Racers
    BY <1>1, <2>1 DEF Caught, Racers
  <2>4. /\ racer' \in [Racers -> Racer]
        /\ \A q \in Racers : RacerTyped(racer'[q])
        /\ racer'[r] = x /\ \A q \in Racers \ {r} : racer'[q] = racer[q]
    BY <2>2, <2>3, RacerGoesOn
  <2> QED BY <1>1, <2>2, <2>4 DEF Heard
<1>2. CASE ~Heard(r)
  BY <1>2 DEF Caught, RaceShape
<1> QED BY <1>1, <1>2

LEMMA ArriveKeeps ==
  ASSUME RaceShape, NEW e \in inflight, Arrive(e)
  PROVE  Quiet
<1>1. e \in Effect /\ IsFiniteSet(inflight \ {e}) /\ inflight' = inflight \ {e}
  BY FS_RemoveElement DEF RaceShape, Arrive
<1>2. clicked' = clicked /\ found' = found /\ late' = late
  BY DEF Arrive
<1>3. CASE Response(e)
  <2>1. /\ racer' = racer /\ viewer' = viewer
        /\ queue' = queue \/ (clicked # None /\ queue' = Append(queue, e))
    BY <1>3 DEF Response
  <2>2. queue' \in Seq(Effect)
    BY <1>1, <2>1 DEF RaceShape
  <2>3. \A i \in DOMAIN queue' : queue'[i] = e \/ (i \in DOMAIN queue /\ queue'[i] = queue[i])
    <3>1. CASE queue' = Append(queue, e)
      <4>1. /\ queue \in Seq(Effect) /\ Len(queue') = Len(queue) + 1
            /\ \A i \in 1..Len(queue) : queue'[i] = queue[i]
            /\ queue'[Len(queue) + 1] = e
        BY <1>1, <3>1 DEF RaceShape
      <4>2. \A i \in DOMAIN queue' : i = Len(queue) + 1 \/ i \in 1..Len(queue)
        BY <2>2, <4>1
      <4> QED BY <4>1, <4>2
    <3> QED BY <2>1, <3>1
  <2>4. RaceShape'
    BY <1>1, <1>2, <2>1, <2>2 DEF RaceShape
  <2>5. Mine => Mine'
    BY <1>1, <1>2, <2>1, <2>3 DEF Mine
  <2> QED BY <1>2, <2>4, <2>5 DEF Quiet
<1>4. CASE Download(e) \/ Popup(e)
  <2>1. PICK r \in {"download", "popup"} : Caught(r, e)
    BY <1>4 DEF Download, Popup
  <2>2. queue' = queue /\ viewer' = viewer
    BY <1>4 DEF Download, Popup
  <2>3. /\ racer' \in [Racers -> Racer]
        /\ \A q \in Racers : RacerTyped(racer'[q])
        /\ \A q \in Racers : racer'[q] = racer[q]
                             \/ /\ clicked # None /\ racer[q].pc = "waits"
                                /\ racer'[q].pc = "due" /\ racer'[q].on = e
    BY <1>1, <2>1, CaughtKeeps
  <2>4. RaceShape'
    BY <1>1, <1>2, <2>2, <2>3 DEF RaceShape
  <2>5. Mine => Mine'
    BY <1>1, <1>2, <2>2, <2>3 DEF Mine
  <2> QED BY <1>2, <2>4, <2>5 DEF Quiet
<1>5. CASE Viewer(e)
  <2>1. viewer' = e /\ racer' = racer /\ queue' = queue
    BY <1>5 DEF Viewer
  <2>2. RaceShape'
    BY <1>1, <1>2, <2>1 DEF RaceShape
  <2>3. Mine => Mine'
    BY <1>1, <1>2, <2>1 DEF Mine
  <2> QED BY <1>2, <2>2, <2>3 DEF Quiet
<1> QED BY <1>3, <1>4, <1>5 DEF Arrive

LEMMA TakeKeeps ==
  ASSUME RaceShape, Take
  PROVE  Quiet
<1>1. /\ clicked # None /\ clicked' = clicked /\ found' = found /\ late' = late
      /\ inflight' = inflight /\ viewer' = viewer
  BY DEF Take
<1>2. CASE /\ racer["response"].pc = "waits" /\ queue # <<>>
           /\ racer' = [racer EXCEPT !["response"] = Working(Head(queue))]
           /\ queue' = Tail(queue)
  <2>1. PICK e : e = Head(queue)
    OBVIOUS
  <2>2. /\ e \in Effect /\ queue' \in Seq(Effect) /\ e = queue[1] /\ 1 \in DOMAIN queue
        /\ \A i \in DOMAIN queue' : i + 1 \in DOMAIN queue /\ queue'[i] = queue[i + 1]
    BY <1>2, <2>1 DEF RaceShape
  <2>3. PICK x : x = Working(e)
    OBVIOUS
  <2>4. RacerTyped(x) /\ x.pc = "works" /\ x.on = e
    BY <2>2, <2>3, RacerShapes
  <2>5. racer' = [racer EXCEPT !["response"] = x] /\ "response" \in Racers
    BY <1>2, <2>1, <2>3 DEF Racers
  <2>6. /\ racer' \in [Racers -> Racer]
        /\ \A q \in Racers : RacerTyped(racer'[q])
        /\ racer'["response"] = x
        /\ \A q \in Racers \ {"response"} : racer'[q] = racer[q]
    BY <2>4, <2>5, RacerGoesOn
  <2>7. RaceShape'
    BY <1>1, <2>2, <2>6 DEF RaceShape
  <2>8. Mine => Mine'
    BY <1>1, <2>2, <2>4, <2>6 DEF Mine
  <2> QED BY <1>1, <2>7, <2>8 DEF Quiet
<1>3. CASE /\ racer["page"].pc = "waits" /\ UNCHANGED queue
           /\ racer' = [racer EXCEPT !["page"] =
                          IF viewer = None THEN Failed ELSE Working(viewer)]
  <2>1. PICK x : x = IF viewer = None THEN Failed ELSE Working(viewer)
    OBVIOUS
  <2>2. viewer = None \/ viewer \in Effect
    BY DEF RaceShape
  <2>3. RacerTyped(x) /\ (x.pc \in {"due", "works"} => viewer # None /\ x.on = viewer)
    BY <2>1, <2>2, RacerShapes
  <2>4. racer' = [racer EXCEPT !["page"] = x] /\ "page" \in Racers /\ queue' = queue
    BY <1>3, <2>1 DEF Racers
  <2>5. /\ racer' \in [Racers -> Racer]
        /\ \A q \in Racers : RacerTyped(racer'[q])
        /\ racer'["page"] = x
        /\ \A q \in Racers \ {"page"} : racer'[q] = racer[q]
    BY <2>3, <2>4, RacerGoesOn
  <2>6. RaceShape'
    BY <1>1, <2>4, <2>5 DEF RaceShape
  <2>7. Mine => Mine'
    BY <1>1, <2>3, <2>4, <2>5 DEF Mine
  <2> QED BY <1>1, <2>6, <2>7 DEF Quiet
<1> QED BY <1>2, <1>3 DEF Take

LEMMA ResumeKeeps ==
  ASSUME RaceShape, NEW r \in Racers, Resume(r)
  PROVE  Quiet
<1>1. /\ clicked # None /\ clicked' = clicked /\ found' = found /\ late' = late
      /\ inflight' = inflight /\ viewer' = viewer /\ queue' = queue
      /\ racer[r].pc = "due"
  BY DEF Resume
<1>2. PICK e : e = racer[r].on
  OBVIOUS
<1>3. e \in Effect
  BY <1>1, <1>2 DEF RaceShape, RacerTyped
<1>4. PICK x : x = Working(e)
  OBVIOUS
<1>5. RacerTyped(x) /\ x.pc = "works" /\ x.on = e
  BY <1>3, <1>4, RacerShapes
<1>6. racer' = [racer EXCEPT ![r] = x]
  BY <1>2, <1>4 DEF Resume, RaceShape
<1>7. /\ racer' \in [Racers -> Racer]
      /\ \A q \in Racers : RacerTyped(racer'[q])
      /\ racer'[r] = x /\ \A q \in Racers \ {r} : racer'[q] = racer[q]
  BY <1>5, <1>6, RacerGoesOn
<1>8. RaceShape'
  BY <1>1, <1>3, <1>7 DEF RaceShape
<1>9. Mine => Mine'
  BY <1>1, <1>2, <1>5, <1>7 DEF Mine
<1> QED BY <1>1, <1>8, <1>9 DEF Quiet

LEMMA FailsKeeps ==
  ASSUME RaceShape, NEW r \in Racers, Fails(r)
  PROVE  Quiet
<1>1. /\ clicked # None /\ clicked' = clicked /\ found' = found /\ late' = late
      /\ inflight' = inflight /\ viewer' = viewer /\ queue' = queue
  BY DEF Fails
<1>2. PICK x \in {Failed, Waiting} : racer' = [racer EXCEPT ![r] = x]
  BY DEF Fails
<1>3. RacerTyped(x) /\ x.pc \notin {"due", "works"}
  BY RacerShapes
<1>4. /\ racer' \in [Racers -> Racer]
      /\ \A q \in Racers : RacerTyped(racer'[q])
      /\ racer'[r] = x /\ \A q \in Racers \ {r} : racer'[q] = racer[q]
  BY <1>2, <1>3, RacerGoesOn
<1>5. RaceShape'
  BY <1>1, <1>4 DEF RaceShape
<1>6. Mine => Mine'
  BY <1>1, <1>3, <1>4 DEF Mine
<1> QED BY <1>1, <1>5, <1>6 DEF Quiet

LEMMA DeadlineKeeps ==
  ASSUME RaceShape, Deadline
  PROVE  Quiet
<1>1. /\ clicked # None /\ clicked' = clicked /\ found' = found /\ late' = late
      /\ inflight' = inflight /\ viewer' = viewer /\ queue' = queue
  BY DEF Deadline
<1>2. PICK waiters \in Deadlines :
        racer' = [r \in Racers |-> IF r \in waiters /\ racer[r].pc = "waits"
                                   THEN Failed ELSE racer[r]]
  BY DEF Deadline
<1>3. \A q \in Racers : racer'[q] = Failed \/ racer'[q] = racer[q]
  BY <1>2
<1>4. \A q \in Racers : RacerTyped(racer'[q])
  BY <1>3, RacerShapes DEF RaceShape
<1>5. racer' = [q \in Racers |-> racer'[q]]
  BY <1>2
<1>6. racer' \in [Racers -> Racer]
  BY <1>4, <1>5 DEF RacerTyped
<1>7. RaceShape'
  BY <1>1, <1>4, <1>6 DEF RaceShape
<1>8. Mine => Mine'
  BY <1>1, <1>3, RacerShapes DEF Mine
<1> QED BY <1>1, <1>7, <1>8 DEF Quiet

\* a call ends
CallOver ==
  /\ RaceShape' /\ clicked # None /\ clicked' = None
  /\ late' = 0 => late = 0
  /\ late' = 0 /\ Mine => Mine' /\ found' \in {None, clicked}

LEMMA OverKeeps ==
  ASSUME RaceShape, clicked # None,
         NEW result \in Targets \cup {None}, NEW stuck \in 0..1,
         Over(result, stuck), viewer' \in {viewer, None},
         Mine => result \in {None, clicked}
  PROVE  CallOver
<1>1. /\ clicked' = None /\ found' = result /\ queue' = <<>>
      /\ racer' = [r \in Racers |-> Failed] /\ inflight' \subseteq inflight
      /\ late' <= MaxLate
      /\ late' = late + stuck + Cardinality({e \in inflight' : e.of = clicked})
  BY DEF Over
<1> DEFINE behind == {e \in inflight' : e.of = clicked}
<1>2. IsFiniteSet(inflight') /\ IsFiniteSet(behind)
  BY <1>1, FS_Subset DEF RaceShape
<1>3. Cardinality(behind) \in Nat /\ (Cardinality(behind) = 0 => behind = {})
  BY <1>2, FS_CardinalityType, FS_EmptySet
<1> HIDE DEF behind
<1>4. late' \in Nat /\ late <= late' /\ (late' = 0 => Cardinality(behind) = 0)
  <2>1. late \in Nat /\ stuck \in Nat /\ late' = late + stuck + Cardinality(behind)
    BY <1>1 DEF RaceShape, behind
  <2> QED BY <1>3, <2>1
<1>5. /\ \A r \in Racers : racer'[r] = Failed
      /\ \A r \in Racers : RacerTyped(racer'[r])
      /\ racer' \in [Racers -> Racer]
  BY <1>1, RacerShapes DEF RacerTyped
<1>6. late' \in 0..MaxLate
  BY <1>1, <1>4, RaceConstants
<1>7. queue' \in Seq(Effect)
  BY <1>1
<1>8. RaceShape'
  BY <1>1, <1>2, <1>5, <1>6, <1>7 DEF RaceShape
<1>9. late' = 0 => late = 0
  BY <1>4 DEF RaceShape
<1>10. late' = 0 /\ Mine => Mine'
  <2> SUFFICES ASSUME late' = 0, Mine PROVE Mine'
    OBVIOUS
  <2>1. \A e \in inflight' : e \in behind
    BY <1>1 DEF behind, Mine
  <2>2. inflight' = {}
    BY <1>3, <1>4, <2>1
  <2> QED BY <1>1, <2>2 DEF Mine
<1> QED BY <1>1, <1>8, <1>9, <1>10 DEF CallOver

LEMMA WinsKeeps ==
  ASSUME RaceShape, NEW r \in Racers, Wins(r)
  PROVE  CallOver
<1>1. clicked # None /\ racer[r].pc = "works"
  BY DEF Wins
<1>2. PICK stuck \in 0..1 : Over(racer[r].on.of, stuck) /\ Closed(stuck)
  BY DEF Wins
<1>3. racer[r].on.of \in Targets
  BY <1>1 DEF RaceShape, RacerTyped, Effect
<1>4. viewer' \in {viewer, None}
  BY <1>2 DEF Closed
<1>5. Mine => racer[r].on.of \in {None, clicked}
  BY <1>1 DEF Mine
<1> QED BY <1>1, <1>2, <1>3, <1>4, <1>5, OverKeeps

LEMMA NoneWinsKeeps ==
  ASSUME RaceShape, NoneWins
  PROVE  CallOver
<1>1. clicked # None /\ Over(None, 0) /\ viewer' = viewer
  BY DEF NoneWins
<1>2. 0 \in 0..1
  OBVIOUS
<1> QED BY <1>1, <1>2, OverKeeps

LEMMA FourAreFinite ==
  ASSUME NEW a, NEW b, NEW c, NEW d
  PROVE  IsFiniteSet({a, b, c, d})
<1>1. IsFiniteSet({a})
  BY FS_Singleton
<1>2. IsFiniteSet({a} \cup {b})
  BY <1>1, FS_AddElement
<1>3. IsFiniteSet(({a} \cup {b}) \cup {c})
  BY <1>2, FS_AddElement
<1>4. IsFiniteSet((({a} \cup {b}) \cup {c}) \cup {d})
  BY <1>3, FS_AddElement
<1>5. (({a} \cup {b}) \cup {c}) \cup {d} = {a, b, c, d}
  OBVIOUS
<1> QED BY <1>4, <1>5

\* what a click on t causes
EffectsOf(t, effects) ==
  {[kind |-> e.kind, good |-> e.good, of |-> t] : e \in effects}

LEMMA EffectsAreFinite ==
  ASSUME NEW t \in Targets, NEW effects \in Reactions
  PROVE  /\ EffectsOf(t, effects) \subseteq Effect
         /\ IsFiniteSet(EffectsOf(t, effects))
         /\ \A e \in EffectsOf(t, effects) : e.of = t
<1> DEFINE On(k, g) == [kind |-> k, good |-> g, of |-> t]
           Some(g) == {On("response", g), On("download", g),
                       On("popup", g), On("viewer", g)}
<1>1. effects \subseteq [kind : Kinds, good : BOOLEAN]
  BY RaceConstants
<1>2. IsFiniteSet(Some(TRUE)) /\ IsFiniteSet(Some(FALSE))
  BY FourAreFinite
<1>3. IsFiniteSet(Some(TRUE) \cup Some(FALSE))
  BY <1>2, FS_Union
<1>4. ASSUME NEW e \in effects
      PROVE  On(e.kind, e.good) \in Some(TRUE) \cup Some(FALSE)
  <2>1. e.kind \in Kinds /\ e.good \in BOOLEAN
    BY <1>1
  <2> QED BY <2>1 DEF Kinds
<1>5. EffectsOf(t, effects) \subseteq Some(TRUE) \cup Some(FALSE)
  BY <1>4 DEF EffectsOf
<1>6. IsFiniteSet(EffectsOf(t, effects))
  BY <1>3, <1>5, FS_Subset
<1>7. EffectsOf(t, effects) \subseteq Effect
  BY <1>1 DEF EffectsOf, Effect
<1>8. \A e \in EffectsOf(t, effects) : e.of = t
  BY DEF EffectsOf
<1> QED BY <1>6, <1>7, <1>8

LEMMA BeginKeeps ==
  ASSUME RaceShape, clicked = None, NEW t \in Targets, Begin(t),
         found' = found,
         viewer' \in {viewer, None}, late' \in 0..MaxLate
  PROVE  /\ RaceShape' /\ clicked' = t
         /\ Mine /\ viewer' = None => Mine'
<1>1. clicked' = t /\ queue' = <<>> /\ racer' = [r \in Racers |-> Waiting]
  BY DEF Begin
<1>2. PICK effects \in Reactions : inflight' = inflight \cup EffectsOf(t, effects)
  BY DEF Begin, EffectsOf
<1>3. /\ EffectsOf(t, effects) \subseteq Effect
      /\ IsFiniteSet(EffectsOf(t, effects))
      /\ \A e \in EffectsOf(t, effects) : e.of = t
  BY EffectsAreFinite
<1>4. IsFiniteSet(inflight')
  BY <1>2, <1>3, FS_Union DEF RaceShape
<1>5. /\ \A r \in Racers : racer'[r] = Waiting
      /\ \A r \in Racers : RacerTyped(racer'[r])
      /\ racer' \in [Racers -> Racer]
  BY <1>1, RacerShapes DEF RacerTyped
<1>6. queue' \in Seq(Effect) /\ DOMAIN queue' = {}
  BY <1>1
<1>7. RaceShape'
  BY <1>1, <1>2, <1>3, <1>4, <1>5, <1>6 DEF RaceShape
<1>8. Mine /\ viewer' = None => Mine'
  <2> SUFFICES ASSUME Mine, viewer' = None PROVE Mine'
    OBVIOUS
  <2>1. \A e \in inflight' : e.of = t
    BY <1>2, <1>3 DEF Mine
  <2>2. t # None
    BY RaceConstants
  <2> QED BY <1>1, <1>5, <1>6, <2>1, <2>2, RacerShapes DEF Mine
<1> QED BY <1>1, <1>7, <1>8

LEMMA AddressedKeeps ==
  ASSUME RaceShape, NEW t \in Targets, NEW u \in Targets, Addressed(t, u)
  PROVE  /\ viewer' \in {viewer, None} /\ late' \in 0..MaxLate
         /\ late' = 0 => late = 0 /\ u = t
         /\ late' = 0 /\ call.path # "named" => viewer' = None
<1>1. late \in 0..MaxLate /\ MaxLate \in Nat
  BY RaceConstants DEF RaceShape
<1>2. PICK stuck \in 0..1 :
        /\ IF call.path = "named" THEN stuck = 0 /\ UNCHANGED viewer ELSE Closed(stuck)
        /\ late' = late + stuck + (IF u = t THEN 0 ELSE 1)
        /\ late' <= MaxLate
  BY DEF Addressed
<1>3. PICK moved \in 0..1 : moved = IF u = t THEN 0 ELSE 1
  OBVIOUS
<1>4. late' = late + stuck + moved
  BY <1>2, <1>3
<1>5. /\ late' \in 0..MaxLate
      /\ late' = 0 => late = 0 /\ stuck = 0 /\ moved = 0
  BY <1>1, <1>2, <1>4
<1>6. moved = 0 => u = t
  BY <1>3
<1>7. viewer' \in {viewer, None} /\ (stuck = 0 /\ call.path # "named" => viewer' = None)
  BY <1>2 DEF Closed
<1> QED BY <1>5, <1>6, <1>7

(* A racing step keeps the invariant: fetch_documents waits for its click. *)
LEMMA RaceStep ==
  ASSUME FInv, Race, UNCHANGED fetchVars
  PROVE  FInv'
<1>1. RaceShape /\ FetchShape /\ Kept /\ Prompt
  BY DEF FInv
<1>2. Quiet \/ CallOver
  <2>1. ASSUME NEW e \in inflight, Arrive(e) PROVE Quiet
    BY <1>1, <2>1, ArriveKeeps
  <2>2. ASSUME NEW r \in Racers, Resume(r) \/ Fails(r) \/ Wins(r)
        PROVE  Quiet \/ CallOver
    BY <1>1, <2>2, ResumeKeeps, FailsKeeps, WinsKeeps
  <2> QED BY <1>1, <2>1, <2>2, TakeKeeps, DeadlineKeeps, NoneWinsKeeps DEF Race
<1>3. /\ pc' = pc /\ left' = left /\ keys' = keys /\ call' = call
      /\ docs' = docs /\ shown' = shown
  BY DEF fetchVars
<1>4. RaceShape' /\ (late' = 0 => late = 0)
      /\ (clicked' = clicked \/ clicked' = None)
  BY <1>2 DEF Quiet, CallOver
<1>5. Open' = Open /\ InSurface' = InSurface /\ InCall' = InCall
      /\ \A t : Turn(t)' = Turn(t)
  BY <1>3 DEF Open, InSurface, InCall, Turn
<1>6. FetchShape'
  BY <1>1, <1>3, <1>4, <1>5 DEF FetchShape
<1>7. Kept'
  BY <1>1, <1>3, <1>5 DEF Kept, Begins
<1>8. Prompt'
  <2> SUFFICES ASSUME late' = 0, ~InSurface' PROVE Mine' /\ InTurn' /\ Ledger'
    BY DEF Prompt
  <2>1. Mine /\ InTurn /\ Ledger
    BY <1>1, <1>4, <1>5 DEF Prompt
  <2>2. Mine'
    BY <1>2, <2>1 DEF Quiet, CallOver
  <2>3. InTurn'
    <3>1. CASE Quiet
      BY <1>3, <1>5, <2>1, <3>1 DEF Quiet, InTurn
    <3>2. CASE CallOver
      <4>1. clicked # None /\ Turn(clicked) /\ clicked' = None
            /\ found' \in {None, clicked}
        BY <2>1, <3>2 DEF CallOver, InTurn
      <4> QED BY <1>5, <4>1 DEF InTurn
    <3> QED BY <1>2, <3>1, <3>2
  <2>4. Ranked' = Ranked /\ Filed' = Filed
    BY <1>3 DEF Ranked, Filed
  <2>5. Ledger'
    BY <1>3, <1>5, <2>1, <2>4 DEF Ledger
  <2> QED BY <2>2, <2>3, <2>5
<1> QED BY <1>4, <1>6, <1>7, <1>8 DEF FInv

-----------------------------------------------------------------------------
(* _fetch_document_buttons                                                 *)

LEMMA Paths ==
  /\ Targeted \cap Surface = {} /\ "named" \in Surface
  /\ NoCall \in Call /\ NoCall.path \in Targeted /\ NoCall.ranked
  /\ NoCall.todo = {} /\ NoCall.keys = {} /\ NoCall.got = <<>>
  /\ Items(<<>>) = {} /\ Bodies(<<>>) = {}
<1>1. Targeted \cap Surface = {} /\ "named" \in Surface
  BY DEF Targeted, Surface
<1>2. <<>> \in Seq(Document) /\ Items(<<>>) = {} /\ Bodies(<<>>) = {}
  BY DEF Items, Bodies
<1>3. /\ NoCall \in Call /\ NoCall.path \in Targeted /\ NoCall.ranked
      /\ NoCall.todo = {} /\ NoCall.keys = {} /\ NoCall.got = <<>>
  BY <1>2 DEF NoCall, Call, Targeted, Policies
<1> QED BY <1>1, <1>2, <1>3

(* A document is added to the list of the call, or its content is there.   *)
LEMMA KeptDocument ==
  ASSUME NEW s \in Seq(Document), NEW t \in Targets, NEW u \in Targets
  PROVE  LET d == [name |-> t, of |-> u]
             m == Merged(s, <<d>>)
         IN  /\ m \in Seq(Document) /\ m # <<>>
             /\ Items(s) \subseteq Items(m) /\ Items(m) \subseteq Items(s) \cup {d}
             /\ Bodies(m) = Bodies(s) \cup {BodyOf[u]}
<1>1. PICK d : d = [name |-> t, of |-> u]
  OBVIOUS
<1>2. PICK x : x = <<d>>
  OBVIOUS
<1>3. d \in Document /\ Body(d) = BodyOf[u]
  BY <1>1 DEF Document, Body
<1>4. x \in Seq(Document) /\ x # <<>> /\ Items(x) = {d}
  BY <1>2, <1>3 DEF Items
<1>5. PICK m : m = Merged(s, x)
  OBVIOUS
<1>6. m \in Seq(Document) /\ Items(s) \subseteq Items(m) /\ Items(m) \subseteq Items(s) \cup {d}
  BY <1>4, <1>5, MergedGathers DEF Gathered
<1>7. m # <<>> /\ Bodies(s) \cup Bodies(x) \subseteq Bodies(m)
  BY <1>4, <1>5, MergedBodies
<1>8. Bodies(x) = {BodyOf[u]} /\ Bodies(m) \subseteq Bodies(s) \cup {BodyOf[u]}
  BY <1>3, <1>4, <1>6 DEF Bodies
<1> QED BY <1>1, <1>2, <1>5, <1>6, <1>7, <1>8

LEMMA TurnFacts ==
  ASSUME FetchShape, NEW t, Turn(t)
  PROVE  /\ t \in Targets /\ t \in call.todo
         /\ call.ranked => /\ PolicyOf[t] \in Policies /\ PolicyOf[t] \notin call.keys
                           /\ \A u \in call.todo \ {t} :
                                PolicyOf[t] = PolicyOf[u] => Before(t, u)
<1>1. t \in call.todo /\ t \in Targets
  BY DEF FetchShape, Call, Turn, Open
<1>2. ASSUME call.ranked
      PROVE  PolicyOf[t] \in Policies /\ PolicyOf[t] \notin call.keys
  BY <1>1, <1>2, FetchConstants DEF FetchShape, Turn, Open, Policies
<1>3. ASSUME call.ranked, NEW u \in call.todo \ {t}, PolicyOf[t] = PolicyOf[u]
      PROVE  Before(t, u)
  BY <1>2, <1>3 DEF Turn, Open
<1> QED BY <1>1, <1>2, <1>3

(* A document of a new policy is filed, or what it says is there already.  *)
LEMMA AgreeGrows ==
  ASSUME NEW ks, NEW all, NEW more, NEW x, Agree(ks, all),
         all \subseteq more, more \subseteq all \cup {x},
         x.of = x.name, PolicyOf[x.name] \notin ks, Stands(PolicyOf[x.name], more)
  PROVE  Agree(ks \cup {PolicyOf[x.name]}, more)
<1>1. \A k \in ks \cup {PolicyOf[x.name]} : Stands(k, more)
  BY DEF Agree, Stands
<1>2. /\ \A d \in all : d.of = d.name /\ PolicyOf[d.name] \in ks
      /\ \A d, e \in all : PolicyOf[d.name] = PolicyOf[e.name] => d = e
  BY DEF Agree
<1>3. \A d \in more : d.of = d.name /\ PolicyOf[d.name] \in ks \cup {PolicyOf[x.name]}
  BY <1>2
<1>4. \A d \in all : PolicyOf[d.name] # PolicyOf[x.name]
  BY <1>2
<1>5. \A d, e \in more : PolicyOf[d.name] = PolicyOf[e.name] => d = e
  BY <1>2, <1>4
<1> QED BY <1>1, <1>3, <1>5 DEF Agree

(* What is left of a collection when the same bodies are left out.         *)
LEMMA AgreeShrinks ==
  ASSUME NEW ks, NEW all, NEW less, Agree(ks, all), less \subseteq all,
         \A d \in all : \E e \in less : Body(e) = Body(d)
  PROVE  Agree(ks, less)
<1>1. ASSUME NEW k \in ks PROVE Stands(k, less)
  <2>1. PICK t \in Targets, d \in all : PolicyOf[t] = k /\ BodyOf[t] = Body(d)
    BY DEF Agree, Stands
  <2>2. PICK e \in less : Body(e) = Body(d)
    OBVIOUS
  <2> QED BY <2>1, <2>2 DEF Stands
<1> QED BY <1>1 DEF Agree

LEMMA KeepKeeps ==
  ASSUME FetchShape, Kept, pc \in {"buttons", "clicked"}, pc' = "buttons",
         clicked' = None, NEW t, Turn(t), NEW u \in Targets, Keep(t, u),
         left' = left, keys' = keys, docs' = docs
  PROVE  /\ FetchShape' /\ Kept' /\ InSurface' = InSurface
         /\ ~InSurface /\ Ledger /\ u = t => Ledger'
<1>1. /\ call \in Call /\ call.got \in Seq(Document) /\ t \in Targets
      /\ t \in call.todo
  BY TurnFacts DEF FetchShape, Call
<1>2. PICK x : x = [name |-> t, of |-> u]
  OBVIOUS
<1>3. PICK m : m = Merged(call.got, <<x>>)
  OBVIOUS
<1>4. /\ m \in Seq(Document) /\ m # <<>>
      /\ Items(call.got) \subseteq Items(m) /\ Items(m) \subseteq Items(call.got) \cup {x}
      /\ Bodies(m) = Bodies(call.got) \cup {BodyOf[u]}
  BY <1>1, <1>2, <1>3, KeptDocument
<1>5. /\ call' = [call EXCEPT !.got = m, !.todo = @ \ {t}, !.keys = @ \cup KeyOf(t),
                              !.gave = @ \cup ({t} \cap call.listed)]
      /\ shown' = IF call.path \in Surface THEN call'.got ELSE shown
  BY <1>2, <1>3 DEF Keep
<1>6. /\ call'.path = call.path /\ call'.listed = call.listed
      /\ call'.ranked = call.ranked /\ call'.vain = call.vain
      /\ call'.got = m /\ call'.todo = call.todo \ {t}
      /\ call'.keys = call.keys \cup KeyOf(t)
      /\ call'.gave = call.gave \cup ({t} \cap call.listed)
  BY <1>1, <1>5 DEF Call
<1>7. KeyOf(t) \subseteq Policies
  BY TurnFacts DEF KeyOf
<1>8. call' \in Call
  <2>1. /\ call.todo \ {t} \in SUBSET Targets
        /\ call.keys \cup KeyOf(t) \in SUBSET Policies
        /\ call.gave \cup ({t} \cap call.listed) \in SUBSET Targets
    BY <1>1, <1>7 DEF Call
  <2> QED BY <1>1, <1>4, <1>5, <2>1 DEF Call
<1>9. InCall /\ InCall' /\ pc' # "merge" /\ pc' # "url" /\ pc' # "links"
  BY DEF InCall
<1>10. InSurface' = InSurface /\ (InSurface <=> call.path \in Surface)
  BY <1>6 DEF InSurface, Surface
<1>11. FetchShape'
  <2>1. pc' \in PCs /\ shown' \in Seq(Document)
    BY <1>4, <1>5, <1>6 DEF PCs, FetchShape
  <2> QED BY <1>6, <1>8, <1>9, <2>1 DEF FetchShape
<1>12. Kept'
  <2>1. ~InSurface => shown' = shown
    BY <1>5, <1>10
  <2>2. InSurface => Bodies(shown') \subseteq Bodies(docs') \cup Bodies(call'.got)
    BY <1>5, <1>10
  <2> QED BY <1>4, <1>6, <1>9, <1>10, <2>1, <2>2 DEF Kept
<1>13. ASSUME ~InSurface, Ledger, u = t PROVE Ledger'
  <2>1. call.ranked /\ KeyOf(t) = {PolicyOf[t]}
    BY <1>1, <1>10, <1>13 DEF FetchShape, Call, KeyOf
  <2>2. Filed /\ Ranked /\ keys \subseteq call.keys
    BY <1>9, <1>13 DEF Ledger, Ranked
  <2>3. /\ PolicyOf[t] \notin call.keys
        /\ \A v \in call.todo \ {t} : PolicyOf[t] = PolicyOf[v] => Before(t, v)
    BY <2>1, TurnFacts
  <2>4. call'.gave = call.gave \cup {t}
    BY <1>1, <1>6, <2>2 DEF Ranked
  <2>5. Stands(PolicyOf[t], Items(m))
    <3>1. BodyOf[t] \in Bodies(m)
      BY <1>4, <1>13
    <3> QED BY <1>1, <3>1 DEF Stands, Bodies
  <2>6. Filed'
    <3> DEFINE all == Items(docs) \cup Items(call.got)
               more == Items(docs) \cup Items(m)
               ks == keys \cup call.keys
    <3>1. Agree(ks, all) /\ all \subseteq more /\ more \subseteq all \cup {x}
      BY <1>4, <2>2 DEF Filed
    <3>2. Stands(PolicyOf[t], more)
      BY <2>5 DEF Stands
    <3>3. PolicyOf[t] \notin ks /\ x.name = t /\ x.of = t
      BY <1>2, <1>13, <2>2, <2>3
    <3>4. /\ keys' \cup call'.keys = ks \cup {PolicyOf[t]}
          /\ Items(docs') \cup Items(call'.got) = more
      BY <1>6, <2>1
    <3> HIDE DEF all, more, ks
    <3>5. Agree(ks \cup {PolicyOf[t]}, more)
      BY <3>1, <3>2, <3>3, AgreeGrows
    <3> QED BY <3>4, <3>5 DEF Filed
  <2>7. Ranked'
    <3>1. call'.listed = call'.todo \cup call'.vain \cup call'.gave
      BY <1>1, <1>6, <2>2, <2>4 DEF Ranked
    <3>2. call'.vain \cap (call'.todo \cup call'.gave) = {}
      BY <1>1, <1>6, <2>2, <2>4 DEF Ranked
    <3>3. \A g \in call'.gave : PolicyOf[g] \notin keys'
      BY <2>2, <2>3, <2>4 DEF Ranked
    <3>4. \A g \in call'.gave, v \in call'.todo :
            PolicyOf[g] = PolicyOf[v] => Before(g, v)
      BY <1>6, <2>2, <2>3, <2>4 DEF Ranked
    <3>5. call'.keys = keys' \cup {PolicyOf[g] : g \in call'.gave}
      BY <1>6, <2>1, <2>2, <2>4 DEF Ranked
    <3>6. \A g \in call.gave : PolicyOf[g] # PolicyOf[t]
      BY <2>2, <2>3 DEF Ranked
    <3>7. \A g, h \in call'.gave : PolicyOf[g] = PolicyOf[h] => g = h
      BY <2>2, <2>4, <3>6 DEF Ranked
    <3>8. Bodies(call'.got) = {BodyOf[g] : g \in call'.gave}
      BY <1>4, <1>6, <1>13, <2>2, <2>4 DEF Ranked
    <3> QED BY <3>1, <3>2, <3>3, <3>4, <3>5, <3>7, <3>8 DEF Ranked
  <2> QED BY <2>6, <2>7 DEF Ledger
<1> QED BY <1>10, <1>11, <1>12, <1>13

LEMMA GoOnKeeps ==
  ASSUME FetchShape, Kept, pc \in {"buttons", "clicked"}, pc' = "buttons",
         clicked' = None, NEW t, Turn(t), GoOn(t),
         left' = left, keys' = keys, docs' = docs
  PROVE  /\ FetchShape' /\ Kept' /\ InSurface' = InSurface
         /\ ~InSurface /\ Ledger => Ledger'
<1>1. call \in Call /\ t \in Targets /\ t \in call.todo
  BY TurnFacts DEF FetchShape
<1>2. /\ call' = [call EXCEPT !.todo = @ \ {t}, !.vain = @ \cup ({t} \cap call.listed)]
      /\ shown' = shown
  BY DEF GoOn
<1>3. /\ call'.path = call.path /\ call'.listed = call.listed
      /\ call'.ranked = call.ranked /\ call'.keys = call.keys
      /\ call'.got = call.got /\ call'.gave = call.gave
      /\ call'.todo = call.todo \ {t}
      /\ call'.vain = call.vain \cup ({t} \cap call.listed)
  BY <1>1, <1>2 DEF Call
<1>4. call' \in Call
  <2>1. /\ call.todo \ {t} \in SUBSET Targets
        /\ call.vain \cup ({t} \cap call.listed) \in SUBSET Targets
    BY <1>1 DEF Call
  <2> QED BY <1>1, <1>2, <2>1 DEF Call
<1>5. InCall /\ InCall' /\ pc' # "merge" /\ pc' # "url" /\ pc' # "links"
  BY DEF InCall
<1>6. InSurface' = InSurface /\ (InSurface <=> call.path \in Surface)
  BY <1>3 DEF InSurface, Surface
<1>7. FetchShape'
  <2>1. pc' \in PCs
    BY DEF PCs
  <2> QED BY <1>2, <1>3, <1>4, <1>5, <2>1 DEF FetchShape
<1>8. Kept'
  BY <1>2, <1>3, <1>5, <1>6 DEF Kept
<1>9. ASSUME ~InSurface, Ledger PROVE Ledger'
  <2>1. call.ranked
    BY <1>1, <1>6, <1>9 DEF FetchShape, Call
  <2>2. Filed /\ Ranked /\ keys \subseteq call.keys
    BY <1>5, <1>9 DEF Ledger, Ranked
  <2>3. Filed'
    BY <1>3, <2>2 DEF Filed
  <2>4. t \notin call.gave
    BY <2>1, <2>2, TurnFacts DEF Ranked
  <2>5. /\ call'.keys = keys' \cup {PolicyOf[g] : g \in call'.gave}
        /\ Bodies(call'.got) = {BodyOf[g] : g \in call'.gave}
    BY <1>3, <2>2 DEF Ranked
  <2>6. Ranked'
    BY <1>1, <1>3, <2>2, <2>4, <2>5 DEF Ranked
  <2> QED BY <2>3, <2>6 DEF Ledger
<1> QED BY <1>6, <1>7, <1>8, <1>9

(* What does not click leaves the race as it is, but for a viewer that is  *)
(* closed.                                                                 *)
LEMMA RaceRests ==
  ASSUME RaceShape,
         UNCHANGED <<clicked, racer, queue, inflight>>,
         viewer' \in {viewer, None}, late' \in 0..MaxLate,
         found' \in Targets \cup {None}
  PROVE  RaceShape' /\ (clicked = None /\ Mine => Mine')
BY DEF RaceShape, Mine

LEMMA DirectStep ==
  ASSUME FInv, NEW t \in Targets, Direct(t)
  PROVE  FInv'
<1>1. RaceShape /\ FetchShape /\ Kept /\ Prompt
  BY DEF FInv
<1>2. /\ pc = "buttons" /\ pc' = "buttons" /\ Turn(t) /\ call.path # "named"
      /\ clicked' = clicked /\ racer' = racer /\ queue' = queue
      /\ inflight' = inflight /\ found' = found
      /\ left' = left /\ keys' = keys /\ docs' = docs
  BY DEF Direct
<1>3. PICK u \in Targets : Addressed(t, u) /\ Keep(t, u)
  BY DEF Direct
<1>4. clicked = None /\ clicked' = None
  BY <1>1, <1>2 DEF FetchShape
<1>5. /\ viewer' \in {viewer, None} /\ late' \in 0..MaxLate
      /\ late' = 0 => late = 0 /\ u = t
  BY <1>1, <1>3, AddressedKeeps
<1>6. RaceShape' /\ (Mine => Mine')
  BY <1>1, <1>2, <1>4, <1>5, RaceRests DEF RaceShape
<1>7. /\ FetchShape' /\ Kept' /\ InSurface' = InSurface
      /\ ~InSurface /\ Ledger /\ u = t => Ledger'
  BY <1>1, <1>2, <1>3, <1>4, KeepKeeps
<1>8. InTurn'
  BY <1>2, <1>4 DEF InTurn
<1>9. Prompt'
  BY <1>1, <1>5, <1>6, <1>7, <1>8 DEF Prompt
<1> QED BY <1>6, <1>7, <1>9 DEF FInv

LEMMA UnclickableStep ==
  ASSUME FInv, NEW t \in Targets, Unclickable(t)
  PROVE  FInv'
<1>1. RaceShape /\ FetchShape /\ Kept /\ Prompt
  BY DEF FInv
<1>2. /\ pc = "buttons" /\ pc' = "buttons" /\ Turn(t) /\ Addressed(t, t) /\ GoOn(t)
      /\ clicked' = clicked /\ racer' = racer /\ queue' = queue
      /\ inflight' = inflight /\ found' = found
      /\ left' = left /\ keys' = keys /\ docs' = docs
  BY DEF Unclickable
<1>3. clicked = None /\ clicked' = None
  BY <1>1, <1>2 DEF FetchShape
<1>4. /\ viewer' \in {viewer, None} /\ late' \in 0..MaxLate
      /\ late' = 0 => late = 0
  BY <1>1, <1>2, AddressedKeeps
<1>5. RaceShape' /\ (Mine => Mine')
  BY <1>1, <1>2, <1>3, <1>4, RaceRests DEF RaceShape
<1>6. /\ FetchShape' /\ Kept' /\ InSurface' = InSurface
      /\ ~InSurface /\ Ledger => Ledger'
  BY <1>1, <1>2, <1>3, GoOnKeeps
<1>7. InTurn'
  BY <1>2, <1>3 DEF InTurn
<1>8. Prompt'
  BY <1>1, <1>4, <1>5, <1>6, <1>7 DEF Prompt
<1> QED BY <1>5, <1>6, <1>8 DEF FInv

LEMMA ClickStep ==
  ASSUME FInv, NEW t \in Targets, Click(t)
  PROVE  FInv'
<1>1. RaceShape /\ FetchShape /\ Kept /\ Prompt
  BY DEF FInv
<1>2. /\ pc = "buttons" /\ pc' = "clicked" /\ Turn(t) /\ found' = found
      /\ left' = left /\ keys' = keys /\ call' = call
      /\ docs' = docs /\ shown' = shown
  BY DEF Click, To
<1>3. PICK u \in Targets : Addressed(t, u) /\ Begin(u)
  BY DEF Click
<1>4. clicked = None
  BY <1>1, <1>2 DEF FetchShape
<1>5. /\ viewer' \in {viewer, None} /\ late' \in 0..MaxLate
      /\ late' = 0 => late = 0 /\ u = t
      /\ late' = 0 /\ call.path # "named" => viewer' = None
  BY <1>1, <1>3, AddressedKeeps
<1>6. /\ RaceShape' /\ clicked' = u
      /\ Mine /\ viewer' = None => Mine'
  BY <1>1, <1>2, <1>3, <1>4, <1>5, BeginKeeps
<1>7. InCall /\ InCall' /\ pc' \in PCs
  BY <1>2 DEF InCall, PCs
<1>8. InSurface' = InSurface /\ (InSurface <=> call.path \in Surface)
  BY <1>2 DEF InSurface, Surface
<1>9. FetchShape'
  BY <1>1, <1>2, <1>7 DEF FetchShape
<1>10. Kept'
  BY <1>1, <1>2, <1>7, <1>8 DEF Kept, Begins
<1>11. Prompt'
  <2> SUFFICES ASSUME late' = 0, ~InSurface' PROVE Mine' /\ InTurn' /\ Ledger'
    BY DEF Prompt
  <2>1. Mine /\ Ledger
    BY <1>1, <1>5, <1>8 DEF Prompt
  <2>2. call.path # "named"
    BY <1>8, Paths
  <2>3. Mine'
    BY <1>5, <1>6, <2>1, <2>2
  <2>4. t # None /\ Turn(t)'
    BY <1>2, RaceConstants DEF Turn, Open
  <2>5. InTurn'
    BY <1>5, <1>6, <2>4 DEF InTurn
  <2>6. Ledger' = Ledger
    BY <1>2, <1>7 DEF Ledger, Filed, Ranked
  <2> QED BY <2>1, <2>3, <2>5, <2>6
<1> QED BY <1>6, <1>9, <1>10, <1>11 DEF FInv

LEMMA PayloadStep ==
  ASSUME FInv, NEW t \in Targets, Payload(t)
  PROVE  FInv'
<1>1. RaceShape /\ FetchShape /\ Kept /\ Prompt
  BY DEF FInv
<1>2. /\ pc = "clicked" /\ pc' = "buttons" /\ Turn(t)
      /\ IF found = None THEN GoOn(t) ELSE Keep(t, found)
      /\ clicked = None /\ clicked' = clicked /\ racer' = racer /\ queue' = queue
      /\ inflight' = inflight /\ found' = None
      /\ viewer' = viewer /\ late' = late
      /\ left' = left /\ keys' = keys /\ docs' = docs
  BY DEF Payload, To
<1>3. RaceShape' /\ (Mine => Mine')
  BY <1>1, <1>2, RaceRests DEF RaceShape
<1>4. InSurface <=> call.path \in Surface
  BY <1>2 DEF InSurface, Surface
<1>5. /\ FetchShape' /\ Kept' /\ InSurface' = InSurface
      /\ ~InSurface /\ InTurn /\ Ledger => Ledger'
  <2>1. CASE found = None
    BY <1>1, <1>2, <2>1, GoOnKeeps
  <2>2. CASE found # None
    <3>1. found \in Targets /\ Keep(t, found)
      BY <1>1, <1>2, <2>2 DEF RaceShape
    <3>2. /\ FetchShape' /\ Kept' /\ InSurface' = InSurface
          /\ ~InSurface /\ Ledger /\ found = t => Ledger'
      BY <1>1, <1>2, <3>1, KeepKeeps
    <3>3. ASSUME ~InSurface, InTurn PROVE found = t
      <4>1. call.ranked
        BY <1>1, <1>4, <3>3 DEF FetchShape, Call
      <4>2. Turn(found)
        BY <1>2, <2>2, <3>3 DEF InTurn
      <4> QED BY <1>1, <1>2, <4>1, <4>2, OneTurn
    <3> QED BY <3>2, <3>3
  <2> QED BY <2>1, <2>2
<1>6. InTurn'
  BY <1>2 DEF InTurn
<1>7. Prompt'
  BY <1>1, <1>2, <1>3, <1>5, <1>6 DEF Prompt
<1> QED BY <1>3, <1>5, <1>7 DEF FInv

LEMMA ButtonsDoneStep ==
  ASSUME FInv, ButtonsDone
  PROVE  FInv'
<1>1. RaceShape /\ FetchShape /\ Kept /\ Prompt
  BY DEF FInv
<1>2. /\ pc = "buttons" /\ pc' = "merge" /\ Open = {}
      /\ clicked' = clicked /\ racer' = racer /\ queue' = queue
      /\ inflight' = inflight /\ found' = found
      /\ viewer' = viewer /\ late' = late
      /\ left' = left /\ keys' = keys /\ call' = call
      /\ docs' = docs /\ shown' = shown
  BY DEF ButtonsDone, To, raceVars
<1>3. clicked = None
  BY <1>1, <1>2 DEF FetchShape
<1>4. RaceShape' /\ (Mine => Mine')
  BY <1>1, <1>2, <1>3, RaceRests DEF RaceShape
<1>5. InCall /\ InCall' /\ pc' \in PCs
  BY <1>2 DEF InCall, PCs
<1>6. InSurface' = InSurface
  BY <1>2 DEF InSurface, Surface
<1>7. Open' = {}
  BY <1>2 DEF Open
<1>8. FetchShape'
  BY <1>1, <1>2, <1>3, <1>5, <1>7 DEF FetchShape
<1>9. Kept'
  BY <1>1, <1>2, <1>5, <1>6 DEF Kept, Begins
<1>10. InTurn'
  BY <1>2, <1>3 DEF InTurn
<1>11. Ledger' = Ledger
  BY <1>2, <1>5 DEF Ledger, Filed, Ranked
<1>12. Prompt'
  BY <1>1, <1>2, <1>4, <1>6, <1>10, <1>11 DEF Prompt
<1> QED BY <1>4, <1>8, <1>9, <1>12 DEF FInv

-----------------------------------------------------------------------------
(* Between the calls                                                       *)

\* the race has nothing to do but to wait for what comes late
Calm ==
  /\ RaceShape' /\ clicked' = None /\ late' = late
  /\ (Mine => Mine') /\ InTurn'

LEMMA NothingClicked ==
  ASSUME RaceShape, clicked = None, pc' # "clicked", UNCHANGED raceVars
  PROVE  Calm
<1>1. /\ clicked' = clicked /\ racer' = racer /\ queue' = queue
      /\ inflight' = inflight /\ found' = found
      /\ viewer' = viewer /\ late' = late
  BY DEF raceVars
<1>2. RaceShape' /\ (Mine => Mine')
  BY <1>1, RaceRests DEF RaceShape
<1>3. InTurn'
  BY <1>1 DEF InTurn
<1> QED BY <1>1, <1>2, <1>3 DEF Calm

LEMMA GotoIsCalm ==
  ASSUME RaceShape, clicked = None, pc' # "clicked", Goto
  PROVE  Calm
<1>1. /\ clicked' = clicked /\ racer' = racer /\ queue' = queue
      /\ inflight' = {e \in inflight : e.kind = "popup"}
      /\ found' = found /\ viewer' = None /\ late' = late
  BY DEF Goto
<1>2. inflight' \subseteq inflight
  BY <1>1
<1>3. IsFiniteSet(inflight')
  BY <1>2, FS_Subset DEF RaceShape
<1>4. RaceShape'
  BY <1>1, <1>2, <1>3 DEF RaceShape
<1>5. Mine => Mine'
  BY <1>1, <1>2 DEF Mine
<1>6. InTurn'
  BY <1>1 DEF InTurn
<1> QED BY <1>1, <1>4, <1>5, <1>6 DEF Calm

LEMMA BeginsBodies ==
  ASSUME NEW s \in Seq(Document), NEW d \in Seq(Document), Begins(s, d)
  PROVE  Bodies(s) \subseteq Bodies(d)
<1>1. DOMAIN s = 1..Len(s) /\ DOMAIN d = 1..Len(d) /\ Len(s) \in Nat /\ Len(d) \in Nat
  OBVIOUS
<1>2. \A i \in DOMAIN s : i \in DOMAIN d /\ d[i] = s[i]
  BY <1>1 DEF Begins
<1>3. Items(s) \subseteq Items(d)
  BY <1>2 DEF Items
<1> QED BY <1>3 DEF Bodies

(* The flow goes on to another place, and nothing else happens.            *)
LEMMA MoveKeeps ==
  ASSUME FetchShape, Kept, ~InCall, ~InCall', clicked' = None,
         pc' \in PCs, left' \in Left,
         pc' \in {"account", "accountTerm", "term"} => left'.centers > 0,
         UNCHANGED <<keys, call, docs, shown>>,
         InSurface => InSurface', InSurface' => keys = {},
         pc' \in {"url", "links"} => docs = <<>>
  PROVE  /\ FetchShape' /\ Kept'
         /\ ~InSurface' => ~InSurface
         /\ Ledger => Ledger'
<1>1. keys' = keys /\ call' = call /\ docs' = docs /\ shown' = shown
  OBVIOUS
<1>2. pc' # "merge"
  BY DEF InCall
<1>3. FetchShape'
  BY <1>1, <1>2 DEF FetchShape
<1>4. Begins(shown, docs) => Bodies(shown) \subseteq Bodies(docs)
  BY BeginsBodies DEF FetchShape
<1>5. Kept'
  BY <1>1, <1>4 DEF Kept
<1>6. Ledger => Ledger'
  BY <1>1 DEF Ledger, Filed
<1> QED BY <1>3, <1>5, <1>6

LEMMA MoveStep ==
  ASSUME FInv, UNCHANGED <<raceVars, keys, call, docs, shown>>, ~InCall, ~InCall',
         pc' \in PCs, left' \in Left,
         pc' \in {"account", "accountTerm", "term"} => left'.centers > 0,
         InSurface => InSurface', InSurface' => keys = {},
         pc' \in {"url", "links"} => docs = <<>>
  PROVE  FInv'
<1>1. RaceShape /\ FetchShape /\ Kept /\ Prompt
  BY DEF FInv
<1>2. clicked = None /\ pc' # "clicked"
  BY <1>1 DEF FetchShape, InCall
<1>3. Calm
  BY <1>1, <1>2, NothingClicked
<1>4. /\ FetchShape' /\ Kept' /\ (~InSurface' => ~InSurface)
      /\ Ledger => Ledger'
  BY <1>1, <1>3, MoveKeeps DEF Calm
<1>5. Prompt'
  BY <1>1, <1>3, <1>4 DEF Prompt, Calm
<1> QED BY <1>3, <1>4, <1>5 DEF FInv, Calm

(* On the way between the listings of the targeted path.                   *)
LEMMA CenterSteps ==
  ASSUME FInv, LeaveCenter \/ AccountsDone \/ TermsDone \/ CentersDone
  PROVE  FInv'
<1>1. FetchShape /\ Kept
  BY DEF FInv
<1>2. /\ pc \in {"goto", "account", "accountTerm", "term"}
      /\ UNCHANGED <<raceVars, keys, call, docs, shown>>
  BY DEF LeaveCenter, AccountsDone, TermsDone, CentersDone
<1>3. ~InCall /\ call = NoCall /\ call' = NoCall /\ keys' = keys
  BY <1>1, <1>2 DEF FetchShape, InCall
<1>4. ~InSurface
  BY <1>2, <1>3, Paths DEF InSurface, Surface
<1>5. docs = <<>> => keys = {}
  BY <1>1, <1>4 DEF Kept
<1>6. left.centers \in 0..Centers /\ left.terms \in 0..Terms /\ Centers \in Nat /\ Terms \in Nat
  BY <1>1, FetchConstants DEF FetchShape, Left
<1>7. /\ pc' \in {"goto", "account", "term", "done", "surface"}
      /\ pc' = "surface" => docs = <<>>
  BY DEF LeaveCenter, AccountsDone, TermsDone, CentersDone, To
<1>8. pc' \in PCs /\ ~InCall'
  BY <1>7 DEF PCs, InCall
<1>9. InSurface' => keys = {}
  BY <1>3, <1>5, <1>7, Paths DEF InSurface, Surface
<1>10. pc' \notin {"url", "links"}
  BY <1>7
<1>11. left' \in Left /\ (pc' \in {"account", "accountTerm", "term"} => left'.centers > 0)
  <2>1. CASE LeaveCenter
    <3>1. left.centers - 1 \in 0..Centers /\ left \in Left
      BY <1>1, <1>6, <2>1 DEF LeaveCenter, FetchShape
    <3>2. left' = [left EXCEPT !.centers = left.centers - 1] /\ pc' = "goto"
      BY <2>1 DEF LeaveCenter, To
    <3> QED BY <3>1, <3>2 DEF Left
  <2>2. CASE AccountsDone
    <3>1. left.centers > 0 /\ left \in Left /\ Terms \in 0..Terms
      BY <1>1, <1>6, <2>2 DEF AccountsDone, FetchShape
    <3>2. left' = [left EXCEPT !.terms = Terms]
      BY <2>2 DEF AccountsDone
    <3> QED BY <3>1, <3>2 DEF Left
  <2>3. CASE TermsDone
    <3>1. left.centers > 0 /\ left \in Left
      BY <1>1, <2>3 DEF TermsDone, FetchShape
    <3>2. left.centers - 1 \in 0..Centers
      BY <1>6, <3>1
    <3>3. left' = left \/ (left' = [left EXCEPT !.centers = left.centers - 1]
                           /\ pc' = "goto")
      BY <2>3 DEF TermsDone, To
    <3> QED BY <3>1, <3>2, <3>3 DEF Left
  <2>4. CASE CentersDone
    BY <1>1, <1>7, <2>4 DEF CentersDone, FetchShape, To
  <2> QED BY <2>1, <2>2, <2>3, <2>4
<1> QED BY <1>2, <1>3, <1>4, <1>8, <1>9, <1>10, <1>11, MoveStep

(* An exception ends the fetch, or it has ended.                           *)
LEMMA EndSteps ==
  ASSUME FInv, SurfaceFails \/ NothingFound
  PROVE  FInv'
<1>1. FetchShape /\ Kept
  BY DEF FInv
<1>2. /\ pc \in Surface \cup {"url"} /\ pc' = "failed" /\ left' = left
      /\ UNCHANGED <<raceVars, keys, call, docs, shown>>
  BY DEF SurfaceFails, NothingFound, To
<1>3. ~InCall /\ ~InCall' /\ pc' \in PCs
  BY <1>2 DEF InCall, Surface, PCs
<1>4. InSurface
  BY <1>2 DEF InSurface
<1>5. keys = {} /\ keys' = keys
  BY <1>1, <1>2, <1>4 DEF Kept
<1>6. InSurface'
  BY <1>2, <1>5 DEF InSurface
<1>7. left' \in Left
  BY <1>1, <1>2 DEF FetchShape
<1> QED BY <1>2, <1>3, <1>4, <1>5, <1>6, <1>7, MoveStep

\* what a call begins with
Beginning(path, ranked, todo, listed, skipped, known) ==
  [NoCall EXCEPT !.path = path, !.ranked = ranked, !.todo = todo,
                 !.listed = listed, !.skipped = skipped, !.keys = known]

Begun(c, path, ranked, todo, listed, known) ==
  /\ c \in Call /\ c.path = path /\ (c.ranked <=> ranked) /\ c.todo = todo
  /\ c.listed = listed /\ c.keys = known
  /\ c.got = <<>> /\ c.vain = {} /\ c.gave = {}

LEMMA CallBegins ==
  ASSUME NEW path \in Targeted \cup Surface, NEW ranked \in BOOLEAN,
         NEW todo \in SUBSET Targets, NEW listed \in SUBSET Targets,
         NEW skipped \in SUBSET Targets, NEW known \in SUBSET Policies
  PROVE  Begun(Beginning(path, ranked, todo, listed, skipped, known),
               path, ranked, todo, listed, known)
<1>1. PICK c : c = Beginning(path, ranked, todo, listed, skipped, known)
  OBVIOUS
<1>2. c = [path |-> path, listed |-> listed, skipped |-> skipped, todo |-> todo,
           ranked |-> ranked, keys |-> known, got |-> <<>>, gave |-> {}, vain |-> {}]
  BY <1>1 DEF Beginning, NoCall
<1>3. <<>> \in Seq(Document)
  OBVIOUS
<1>4. c \in Call
  BY <1>2, <1>3 DEF Call
<1>5. /\ c.path = path /\ c.todo = todo /\ c.listed = listed /\ c.keys = known
      /\ c.got = <<>> /\ c.vain = {} /\ c.gave = {}
  BY <1>2
<1>6. c.ranked <=> ranked
  BY <1>2
<1>7. Begun(c, path, ranked, todo, listed, known)
  BY <1>4, <1>5, <1>6 DEF Begun
<1> QED BY <1>1, <1>7

\* a targeted listing is ranked, and a ranked one holds policy documents only
ListedAs(c, path) ==
  /\ c \in Call /\ c.path = path
  /\ c.ranked => \A t \in c.todo : KindOf[t] # "none"
  /\ path \in Targeted => c.ranked /\ c.listed = c.todo /\ c.keys = keys
  /\ c.got = <<>> /\ c.vain = {} /\ c.gave = {}

LEMMA ListingFacts ==
  ASSUME keys \subseteq Policies, NEW path \in Targeted \cup Surface,
         NEW S \in SUBSET Targets, NEW n, NEW ok
  PROVE  ListedAs(Listing(path, S, n, ok), path)
<1>1. PICK policy : policy = IF ok THEN PolicyDocuments(S) ELSE {}
  OBVIOUS
<1>2. PICK ranked : ranked = (path # "named" /\ (policy # {} \/ path \in Targeted))
  OBVIOUS
<1>3. PICK counted : counted = IF path = "named" THEN S ELSE Counted(S, n)
  OBVIOUS
<1>4. PICK todo : todo = (IF ranked THEN policy ELSE S) \cap counted
  OBVIOUS
<1>5. PICK listed : listed = IF path \in Targeted THEN todo ELSE {}
  OBVIOUS
<1>6. PICK skipped : skipped = IF path \in Targeted THEN policy \ todo ELSE {}
  OBVIOUS
<1>7. PICK known : known = IF path \in Targeted THEN keys ELSE {}
  OBVIOUS
<1>8. PICK c : c = Listing(path, S, n, ok)
  OBVIOUS
<1>9. c = Beginning(path, ranked, todo, listed, skipped, known)
  BY <1>1, <1>2, <1>3, <1>4, <1>5, <1>6, <1>7, <1>8, Zenon DEF Listing, Beginning
<1>10. policy \subseteq Targets /\ \A t \in policy : KindOf[t] # "none"
  BY <1>1 DEF PolicyDocuments
<1>11. ranked \in BOOLEAN /\ (path \in Targeted => ranked)
  BY <1>2, Paths, Zenon
<1>12. /\ todo \in SUBSET Targets /\ listed \in SUBSET Targets
       /\ skipped \in SUBSET Targets /\ known \in SUBSET Policies
  BY <1>4, <1>5, <1>6, <1>7, <1>10, <1>11
<1>13. Begun(Beginning(path, ranked, todo, listed, skipped, known),
             path, ranked, todo, listed, known)
  BY <1>11, <1>12, CallBegins
<1>14. Begun(c, path, ranked, todo, listed, known)
  BY <1>9, <1>13
<1>15. ranked => todo \subseteq policy
  BY <1>4, <1>11
<1>16. ListedAs(c, path)
  BY <1>5, <1>7, <1>10, <1>11, <1>14, <1>15 DEF Begun, ListedAs
<1> QED BY <1>8, <1>16

(* A listing begins: what a page shows becomes the work of a call.         *)
LEMMA ListKeeps ==
  ASSUME FetchShape, Kept, ~InCall, clicked' = None,
         NEW path \in Targeted \cup Surface, NEW pages \in SUBSET SUBSET Targets,
         List(path, pages),
         path \in Surface <=> InSurface,
         left' \in Left, path \in Targeted => left'.centers > 0,
         UNCHANGED <<keys, docs, shown>>
  PROVE  /\ FetchShape' /\ Kept' /\ pc' = "buttons"
         /\ InSurface' <=> InSurface
         /\ ~InSurface /\ Ledger => Ledger'
<1>1. /\ pc' = "buttons" /\ keys' = keys /\ docs' = docs /\ shown' = shown
      /\ keys \subseteq Policies
  BY DEF List, To, FetchShape
<1>2. PICK S \in SUBSET Targets, C \in pages, ok \in BOOLEAN :
        call' = Listing(path, S, Cardinality(C), ok)
  BY DEF List
<1>3. ListedAs(call', path)
  BY <1>1, <1>2, ListingFacts
<1>4. /\ call' \in Call /\ call'.path = path
      /\ call'.ranked => \A t \in call'.todo : KindOf[t] # "none"
      /\ path \in Targeted =>
           call'.ranked /\ call'.listed = call'.todo /\ call'.keys = keys
      /\ call'.got = <<>> /\ call'.vain = {} /\ call'.gave = {}
  BY <1>3 DEF ListedAs
<1>5. call = NoCall
  BY DEF FetchShape
<1>6. InSurface' <=> InSurface
  BY <1>1, <1>4 DEF InSurface, Surface
<1>7. InCall' /\ pc' \in PCs
  BY <1>1 DEF InCall, PCs
<1>8. FetchShape'
  BY <1>1, <1>4, <1>7 DEF FetchShape
<1>9. Kept'
  BY <1>1, <1>4, <1>5, <1>6, Paths DEF Kept, Begins
<1>10. ASSUME ~InSurface, Ledger PROVE Ledger'
  <2>1. path \in Targeted
    BY <1>10
  <2>2. Filed'
    BY <1>1, <1>4, <1>5, <1>10, <2>1, Paths DEF Ledger, Filed
  <2>3. Ranked'
    BY <1>1, <1>4, <2>1, Paths DEF Ranked
  <2> QED BY <2>2, <2>3 DEF Ledger
<1> QED BY <1>1, <1>6, <1>8, <1>9, <1>10

LEMMA ListStep ==
  ASSUME FInv, ~InCall, NEW path \in Targeted \cup Surface,
         NEW pages \in SUBSET SUBSET Targets, List(path, pages),
         path \in Surface <=> InSurface,
         left' \in Left, path \in Targeted => left'.centers > 0,
         UNCHANGED <<keys, docs, shown>>, Goto \/ UNCHANGED raceVars
  PROVE  FInv'
<1>1. RaceShape /\ FetchShape /\ Kept /\ Prompt
  BY DEF FInv
<1>2. clicked = None /\ pc' # "clicked"
  BY <1>1 DEF FetchShape, InCall, List, To
<1>3. Calm
  BY <1>1, <1>2, NothingClicked, GotoIsCalm
<1>4. clicked' = None
  BY <1>3 DEF Calm
<1>5. /\ FetchShape' /\ Kept' /\ (InSurface' <=> InSurface)
      /\ ~InSurface /\ Ledger => Ledger'
  BY <1>1, <1>4, ListKeeps
<1>6. Prompt'
  BY <1>1, <1>3, <1>5 DEF Prompt, Calm
<1> QED BY <1>3, <1>5, <1>6 DEF FInv, Calm

LEMMA ListingSteps ==
  ASSUME FInv, VisibleListing \/ FilteredListing \/ SearchListing \/ SurfaceListing
  PROVE  FInv'
<1>1. FetchShape
  BY DEF FInv
<1>2. /\ pc \in {"goto", "account", "accountTerm", "term"} \cup Surface
      /\ UNCHANGED <<keys, docs, shown>> /\ (Goto \/ UNCHANGED raceVars)
  BY DEF VisibleListing, FilteredListing, SearchListing, SurfaceListing
<1>3. ~InCall
  BY <1>2 DEF InCall, Surface
<1>4. call = NoCall
  BY <1>1, <1>3 DEF FetchShape
<1>5. InSurface <=> pc \in Surface
  BY <1>2, <1>4, Paths DEF InSurface, Surface
<1>6. left \in Left /\ left.accounts \in 0..Accounts /\ left.terms \in 0..Terms
  BY <1>1 DEF FetchShape, Left
<1>7. CASE VisibleListing
  <2>1. "visible" \in Targeted \ Surface /\ pc = "goto" /\ pc \notin Surface
    BY <1>7 DEF VisibleListing, Targeted, Surface
  <2>2. PICK pages : pages = Listings["visible"] /\ List("visible", pages)
    BY <1>7 DEF VisibleListing
  <2>3. pages \in SUBSET SUBSET Targets
    BY <2>1, <2>2, FetchConstants
  <2>4. left' = left /\ left.centers > 0
    BY <1>7 DEF VisibleListing
  <2> QED BY <1>2, <1>3, <1>5, <1>6, <2>1, <2>2, <2>3, <2>4, ListStep
<1>8. CASE FilteredListing
  <2>1. "account" \in Targeted \ Surface /\ pc = "account" /\ pc \notin Surface
    BY <1>8 DEF FilteredListing, Targeted, Surface
  <2>2. PICK pages : pages = Listings["account"] /\ List("account", pages)
    BY <1>8 DEF FilteredListing, Filtered
  <2>3. pages \in SUBSET SUBSET Targets
    BY <2>1, <2>2, FetchConstants
  <2>4. left' = [left EXCEPT !.accounts = left.accounts - 1] /\ left.accounts > 0
    BY <1>8 DEF FilteredListing
  <2>5. left.accounts - 1 \in 0..Accounts
    BY <1>6, <2>4, FetchConstants
  <2>6. left' \in Left /\ left'.centers = left.centers
    BY <1>6, <2>4, <2>5 DEF Left
  <2>7. left'.centers > 0
    BY <1>1, <2>1, <2>6 DEF FetchShape
  <2> QED BY <1>2, <1>3, <1>5, <2>1, <2>2, <2>3, <2>6, <2>7, ListStep
<1>9. CASE SearchListing
  <2>1. PICK path \in {"accountTerm", "term"} : pc = path
    BY <1>9 DEF SearchListing
  <2>2. path \in Targeted \ Surface /\ pc \notin Surface
    BY <2>1 DEF Targeted, Surface
  <2>3. PICK pages : pages = Listings[path] \cup {{}} /\ List(path, pages)
    BY <1>9, <2>1 DEF SearchListing, Searched
  <2>4. pages \in SUBSET SUBSET Targets
    BY <2>2, <2>3, FetchConstants
  <2>5. left' = [left EXCEPT !.terms = left.terms - 1] /\ left.terms > 0
    BY <1>9 DEF SearchListing
  <2>6. left.terms - 1 \in 0..Terms
    BY <1>6, <2>5, FetchConstants
  <2>7. left' \in Left /\ left'.centers = left.centers
    BY <1>6, <2>5, <2>6 DEF Left
  <2>8. left'.centers > 0
    BY <1>1, <2>1, <2>7 DEF FetchShape
  <2> QED BY <1>2, <1>3, <1>5, <2>2, <2>3, <2>4, <2>7, <2>8, ListStep
<1>10. CASE SurfaceListing
  <2>1. PICK path \in Surface : pc = path
    BY <1>10 DEF SurfaceListing
  <2>2. path \notin Targeted
    BY Paths
  <2>3. PICK pages : pages = Listings[path] /\ List(path, pages)
    BY <1>10, <2>1 DEF SurfaceListing
  <2>4. pages \in SUBSET SUBSET Targets
    BY <2>3, FetchConstants
  <2>5. left' = left
    BY <1>10 DEF SurfaceListing
  <2> QED BY <1>2, <1>3, <1>5, <1>6, <2>1, <2>2, <2>3, <2>4, <2>5, ListStep
<1> QED BY <1>7, <1>8, <1>9, <1>10

-----------------------------------------------------------------------------
(* The end of a call                                                       *)

LEMMA CollectedFacts ==
  ASSUME FetchShape, docs' = Collected
  PROVE  /\ docs' \in Seq(Document) /\ Begins(docs, docs')
         /\ Items(docs') \subseteq Items(docs) \cup Items(call.got)
         /\ Bodies(docs) \cup Bodies(call.got) \subseteq Bodies(docs')
         /\ docs # <<>> \/ call.got # <<>> => docs' # <<>>
<1>1. docs \in Seq(Document) /\ call.got \in Seq(Document)
  BY DEF FetchShape, Call
<1> QED BY <1>1, MergedGathers, MergedBodies DEF Collected, Gathered, Begins

LEMMA MergeTargetedStep ==
  ASSUME FInv, MergeTargeted
  PROVE  FInv'
<1>1. RaceShape /\ FetchShape /\ Kept /\ Prompt
  BY DEF FInv
<1>2. /\ pc = "merge" /\ call.path \in Targeted
      /\ docs' = Collected /\ keys' = call.keys
      /\ shown' = IF Len(docs') > Len(docs) THEN docs' ELSE shown
      /\ call' = NoCall /\ UNCHANGED raceVars
  BY DEF MergeTargeted
<1>3. /\ docs' \in Seq(Document) /\ Begins(docs, docs')
      /\ docs # <<>> \/ call.got # <<>> => docs' # <<>>
  BY <1>1, <1>2, CollectedFacts
<1>4. clicked = None /\ InCall /\ call.path \notin Surface
  BY <1>1, <1>2, Paths DEF FetchShape, InCall
<1>5. ~InSurface
  BY <1>2, <1>4 DEF InSurface, Surface
<1>6. /\ pc' \in {"done", "account", "accountTerm", "term"}
      /\ pc' = "done" => keys' # {}
      /\ left' \in Left /\ left'.centers = left.centers
  <2>1. left \in Left /\ Terms \in 0..Terms /\ 0 \in 0..Terms
    BY <1>1, FetchConstants DEF FetchShape
  <2>2. CASE call.path = "visible"
    <3>1. CASE Cardinality(keys') >= 2
      <4>1. pc' = "done" /\ left' = left
        BY <2>2, <3>1 DEF MergeTargeted, To
      <4>2. keys' # {}
        BY <3>1, FS_EmptySet
      <4> QED BY <2>1, <4>1, <4>2
    <3>2. CASE ~(Cardinality(keys') >= 2)
      <4>1. /\ pc' = "account"
            /\ \E n \in 0..Accounts : left' = [left EXCEPT !.accounts = n]
        BY <2>2, <3>2 DEF MergeTargeted, To, AccountValues
      <4> QED BY <2>1, <4>1 DEF Left
    <3> QED BY <3>1, <3>2
  <2>3. CASE call.path = "account"
    <3>1. /\ pc' \in {"account", "accountTerm"}
          /\ left' = left \/ left' = [left EXCEPT !.terms = Terms]
      BY <2>3 DEF MergeTargeted, To
    <3> QED BY <2>1, <3>1 DEF Left
  <2>4. CASE call.path \in {"accountTerm", "term"}
    <3>1. /\ pc' = call.path
          /\ left' = left \/ left' = [left EXCEPT !.terms = 0]
      BY <2>4 DEF MergeTargeted, To
    <3> QED BY <2>1, <2>4, <3>1 DEF Left
  <2> QED BY <1>2, <2>2, <2>3, <2>4 DEF Targeted
<1>7. ~InSurface'
  BY <1>2, <1>6, Paths DEF InSurface, Surface
<1>8. ~InCall' /\ pc' \in PCs /\ pc' \notin {"url", "links", "clicked", "merge"}
  BY <1>6 DEF InCall, PCs
<1>9. Calm
  BY <1>1, <1>2, <1>4, <1>8, NothingClicked
<1>10. left.centers > 0 /\ keys' \subseteq Policies
  BY <1>1, <1>2, <1>4 DEF FetchShape, Call
<1>11. docs \in Seq(Document) /\ shown \in Seq(Document) /\ shown' \in Seq(Document)
  BY <1>1, <1>2, <1>3 DEF FetchShape
<1>12. FetchShape'
  BY <1>2, <1>3, <1>6, <1>8, <1>9, <1>10, <1>11, Paths DEF FetchShape, Calm
<1>13. Begins(shown', docs')
  <2>1. Len(shown) \in Nat /\ Len(docs) \in Nat /\ Len(docs') \in Nat
    BY <1>3, <1>11
  <2>2. Begins(shown, docs)
    BY <1>1, <1>5 DEF Kept
  <2>3. \A i \in 1..Len(shown) : i \in 1..Len(docs)
    BY <2>1, <2>2 DEF Begins
  <2>4. Begins(shown, docs')
    BY <1>3, <2>1, <2>2, <2>3 DEF Begins
  <2>5. Begins(docs', docs')
    BY <2>1 DEF Begins
  <2> QED BY <1>2, <2>4, <2>5
<1>14. keys' # {} => docs' # <<>>
  BY <1>1, <1>2, <1>3, <1>4, <1>5 DEF Kept
<1>15. Kept'
  BY <1>7, <1>8, <1>13, <1>14 DEF Kept
<1>16. Ledger => Ledger'
  <2> SUFFICES ASSUME Ledger PROVE Ledger'
    OBVIOUS
  <2>1. Filed /\ keys \subseteq call.keys
    BY <1>4 DEF Ledger, Ranked
  <2> DEFINE all == Items(docs) \cup Items(call.got)
             ks == keys \cup call.keys
  <2>2. /\ Items(docs') \subseteq all
        /\ \A d \in all : \E e \in Items(docs') : Body(e) = Body(d)
    BY <1>1, <1>2, CollectedFacts DEF Bodies
  <2>3. Items(docs') \cup Items(call'.got) = Items(docs') /\ keys' \cup call'.keys = ks
    BY <1>2, <2>1, Paths
  <2>4. Agree(ks, all)
    BY <2>1 DEF Filed
  <2> HIDE DEF all, ks
  <2>5. Agree(ks, Items(docs'))
    BY <2>2, <2>4, AgreeShrinks
  <2>6. Filed'
    BY <2>3, <2>5 DEF Filed
  <2> QED BY <1>8, <2>6 DEF Ledger
<1>17. Prompt'
  BY <1>1, <1>5, <1>9, <1>16 DEF Prompt, Calm
<1> QED BY <1>9, <1>12, <1>15, <1>17 DEF FInv, Calm

LEMMA MergeSurfaceStep ==
  ASSUME FInv, MergeSurface
  PROVE  FInv'
<1>1. RaceShape /\ FetchShape /\ Kept
  BY DEF FInv
<1>2. /\ pc = "merge" /\ call.path \in Surface
      /\ docs' = Collected /\ call' = NoCall
      /\ left' = left /\ keys' = keys /\ shown' = shown /\ UNCHANGED raceVars
  BY DEF MergeSurface
<1>3. /\ docs' \in Seq(Document)
      /\ Bodies(docs) \cup Bodies(call.got) \subseteq Bodies(docs')
  BY <1>1, <1>2, CollectedFacts
<1>4. clicked = None /\ InSurface /\ keys' = {}
  BY <1>1, <1>2 DEF FetchShape, InSurface, Kept
<1>5. /\ pc' \in {"summary", "named", "done", "links", "url"}
      /\ pc' \in {"links", "url"} => docs' = <<>>
  <2>1. CASE call.path = "surface"
    BY <2>1 DEF MergeSurface
  <2>2. CASE call.path = "summary"
    BY <2>2 DEF MergeSurface, To
  <2>3. CASE call.path = "named"
    BY <2>3 DEF MergeSurface, To
  <2> QED BY <1>2, <2>1, <2>2, <2>3 DEF Surface
<1>6. InSurface'
  BY <1>4, <1>5 DEF InSurface, Surface
<1>7. ~InCall' /\ pc' \in PCs /\ pc' \notin {"clicked", "merge", "account", "accountTerm", "term"}
  BY <1>5 DEF InCall, PCs
<1>8. Calm
  BY <1>1, <1>2, <1>4, <1>7, NothingClicked
<1>9. FetchShape'
  BY <1>1, <1>2, <1>3, <1>7, <1>8, Paths DEF FetchShape, Calm
<1>10. Bodies(shown') \subseteq Bodies(docs')
  BY <1>1, <1>2, <1>3, <1>4 DEF Kept
<1>11. Kept'
  BY <1>4, <1>5, <1>6, <1>7, <1>10 DEF Kept
<1>12. Prompt'
  BY <1>6 DEF Prompt
<1> QED BY <1>8, <1>9, <1>11, <1>12 DEF FInv, Calm

(* The candidate URLs and their links: nothing was found before.           *)
LEMMA UrlSteps ==
  ASSUME FInv, NextUrl \/ Links
  PROVE  FInv'
<1>1. RaceShape /\ FetchShape /\ Kept
  BY DEF FInv
<1>2. /\ pc \in {"url", "links"} /\ (Goto \/ UNCHANGED raceVars)
      /\ keys' = keys /\ call' = call /\ shown' = shown
      /\ pc' \in {"url", "surface", "done"}
      /\ \/ docs' = docs
         \/ pc' = "done" /\ \E t \in Targets : docs' = <<[name |-> t, of |-> t]>>
  BY DEF NextUrl, Links, To
<1>3. ~InCall /\ clicked = None /\ call = NoCall /\ InSurface
  BY <1>1, <1>2 DEF FetchShape, InCall, InSurface
<1>4. docs = <<>> /\ keys = {} /\ Bodies(shown) = {}
  BY <1>1, <1>2, <1>3, Paths DEF Kept
<1>5. ~InCall' /\ pc' \in PCs /\ pc' # "clicked" /\ pc' # "merge" /\ pc' # "links"
      /\ pc' \notin {"account", "accountTerm", "term"}
  BY <1>2 DEF InCall, PCs
<1>6. InSurface'
  BY <1>2, <1>4 DEF InSurface, Surface
<1>7. Calm
  BY <1>1, <1>2, <1>3, <1>5, NothingClicked, GotoIsCalm
<1>8. docs' \in Seq(Document)
  <2>1. CASE docs' = docs
    BY <1>1, <2>1 DEF FetchShape
  <2>2. ASSUME NEW t \in Targets, docs' = <<[name |-> t, of |-> t]>>
        PROVE  docs' \in Seq(Document)
    <3>1. PICK d : d = [name |-> t, of |-> t]
      OBVIOUS
    <3>2. d \in Document
      BY <3>1 DEF Document
    <3> QED BY <2>2, <3>1, <3>2
  <2> QED BY <1>2, <2>1, <2>2
<1>9. left' \in Left
  <2>1. CASE Links
    BY <1>1, <2>1 DEF Links, FetchShape
  <2>2. CASE NextUrl
    <3>1. left \in Left /\ left.urls \in 0..Urls /\ Urls \in Nat /\ left.urls > 0
      BY <1>1, <2>2, FetchConstants DEF FetchShape, Left, NextUrl
    <3>2. left.urls - 1 \in 0..Urls
      BY <3>1
    <3>3. left' = [left EXCEPT !.urls = left.urls - 1, !.links = TRUE]
      BY <2>2 DEF NextUrl
    <3> QED BY <3>1, <3>2, <3>3 DEF Left
  <2> QED BY <2>1, <2>2
<1>10. FetchShape'
  BY <1>1, <1>2, <1>3, <1>5, <1>7, <1>8, <1>9, Paths DEF FetchShape, Calm
<1>11. Kept'
  BY <1>2, <1>4, <1>5, <1>6 DEF Kept
<1>12. Prompt'
  BY <1>6 DEF Prompt
<1> QED BY <1>7, <1>10, <1>11, <1>12 DEF FInv, Calm

-----------------------------------------------------------------------------
(* The theorems                                                            *)

LEMMA FInvInit == Init => FInv
<1> SUFFICES ASSUME Init PROVE FInv
  OBVIOUS
<1>1. /\ clicked = None /\ racer = [r \in Racers |-> Failed] /\ queue = <<>>
      /\ inflight = {} /\ viewer = None /\ found = None /\ late = 0
      /\ pc = "goto" /\ keys = {} /\ call = NoCall /\ docs = <<>> /\ shown = <<>>
      /\ left = [centers |-> Centers, accounts |-> 0, terms |-> 0, urls |-> Urls,
                 links |-> FALSE]
  BY DEF Init, RaceInit
<1>2. RaceShape
  <2>1. /\ \A r \in Racers : RacerTyped(racer[r])
        /\ racer \in [Racers -> Racer]
    BY <1>1, RacerShapes DEF RacerTyped
  <2>2. queue \in Seq(Effect) /\ IsFiniteSet(inflight)
    BY <1>1, FS_EmptySet
  <2> QED BY <1>1, <2>1, <2>2, RaceConstants DEF RaceShape
<1>3. ~InCall /\ ~InSurface
  BY <1>1, Paths DEF InCall, InSurface, Surface
<1>4. FetchShape
  <2>1. Centers \in Nat /\ Urls \in Nat /\ Accounts \in Nat /\ Terms \in Nat
    BY FetchConstants
  <2>2. left \in Left
    BY <1>1, <2>1 DEF Left
  <2>3. docs \in Seq(Document) /\ shown \in Seq(Document)
    BY <1>1
  <2> QED BY <1>1, <1>3, <2>2, <2>3, Paths DEF FetchShape, PCs
<1>5. Kept
  BY <1>1, <1>3 DEF Kept, Begins
<1>6. Mine /\ InTurn
  BY <1>1 DEF Mine, InTurn
<1>7. Ledger
  BY <1>1, <1>3, Paths DEF Ledger, Filed, Agree
<1>8. Prompt
  BY <1>6, <1>7 DEF Prompt
<1> QED BY <1>2, <1>4, <1>5, <1>8 DEF FInv

LEMMA FInvNext == FInv /\ [Next]_vars => FInv'
<1> SUFFICES ASSUME FInv, [Next]_vars PROVE FInv'
  OBVIOUS
<1>1. ASSUME UNCHANGED vars PROVE FInv'
  <2>1. /\ clicked' = clicked /\ racer' = racer /\ queue' = queue
        /\ inflight' = inflight /\ found' = found
        /\ viewer' = viewer /\ late' = late
        /\ pc' = pc /\ left' = left /\ keys' = keys /\ call' = call
        /\ docs' = docs /\ shown' = shown
    BY <1>1 DEF vars, raceVars, fetchVars
  <2>2. RaceShape' = RaceShape /\ Mine' = Mine
    BY <2>1 DEF RaceShape, Mine
  <2>3. InCall' = InCall /\ InSurface' = InSurface /\ Open' = Open
        /\ \A t : Turn(t)' = Turn(t)
    BY <2>1 DEF InCall, InSurface, Open, Turn
  <2>4. FetchShape' = FetchShape
    BY <2>1, <2>3 DEF FetchShape
  <2>5. Kept' = Kept
    BY <2>1, <2>3 DEF Kept, Begins
  <2>6. InTurn' = InTurn
    BY <2>1, <2>3 DEF InTurn
  <2>7. Filed' = Filed /\ Ranked' = Ranked
    BY <2>1 DEF Filed, Ranked
  <2>8. Ledger' = Ledger
    BY <2>1, <2>3, <2>7 DEF Ledger
  <2>9. Prompt' = Prompt
    BY <2>1, <2>2, <2>3, <2>6, <2>8 DEF Prompt
  <2> QED BY <2>2, <2>4, <2>5, <2>9 DEF FInv
<1>2. ASSUME NEW t \in Targets, Direct(t) \/ Click(t) \/ Unclickable(t) \/ Payload(t)
      PROVE  FInv'
  BY <1>2, DirectStep, ClickStep, UnclickableStep, PayloadStep
<1>3. CASE Next
  BY <1>1, <1>2, <1>3, RaceStep, ButtonsDoneStep, CenterSteps, ListingSteps,
     MergeTargetedStep, EndSteps, MergeSurfaceStep, UrlSteps DEF Next, Ended
<1> QED BY <1>1, <1>3

THEOREM FInvHolds == Spec => []FInv
BY FInvInit, FInvNext, PTL DEF Spec

(* The user is never shown a document that the answer then lacks, and on   *)
(* the targeted path a document keeps its place: ShownIsKept of            *)
(* UsaaFetch.tla, with the types (usaa.py:1563-1566).                      *)
THEOREM ShownIsKeptProved == Spec => []ShownIsKept
<1>1. FInv => ShownIsKept
  <2> SUFFICES ASSUME FInv PROVE ShownIsKept
    OBVIOUS
  <2>1. FetchTypes
    BY DEF FInv, RaceShape, FetchShape, FetchTypes
  <2>2. Kept /\ docs \in Seq(Document) /\ shown \in Seq(Document)
    BY DEF FInv, FetchShape
  <2>3. ASSUME ~InSurface
        PROVE  Len(shown) <= Len(docs) /\ SubSeq(docs, 1, Len(shown)) = shown
    <3>1. Begins(shown, docs)
      BY <2>2, <2>3 DEF Kept
    <3>2. Len(shown) \in Nat /\ Len(docs) \in Nat
      BY <2>2
    <3>3. SubSeq(docs, 1, Len(shown)) = [i \in 1..Len(shown) |-> docs[i]]
      BY <2>2, <3>1, <3>2 DEF Begins
    <3>4. shown = [i \in 1..Len(shown) |-> shown[i]]
      BY <2>2
    <3> QED BY <3>1, <3>3, <3>4 DEF Begins
  <2>4. ASSUME pc = "done" PROVE Bodies(shown) \subseteq Bodies(docs)
    <3>1. CASE ~InSurface
      BY <2>2, <3>1, BeginsBodies DEF Kept
    <3>2. CASE InSurface
      <4>1. call = NoCall
        BY <2>4 DEF FInv, FetchShape, InCall
      <4> QED BY <2>2, <3>2, <4>1, Paths DEF Kept
    <3> QED BY <3>1, <3>2
  <2> QED BY <2>1, <2>3, <2>4 DEF ShownIsKept
<1> QED BY <1>1, FInvHolds, PTL

(* While nothing comes late or moves each selected policy has its document *)
(* in what is collected, none has two, and a document is filed under its   *)
(* own button: OneOfEachPolicy of UsaaFetch.tla (usaa.py:1531-1535,        *)
(* 1561-1562, 1580-1581, 1904-1906).                                       *)
THEOREM OneOfEachPolicyProved == Spec => []OneOfEachPolicy
<1>1. FInv => OneOfEachPolicy
  BY DEF FInv, Prompt, Ledger, Filed, Agree, Stands, OneOfEachPolicy
<1> QED BY <1>1, FInvHolds, PTL

(* Among the buttons counted before the ranking the loop takes, of each    *)
(* policy, the best that gives a document at all, and notes no other       *)
(* policy: BestOfListing of UsaaFetch.tla (usaa.py:1528-1591, 1918-1968).  *)
THEOREM BestOfListingProved == Spec => []BestOfListing
<1>1. FInv => BestOfListing
  <2> DEFINE best == FirstUnique(call.listed \ call.vain, keys)
  <2> SUFFICES ASSUME FInv, pc = "merge", call.path \in Targeted, late = 0
               PROVE  /\ Bodies(call.got) = {BodyOf[t] : t \in best}
                      /\ call.keys = keys \cup {PolicyOf[t] : t \in best}
    BY DEF BestOfListing
  <2>1. InCall /\ ~InSurface
    BY Paths DEF InCall, InSurface, Surface
  <2>2. Ranked
    BY <2>1 DEF FInv, Prompt, Ledger
  <2>3. FetchShape /\ call.ranked
    BY DEF FInv, FetchShape
  <2>4. /\ call.todo \subseteq Targets /\ call.gave \subseteq Targets
        /\ call.keys \subseteq Policies
    BY <2>3 DEF FetchShape, Call
  <2>5. call.listed \ call.vain = call.todo \cup call.gave
    BY <2>2 DEF Ranked
  <2>6. \A t \in call.todo : KindOf[t] # "none"
    BY <2>3 DEF FetchShape
  <2>7. \A t \in call.gave : KindOf[t] # "none"
    <3> TAKE t \in call.gave
    <3>1. PolicyOf[t] \in Policies
      BY <2>2, <2>4 DEF Ranked
    <3>2. t \in Targets /\ PolicyOf[t] # None
      BY <2>4, <3>1 DEF Policies
    <3> QED BY <3>2, FetchConstants
  <2>8. \A t \in call.todo : PolicyOf[t] \in keys \cup {PolicyOf[g] : g \in call.gave}
    BY <2>2, <2>3 DEF FetchShape, Open, Ranked
  <2>9. ASSUME NEW t \in call.gave PROVE t \in best
    <3>1. PolicyOf[t] \notin keys
      BY <2>2 DEF Ranked
    <3>2. ASSUME NEW u \in call.todo \cup call.gave, PolicyOf[u] = PolicyOf[t]
          PROVE  ~Before(u, t)
      <4>1. t \in Targets /\ u \in Targets
        BY <2>4
      <4>2. u \in call.gave => u = t
        BY <2>2, <3>2 DEF Ranked
      <4>3. u \in call.todo => Before(t, u)
        BY <2>2, <3>2 DEF Ranked
      <4> QED BY <4>1, <4>2, <4>3, BeforeAsymmetric
    <3> QED BY <2>5, <2>7, <3>1, <3>2 DEF FirstUnique, PolicyDocuments
  <2>10. ASSUME NEW t \in best PROVE t \in call.gave
    <3>1. /\ t \in call.todo \cup call.gave /\ PolicyOf[t] \notin keys
          /\ \A u \in call.todo \cup call.gave :
               KindOf[u] # "none" /\ PolicyOf[u] = PolicyOf[t] => ~Before(u, t)
      BY <2>5 DEF FirstUnique, PolicyDocuments
    <3>2. SUFFICES ASSUME t \in call.todo PROVE FALSE
      BY <3>1
    <3>3. PICK g \in call.gave : PolicyOf[g] = PolicyOf[t]
      BY <2>8, <3>1, <3>2
    <3>4. Before(g, t)
      BY <2>2, <3>2, <3>3 DEF Ranked
    <3> QED BY <2>7, <3>1, <3>3, <3>4
  <2> HIDE DEF best
  <2>11. best = call.gave
    BY <2>9, <2>10
  <2> QED BY <2>2, <2>11 DEF Ranked
<1> QED BY <1>1, FInvHolds, PTL
=============================================================================
