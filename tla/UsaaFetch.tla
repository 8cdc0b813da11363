----------------------------- MODULE UsaaFetch -----------------------------
(***************************************************************************)
(* backend/carriers/usaa.py, fetch_documents: which buttons are clicked,   *)
(* in which order, what is kept of the answers and what is shown to the    *)
(* user on the way.  First the targeted path through the document center,  *)
(* one document per policy; if that gives nothing, whatever the document   *)
(* surface of each candidate page offers.  The calls of ClickRace.tla are  *)
(* made here.                                                              *)
(*                                                                         *)
(* A listing is the set of buttons a page shows; filters and searches      *)
(* change it in ways the flow cannot know, so each is any of a set.  It is *)
(* counted first and ranked after another await, so that what was counted  *)
(* may be another listing than what is ranked.  Two buttons may give the   *)
(* same bytes: one declaration page for two policies.                      *)
(***************************************************************************)
EXTENDS ClickRace

CONSTANTS PolicyOf, DateOf, KindOf, IndexOf, \* of a button's row
          BodyOf,   \* the bytes of a button's document
          Listings, \* path -> the sets of buttons its page may show
          Centers, Accounts, Terms, Urls     \* bounds: lengths of the lists

Targeted == {"visible", "account", "accountTerm", "term"}
Surface == {"surface", "summary", "named"}

Policies == {PolicyOf[t] : t \in Targets} \ {None}

ASSUME FetchConstants ==
  /\ Listings \in [Targeted \cup Surface -> SUBSET SUBSET Targets]
  /\ {DateOf, IndexOf} \subseteq [Targets -> Nat]
  /\ KindOf \in [Targets -> {"initial", "renewal", "change", "none"}]
  /\ \A t \in Targets : KindOf[t] = "none" <=> PolicyOf[t] = None
  /\ \A t, u \in Targets : IndexOf[t] = IndexOf[u] => t = u
  /\ {Centers, Accounts, Terms, Urls} \subseteq Nat

VARIABLES pc,    \* where fetch_documents is
          left,  \* what is left of the lists it goes through
          keys,  \* selected_policy_keys before the running call
          call,  \* the running _fetch_document_buttons, or named actions
          docs,  \* all_docs
          shown  \* what the progress callback was given last

fetchVars == <<pc, left, keys, call, docs, shown>>
vars == <<raceVars, fetchVars>>

\* name: the button it was asked from; of: the button whose document it is
Document == [name : Targets, of : Targets]

\* listed, skipped: on the targeted path, the policy documents the ranking saw,
\* within the count and beyond it; todo: buttons not reached; ranked: by policy,
\* not fallback or named; keys: successful_policy_keys; got: the list of the
\* call; gave, vain: the buttons listed that gave a document, and nothing
Call == [path : Targeted \cup Surface, listed : SUBSET Targets,
         skipped : SUBSET Targets, todo : SUBSET Targets, ranked : BOOLEAN,
         keys : SUBSET Policies, got : Seq(Document), gave : SUBSET Targets,
         vain : SUBSET Targets]

NoCall == [path |-> "visible", listed |-> {}, skipped |-> {}, todo |-> {},
           ranked |-> TRUE, keys |-> {}, got |-> <<>>, gave |-> {}, vain |-> {}]

\* links: the surface is that of a candidate URL, whose links come next
Left == [centers : 0..Centers, accounts : 0..Accounts, terms : 0..Terms,
         urls : 0..Urls, links : BOOLEAN]

PCs == {"goto", "account", "accountTerm", "term", "buttons", "clicked", "merge",
        "surface", "summary", "named", "url", "links", "done", "failed"}

Init ==
  /\ RaceInit
  /\ pc = "goto" /\ keys = {} /\ call = NoCall /\ docs = <<>> /\ shown = <<>>
  /\ left = [centers |-> Centers, accounts |-> 0, terms |-> 0, urls |-> Urls,
             links |-> FALSE]

To(p) == pc' = p
Items(s) == {s[i] : i \in DOMAIN s}
----------------------------------------------------------------------------
(* Ranking                                                                 *)

Priority(k) == CASE k = "initial" -> 0 [] k = "renewal" -> 1 [] k = "change" -> 2
                 [] OTHER -> 4

\* the latest first, then by kind, then in the order of the page
Before(t, u) ==
  \/ DateOf[t] > DateOf[u]
  \/ /\ DateOf[t] = DateOf[u]
     /\ \/ Priority(KindOf[t]) < Priority(KindOf[u])
        \/ KindOf[t] = KindOf[u] /\ IndexOf[t] < IndexOf[u]

PolicyDocuments(S) == {t \in S : KindOf[t] # "none"}

\* _select_first_unique_usaa_document_candidates, which only the tests call:
\* the best button of every policy not in ks
FirstUnique(S, ks) ==
  {t \in PolicyDocuments(S) :
     PolicyOf[t] \notin ks
     /\ \A u \in PolicyDocuments(S) : PolicyOf[u] = PolicyOf[t] => ~Before(u, t)}
----------------------------------------------------------------------------
(* _fetch_document_buttons                                                 *)

\* candidate.index < count
Counted(S, n) == {t \in S : Cardinality({u \in S : IndexOf[u] < IndexOf[t]}) < n}

\* S is ranked after n buttons were counted, or cannot be ranked.  fallback_all,
\* for the surface: if there is no ranking, all buttons; the named actions are
\* not counted
Listing(path, S, n, ok) ==
  LET policy == IF ok THEN PolicyDocuments(S) ELSE {}
      ranked == path # "named" /\ (policy # {} \/ path \in Targeted)
      reached == (IF ranked THEN policy ELSE S) \cap
                 (IF path = "named" THEN S ELSE Counted(S, n))
      targeted == path \in Targeted
  IN  [NoCall EXCEPT !.path = path, !.ranked = ranked, !.todo = reached,
                     !.listed = IF targeted THEN reached ELSE {},
                     !.skipped = IF targeted THEN policy \ reached ELSE {},
                     !.keys = IF targeted THEN keys ELSE {}]

\* pages: what the page may show at each of the two awaits
List(path, pages) ==
  /\ \E C, S \in pages, ok \in BOOLEAN :
       call' = Listing(path, S, Cardinality(C), ok)
  /\ To("buttons")

\* a button whose policy has its document is passed over
Open == {t \in call.todo : call.ranked => PolicyOf[t] \notin call.keys}

\* mutant: in the order of the page
TurnByIndex(t) == t \in Open /\ \A u \in Open : IndexOf[t] <= IndexOf[u]

\* the next button
Turn(t) ==
  /\ t \in Open
  /\ \A u \in Open \ {t} : IF call.ranked THEN Before(t, u)
                                          ELSE IndexOf[t] < IndexOf[u]

Body(d) == BodyOf[d.of]

\* _merge_documents: what is there already is left out, by its sha256
Merged(target, source) ==
  LET Add[i \in 0..Len(source)] ==
        IF i = 0 THEN target
        ELSE IF \E d \in Items(Add[i - 1]) : Body(d) = Body(source[i])
             THEN Add[i - 1] ELSE Append(Add[i - 1], source[i])
  IN  Add[Len(source)]

\* mutant: the policy of a document is not noted
NoKey(t) == {}

\* successful_policy_keys.add
KeyOf(t) == IF call.ranked THEN {PolicyOf[t]} ELSE {}

\* a document is kept under the button that was asked, and the policy noted even
\* if the merge left the document out
Keep(t, u) ==
  /\ call' = [call EXCEPT !.got = Merged(@, <<[name |-> t, of |-> u]>>),
                          !.todo = @ \ {t}, !.keys = @ \cup KeyOf(t),
                          !.gave = @ \cup ({t} \cap call.listed)]
  /\ shown' = IF call.path \in Surface THEN call'.got ELSE shown

GoOn(t) ==
  /\ call' = [call EXCEPT !.todo = @ \ {t}, !.vain = @ \cup ({t} \cap call.listed)]
  /\ UNCHANGED shown

\* an open viewer is closed first, or should be; a named action does not care.
\* Then buttons.nth(index) is button u: t itself, unless the page has moved
Addressed(t, u) ==
  \E stuck \in 0..1 :
    /\ IF call.path = "named" THEN stuck = 0 /\ UNCHANGED viewer ELSE Closed(stuck)
    /\ late' = late + stuck + (IF u = t THEN 0 ELSE 1)
    /\ late' <= MaxLate

\* the button has an address that can be fetched without a click
Direct(t) ==
  /\ pc = "buttons" /\ Turn(t) /\ call.path # "named"
  /\ \E u \in Targets : Addressed(t, u) /\ Keep(t, u)
  /\ UNCHANGED <<clicked, racer, queue, inflight, found>>
  /\ UNCHANGED <<pc, left, keys, docs>>

Click(t) ==
  /\ pc = "buttons" /\ Turn(t) /\ To("clicked")
  /\ \E u \in Targets : Addressed(t, u) /\ Begin(u)
  /\ UNCHANGED <<found, left, keys, call, docs, shown>>

\* the click raises
Unclickable(t) ==
  /\ pc = "buttons" /\ Turn(t) /\ Addressed(t, t) /\ GoOn(t)
  /\ UNCHANGED <<clicked, racer, queue, inflight, found>>
  /\ UNCHANGED <<pc, left, keys, docs>>

Payload(t) ==
  /\ pc = "clicked" /\ clicked = None /\ Turn(t) /\ To("buttons")
  /\ IF found = None THEN GoOn(t) ELSE Keep(t, found)
  /\ found' = None
  /\ UNCHANGED <<clicked, racer, queue, inflight, viewer, late>>
  /\ UNCHANGED <<left, keys, docs>>

ButtonsDone ==
  /\ pc = "buttons" /\ Open = {} /\ To("merge")
  /\ UNCHANGED <<raceVars, left, keys, call, docs, shown>>
----------------------------------------------------------------------------
(* _fetch_targeted_policy_documents                                        *)

\* a center that cannot be loaded, asks for a login, or fails later on is left;
\* what it gave is kept, and so are the keys
LeaveCenter ==
  /\ pc \in {"goto", "account", "accountTerm", "term"} /\ left.centers > 0
  /\ left' = [left EXCEPT !.centers = @ - 1] /\ To("goto")
  /\ UNCHANGED <<raceVars, keys, call, docs, shown>>

\* page.goto: the viewer is gone, and what the page was still loading
Goto ==
  /\ viewer' = None /\ inflight' = {e \in inflight : e.kind = "popup"}
  /\ UNCHANGED <<clicked, racer, queue, found, late>>

VisibleListing ==
  /\ pc = "goto" /\ left.centers > 0 /\ Goto
  /\ List("visible", Listings["visible"])
  /\ UNCHANGED <<left, keys, docs, shown>>

\* how many accounts the filter offers; none if it cannot be opened
AccountValues == 0..Accounts

\* what the page shows when the filter was set to an account and a wide range
\* of dates, or when any step of that failed
Filtered == Listings["account"]

FilteredListing ==
  /\ pc = "account" /\ left.accounts > 0
  /\ left' = [left EXCEPT !.accounts = @ - 1]
  /\ List("account", Filtered)
  /\ UNCHANGED <<raceVars, keys, docs, shown>>

\* a search shows what it finds; without an input field it gives nothing, not
\* even a look at the page
Searched(path) == Listings[path] \cup {{}}

SearchListing ==
  /\ pc \in {"accountTerm", "term"} /\ left.terms > 0
  /\ left' = [left EXCEPT !.terms = @ - 1]
  /\ List(pc, Searched(pc))
  /\ UNCHANGED <<raceVars, keys, docs, shown>>

\* all accounts done: what there is, or a search over all of them
AccountsDone ==
  /\ pc = "account" /\ left.accounts = 0
  /\ left' = [left EXCEPT !.terms = Terms]
  /\ To(IF docs # <<>> THEN "done" ELSE "term")
  /\ UNCHANGED <<raceVars, keys, call, docs, shown>>

TermsDone ==
  /\ left.terms = 0
  /\ \/ pc = "accountTerm" /\ To("account") /\ UNCHANGED left
     \/ /\ pc = "term"
        /\ IF docs # <<>> THEN To("done") /\ UNCHANGED left
           ELSE To("goto") /\ left' = [left EXCEPT !.centers = @ - 1]
  /\ UNCHANGED <<raceVars, keys, call, docs, shown>>

\* mutant: the list of the last call is the answer
LastCall == call.got

Collected == Merged(docs, call.got)

\* merge of the targeted path, and what the path does next: two policies on
\* the first listing are enough, an account is done when its listing or one
\* of its searches gave something new
MergeTargeted ==
  /\ pc = "merge" /\ call.path \in Targeted
  /\ docs' = Collected /\ keys' = call.keys
  /\ shown' = IF Len(docs') > Len(docs) THEN docs' ELSE shown
  /\ CASE call.path = "visible" ->
            IF Cardinality(keys') >= 2
            THEN To("done") /\ UNCHANGED left
            ELSE To("account")
                 /\ \E n \in AccountValues : left' = [left EXCEPT !.accounts = n]
       [] call.path = "account" ->
            IF call.got # <<>>
            THEN To("account") /\ UNCHANGED left
            ELSE To("accountTerm") /\ left' = [left EXCEPT !.terms = Terms]
       [] OTHER ->
            To(call.path) /\ left' = IF keys' # keys
                                     THEN [left EXCEPT !.terms = 0] ELSE left
  /\ call' = NoCall /\ UNCHANGED raceVars

\* the targeted path returns
CentersDone ==
  /\ pc = "goto" /\ left.centers = 0
  /\ To(IF docs # <<>> THEN "done" ELSE "surface")
  /\ UNCHANGED <<raceVars, left, keys, call, docs, shown>>
----------------------------------------------------------------------------
(* _fetch_from_document_surface, and the candidate URLs                    *)

SurfaceListing ==
  /\ pc \in Surface
  /\ List(pc, Listings[pc])
  /\ UNCHANGED <<raceVars, left, keys, docs, shown>>

\* the page could not be asked for its buttons: the exception ends the fetch
SurfaceFails ==
  /\ pc \in Surface /\ To("failed")
  /\ UNCHANGED <<raceVars, left, keys, call, docs, shown>>

\* the summary row "Policy documents" may be there to be opened, or not
MergeSurface ==
  /\ pc = "merge" /\ call.path \in Surface
  /\ docs' = Collected /\ call' = NoCall
  /\ CASE call.path = "surface" -> pc' \in {"summary", "named"}
       [] call.path = "summary" -> To("named")
       [] call.path = "named" -> To(IF docs' # <<>> THEN "done"
                                    ELSE IF left.links THEN "links" ELSE "url")
  /\ UNCHANGED <<raceVars, left, keys, shown>>

\* the URL cannot be loaded, is a document itself, or has a surface
NextUrl ==
  /\ pc = "url" /\ left.urls > 0 /\ Goto
  /\ left' = [left EXCEPT !.urls = @ - 1, !.links = TRUE]
  /\ \/ pc' \in {"url", "surface"} /\ UNCHANGED docs
     \/ \E t \in Targets : docs' = <<[name |-> t, of |-> t]>> /\ To("done")
  /\ UNCHANGED <<keys, call, shown>>

\* gather: all links at once, those that fail are left out
Links ==
  /\ pc = "links"
  /\ \/ UNCHANGED docs /\ To("url")
     \/ \E t \in Targets : docs' = <<[name |-> t, of |-> t]>> /\ To("done")
  /\ UNCHANGED <<raceVars, left, keys, call, shown>>

\* RuntimeError: no links, or no link that could be fetched
NothingFound ==
  /\ pc = "url" /\ left.urls = 0 /\ To("failed")
  /\ UNCHANGED <<raceVars, left, keys, call, docs, shown>>

\* it has returned or raised; nothing else may stop it (deadlock)
Ended == pc \in {"done", "failed"} /\ UNCHANGED vars

Race ==
  \/ \E e \in inflight : Arrive(e)
  \/ Take \/ Deadline \/ NoneWins
  \/ \E r \in Racers : Resume(r) \/ Fails(r) \/ Wins(r)

Next ==
  \/ Race /\ UNCHANGED fetchVars
  \/ \E t \in Targets : Direct(t) \/ Click(t) \/ Unclickable(t) \/ Payload(t)
  \/ ButtonsDone \/ LeaveCenter \/ VisibleListing \/ FilteredListing
  \/ SearchListing \/ AccountsDone \/ TermsDone \/ MergeTargeted \/ CentersDone
  \/ SurfaceListing \/ SurfaceFails \/ MergeSurface \/ NextUrl \/ Links
  \/ NothingFound \/ Ended

Spec == Init /\ [][Next]_vars
----------------------------------------------------------------------------
\* Every variable has its type.
FetchTypes ==
  /\ clicked \in Targets \cup {None} /\ racer \in [Racers -> Racer]
  /\ queue \in Seq(Effect) /\ inflight \subseteq Effect
  /\ viewer \in Effect \cup {None} /\ found \in Targets \cup {None}
  /\ late \in 0..MaxLate /\ pc \in PCs /\ left \in Left
  /\ keys \subseteq Policies /\ call \in Call
  /\ docs \in Seq(Document) /\ shown \in Seq(Document)

Bodies(s) == {Body(d) : d \in Items(s)}

\* without a policy key the targeted path has no document, and is not over
InSurface ==
  \/ pc \in Surface \cup {"url", "links"} \/ call.path \in Surface
  \/ pc \in {"done", "failed"} /\ keys = {}

\* Types apart: what the user was shown is never taken back.  On the targeted
\* path each list shown is a beginning of what is collected, so that a document
\* keeps its id usaa-doc-n; on the surface path, where each call shows its own
\* list (usaa.py:1563-1566), an answer still holds all that was shown.
ShownIsKept ==
  /\ FetchTypes
  /\ ~InSurface =>
       Len(shown) <= Len(docs) /\ SubSeq(docs, 1, Len(shown)) = shown
  /\ pc = "done" => Bodies(shown) \subseteq Bodies(docs)

\* As long as nothing came late or moved: a selected policy has its document in
\* the answer, be it under the name of another policy whose button gave the same
\* bytes (usaa.py:1531-1535, 1561-1562, 1580-1581, 1904-1906); a document is never
\* filed under another button than its own, and of no policy there are two.  So
\* over all listings, accounts, searches and centers no policy is given up for the
\* document of another.
OneOfEachPolicy ==
  late = 0 /\ ~InSurface =>
    LET all == Items(docs) \cup Items(call.got)
    IN  /\ \A k \in keys \cup call.keys : \E t \in Targets, d \in all :
             PolicyOf[t] = k /\ BodyOf[t] = Body(d)
        /\ \A d \in all : d.of = d.name /\ PolicyOf[d.name] \in keys \cup call.keys
        /\ \A d, e \in all : PolicyOf[d.name] = PolicyOf[e.name] => d = e

\* A listing gives what _select_first_unique_usaa_document_candidates selects
\* from the buttons that were counted before the ranking and gave a document at
\* all (usaa.py:1528-1591, 1918-1968): the loop over the ranking, which skips and
\* goes on after failures, never settles for an older document of a policy while
\* it had counted a newer one, and notes no other policy.
BestOfListing ==
  pc = "merge" /\ call.path \in Targeted /\ late = 0 =>
    LET best == FirstUnique(call.listed \ call.vain, keys)
    IN  /\ Bodies(call.got) = {BodyOf[t] : t \in best}
        /\ call.keys = keys \cup {PolicyOf[t] : t \in best}
----------------------------------------------------------------------------
(* What one may expect and the code does not do                            *)

\* The newest document of a policy that the page shows is the one that is taken.
\* Rows that appear between the count and the ranking are passed over
\* (usaa.py:1496-1501, 1511, 1529-1530), and an older row may be among the counted.
NewestOfPage ==
  pc = "merge" /\ call.path \in Targeted /\ late = 0 =>
    LET best == FirstUnique((call.listed \cup call.skipped) \ call.vain, keys)
    IN  Bodies(call.got) = {BodyOf[t] : t \in best}

\* Each selected policy has a document of its own name.  Two policies whose
\* buttons give the same bytes have one document (usaa.py:1904-1906), and both
\* keys are noted.
OwnDocumentOfEachPolicy ==
  late = 0 /\ ~InSurface =>
    keys \cup call.keys =
      {PolicyOf[d.name] : d \in Items(docs) \cup Items(call.got)}
=============================================================================
