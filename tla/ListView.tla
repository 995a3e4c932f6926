-------------------------------- MODULE ListView --------------------------------
(***************************************************************************)
(* The list of articles in the browser (assets/src/js/extensions/          *)
(* pagination.0.1.0.js, as views/web/partials/lists/articles_list.html     *)
(* configures it): cursor mode, infinite scroll, append, no retries, and   *)
(* silent refreshes that a stream of server-sent events asks for.          *)
(*                                                                         *)
(* Articles are numbered in the order of the list, from its top.  Requests *)
(* are answered in any order, each from the table as it is when it is      *)
(* answered; nothing cancels one.  ArticleList is the server's side.       *)
(***************************************************************************)
EXTENDS Naturals, Sequences, SequencesExt

CONSTANTS
  Cards,  \* articles, by their place in the order
  Views,  \* the filters and searches that onFilter and applySearch set
  Limit,  \* pagination-limit
  MaxAsked, \* bound: pages that are on their way at once
  Message \* the empty or error message in place of, or after, the cards

ASSUME ListViewAssumption ==
  /\ Cards \subseteq Nat \ {0} /\ IsFiniteSet(Cards) /\ Message \notin Cards
  /\ Limit \in Nat \ {0} /\ MaxAsked \in Nat \ {0}

VARIABLES
  listing, \* listing[v]: the articles that view v lists in the table
  view,    \* config.extraParams
  mark,    \* state.cursor: the last card of the last page, 0 for null
  more,    \* state.hasMore
  loading, \* state.loading
  total,   \* state.totalLoaded
  list,    \* the children of the list element, by their key
  asked,   \* pages on their way
  asking,  \* the refresh on its way, in a set (_refreshing is that it is not empty)
  calm,    \* history: no answer disturbed the list since its last reset
  lasting  \* history: articles the view listed, unchanged, since then

viewVars == <<listing, view, mark, more, loading, total, list, asked, asking, calm, lasting>>

\* late: asked for before the last reset.  n tells requests apart.
PageRequests == [n : 1..MaxAsked, view : Views, mark : Cards \cup {0}, late : BOOLEAN]
Refreshes    == [view : Views, late : BOOLEAN]

\* A type for every variable.
ViewTypeOK ==
  /\ listing \in [Views -> SUBSET Cards] /\ view \in Views
  /\ mark \in Cards \cup {0} /\ more \in BOOLEAN /\ loading \in BOOLEAN /\ total \in Nat
  /\ list \in Seq(Cards \cup {Message})
  /\ asked \subseteq PageRequests
  /\ asking \in {{}} \cup {{r} : r \in Refreshes}
  /\ calm \in BOOLEAN /\ lasting \subseteq Cards

\* _init: autoload asks for the first page.
ViewInit ==
  /\ listing \in [Views -> SUBSET Cards] /\ view \in Views
  /\ mark = 0 /\ more = TRUE /\ loading = TRUE /\ total = 0 /\ list = << >>
  /\ asked = {[n |-> 1, view |-> view, mark |-> 0, late |-> FALSE]}
  /\ asking = {} /\ calm = TRUE /\ lasting = listing[view]

-----------------------------------------------------------------------------
Beyond(v, m) == {c \in listing[v] : c > m}

\* The numbers of S from the least on: the n-th has n - 1 before it.
Sorted(S)    == [n \in 1..Cardinality(S) |-> CHOOSE c \in S : Cardinality({d \in S : d < c}) = n - 1]
FirstOf(S)   == IF Cardinality(S) <= Limit THEN Sorted(S) ELSE SubSeq(Sorted(S), 1, Limit)

\* The elements of s in the places I, and its cards.
Picked(s, I) == [n \in 1..Cardinality(I) |-> s[Sorted(I)[n]]]
CardsIn(s)   == Picked(s, {i \in DOMAIN s : s[i] # Message})

\* loadMore's request, if there is none with its number.
AskFor(n, v, m, others) ==
  /\ n \notin {q.n : q \in others} /\ \A i \in 1..(n - 1) : i \in {q.n : q \in others}
  /\ asked' = others \cup {[n |-> n, view |-> v, mark |-> m, late |-> FALSE]}

\* Mutant of MayLoad: loadMore without its guard on loading.
MayLoadTwice == more

\* The guards of loadMore.
MayLoad == ~loading /\ more

\* loadMore, by the observer of the sentinel or by the trigger.
LoadMore ==
  /\ MayLoad
  /\ loading' = TRUE
  /\ \E n \in 1..MaxAsked : AskFor(n, view, mark, asked)
  /\ UNCHANGED <<listing, view, mark, more, total, list, asking, calm, lasting>>

\* setParams, or reload when v is the view already: the list is emptied, the state
\* reset, and the first page asked for; what is on its way stays so.
Reset(v) ==
  /\ view' = v
  /\ mark' = 0 /\ more' = TRUE /\ loading' = TRUE /\ total' = 0 /\ list' = << >>
  /\ \E n \in 1..MaxAsked : AskFor(n, v, 0, {[q EXCEPT !.late = TRUE] : q \in asked})
  /\ asking' = {[r EXCEPT !.late = TRUE] : r \in asking}
  /\ calm' = TRUE /\ lasting' = listing[v]
  /\ UNCHANGED listing

\* A page, which advances the state and is appended whatever view it is of.
PageArrives(q) ==
  LET ahead == Beyond(q.view, q.mark)
      page  == FirstOf(ahead)
  IN /\ asked' = asked \ {q}
     /\ loading' = FALSE
     /\ total' = total + Len(page)
     /\ more' = (Cardinality(ahead) > Limit)
     /\ mark' = IF Cardinality(ahead) > Limit THEN Last(page) ELSE 0
     /\ list' = IF total' = 0 THEN <<Message>> ELSE list \o page
     /\ calm' = (calm /\ ~q.late)
     /\ UNCHANGED <<listing, view, asking, lasting>>

\* The error message is appended, and a scroll may ask for the page again.
\* Bound: one such message at a time.
PageFails(q) ==
  /\ ~Contains(list, Message)
  /\ asked' = asked \ {q}
  /\ loading' = FALSE
  /\ list' = Append(list, Message)
  /\ calm' = (calm /\ ~q.late)
  /\ UNCHANGED <<listing, view, mark, more, total, asking, lasting>>

-----------------------------------------------------------------------------
\* The place of the element that oldByKey has for c: the last one.
PlaceOf(c, s) == CHOOSE i \in DOMAIN s : s[i] = c /\ \A j \in DOMAIN s : s[j] = c => j <= i

\* Mutant of PutAt: a card that is there already is patched where it is.
PutAtOnce(s, i, c) == IF Contains(s, c) THEN s ELSE InsertAt(s, i, c)

\* c becomes the i-th child, the element of that key if there is one.
PutAt(s, i, c) == InsertAt(IF Contains(s, c) THEN RemoveAt(s, PlaceOf(c, s)) ELSE s, i, c)

\* The loop of _reconcile, after its rounds 0 to Len(answer): the cards of the answer
\* are put in their places one after the other.
Placed(s, answer) ==
  LET after[i \in 0..Len(answer)] == IF i = 0 THEN s ELSE PutAt(after[i - 1], i, answer[i])
  IN after

\* Then the element of every key that the answer does not have is removed.
Stays(t, answer) ==
  {i \in DOMAIN t : t[i] = Message \/ t[i] \in ToSet(answer) \/ i # PlaceOf(t[i], t)}

\* _reconcile, for elements that carry no attributes of Alpine.  An empty answer leaves
\* no element at all.
Reconciled(s, answer) ==
  LET t == Placed(s, answer)[Len(answer)]
  IN IF answer = << >> THEN << >> ELSE Picked(t, Stays(t, answer))

\* silentRefresh: an event of the stream names the list.
StartRefresh ==
  /\ asking = {} /\ total # 0
  /\ asking' = {[view |-> view, late |-> FALSE]}
  /\ UNCHANGED <<listing, view, mark, more, loading, total, list, asked, calm, lasting>>

\* It does not set back where the next page begins: cards of the view that it drops,
\* or brings from beyond the mark, disturb the list.
Disturbs(answer) ==
  \/ (ToSet(list) \cap listing[view]) \ ToSet(answer) # {}
  \/ more /\ \E i \in DOMAIN answer : answer[i] > mark

\* The first page alone, of the view that was shown when it was asked for.
RefreshArrives(r) ==
  LET answer == FirstOf(listing[r.view])
  IN /\ asking' = {}
     /\ list' = Reconciled(list, answer)
     /\ total' = Len(answer)
     /\ calm' = (calm /\ ~r.late /\ ~Disturbs(answer))
     /\ UNCHANGED <<listing, view, mark, more, loading, asked, lasting>>

RefreshFails ==
  /\ asking # {} /\ asking' = {}
  /\ UNCHANGED <<listing, view, mark, more, loading, total, list, asked, calm, lasting>>

\* An article enters or leaves a view: it is stored, swept, read or starred.
Relist(v, c) ==
  /\ listing' = [listing EXCEPT ![v] = IF c \in @ THEN @ \ {c} ELSE @ \cup {c}]
  /\ lasting' = IF v = view THEN lasting \ {c} ELSE lasting
  /\ UNCHANGED <<view, mark, more, loading, total, list, asked, asking, calm>>

ViewNext ==
  \/ LoadMore
  \/ \E v \in Views : Reset(v)
  \/ \E q \in asked : PageArrives(q) \/ PageFails(q)
  \/ StartRefresh \/ RefreshFails
  \/ \E r \in asking : RefreshArrives(r)
  \/ \E v \in Views, c \in Cards : Relist(v, c)

ViewSpec == ViewInit /\ [][ViewNext]_viewVars

-----------------------------------------------------------------------------
\* However scrolling, reloads, views, failures and refreshes interleave, a list that
\* came to its end shows every article that its view listed all along exactly once,
\* in order - but for a list that an answer from before its last reset has disturbed,
\* or a refresh that dropped a card of the view, or brought one from beyond the mark.
EndShowsAll ==
  calm /\ ~more /\ ~loading
    => Picked(list, {i \in DOMAIN list : list[i] \in lasting}) = Sorted(lasting)

Twice(c, s) == \E i, j \in DOMAIN s : i # j /\ s[i] = c /\ s[j] = c

\* The cards are those of the page, in its order, and then at most copies of cards
\* that were there twice before.
Mirrored(cards, page, before) ==
  /\ IsPrefix(page, cards)
  /\ \A n \in DOMAIN cards : n > Len(page) => Twice(cards[n], before)

\* A refresh puts the cards that the server answered first, in their order, wherever
\* they were and whatever else was there, and leaves no other card - but for the further
\* copies of a card that was in the list more than once, as a late page makes it:
\* _reconcile knows one element of a key, and the others stay.
RefreshMirrors ==
  [][\A r \in asking :
       RefreshArrives(r) => Mirrored(CardsIn(list'), FirstOf(listing[r.view]), list)]_viewVars
=============================================================================
