---------------------------------- MODULE Slugs ----------------------------------
(***************************************************************************)
(* The slugs of new articles (lib/database/mixins/friendly): before a      *)
(* session flushes the articles of a feed, it looks for a free variant of  *)
(* the slug of each, with one query after another; then it inserts them.   *)
(* A session may flush several feeds before it commits, as a poll of all   *)
(* due feeds does, and other sessions do the same meanwhile.               *)
(*                                                                         *)
(* No code changes an article through the ORM, so that every article which *)
(* is flushed is new.  What slugify and make_unique_slug spell is not      *)
(* modelled: a candidate is given by the variants that are tried, in order.*)
(***************************************************************************)
EXTENDS Naturals, SequencesExt

CONSTANTS
  Slugs,      \* slugs
  Candidates, \* what _build_candidate makes of title, guid and feed
  Variants,   \* Variants[c]: the slugs that are tried for c; none if c is empty
  Sessions,   \* database sessions that run at once
  MaxBatch    \* bound: articles in one flush

ASSUME SlugsAssumption ==
  /\ Variants \in [Candidates -> Seq(Slugs)]
  /\ MaxBatch \in Nat

VARIABLES
  rows,     \* slugs of committed articles
  fresh,    \* fresh[s]: candidates of the new articles without a slug, in order
  slugged,  \* slugged[s]: the slugs that the flush of s chose and has not inserted
  claimed,  \* claimed[s]: all the slugs that the last flush of s chose
  inserted, \* inserted[s]: the slugs of rows that s inserted and has not committed
  since     \* history: since[s], slugs that others committed since that flush began

slugVars == <<rows, fresh, slugged, claimed, inserted, since>>

\* A type for every variable.
SlugsTypeOK ==
  /\ rows \subseteq Slugs
  /\ fresh \in [Sessions -> Seq(Candidates)]
  /\ slugged \in [Sessions -> Seq(Slugs)]
  /\ claimed \in [Sessions -> SUBSET Slugs]
  /\ inserted \in [Sessions -> SUBSET Slugs]
  /\ since \in [Sessions -> SUBSET Slugs]

SlugsInit ==
  /\ rows = {}
  /\ fresh = [s \in Sessions |-> << >>]
  /\ slugged = [s \in Sessions |-> << >>]
  /\ claimed = [s \in Sessions |-> {}]
  /\ inserted = [s \in Sessions |-> {}]
  /\ since = [s \in Sessions |-> {}]

Flushing(s) == fresh[s] # << >> \/ slugged[s] # << >>

\* bulk_create: add_all and flush.  FetchFeedJob does so once in its transaction,
\* FeedPollerService for one feed after another in one transaction.
BeginFlush(s, batch) ==
  /\ ~Flushing(s) /\ batch # << >>
  /\ fresh' = [fresh EXCEPT ![s] = batch]
  /\ claimed' = [claimed EXCEPT ![s] = {}]
  /\ since' = [since EXCEPT ![s] = {}]
  /\ UNCHANGED <<rows, slugged, inserted>>

\* Mutant of Taken: exists has a transaction of its own, which does not see the
\* rows of the feeds that s flushed before.
TakenElsewhere(s) == claimed[s] \cup rows

\* exists of _resolve_unique, in the transaction of s; a flush claims slugs for
\* itself alone.
Taken(s) == claimed[s] \cup rows \cup inserted[s]

\* i is the variant of c that make_unique_slug returns.
FirstFree(s, c, i) ==
  /\ i \in DOMAIN Variants[c] /\ Variants[c][i] \notin Taken(s)
  /\ \A k \in 1..(i - 1) : Variants[c][k] \in Taken(s)

\* One round of _on_before_flush.
ChooseSlug(s) ==
  /\ fresh[s] # << >>
  /\ LET c == Head(fresh[s]) IN
       \/ /\ Variants[c] = << >>
          /\ UNCHANGED <<slugged, claimed>>
       \/ \E i \in DOMAIN Variants[c] :
            /\ FirstFree(s, c, i)
            /\ slugged' = [slugged EXCEPT ![s] = Append(@, Variants[c][i])]
            /\ claimed' = [claimed EXCEPT ![s] = @ \cup {Variants[c][i]}]
  /\ fresh' = [fresh EXCEPT ![s] = Tail(@)]
  /\ UNCHANGED <<rows, inserted, since>>

Inserting(s) == fresh[s] = << >> /\ slugged[s] # << >>

\* The session that s waits for: it inserted the same slug and may yet roll back.
WaitsFor(s, t) == s # t /\ Inserting(s) /\ Head(slugged[s]) \in inserted[t]

InsertOne(s) ==
  /\ Inserting(s)
  /\ \A t \in Sessions : ~WaitsFor(s, t)
  /\ Head(slugged[s]) \notin rows \cup inserted[s]
  /\ inserted' = [inserted EXCEPT ![s] = @ \cup {Head(slugged[s])}]
  /\ slugged' = [slugged EXCEPT ![s] = Tail(@)]
  /\ UNCHANGED <<rows, fresh, claimed, since>>

\* The transaction of s is rolled back, with all that it had flushed.
EndSession(s) ==
  /\ fresh' = [fresh EXCEPT ![s] = << >>]
  /\ slugged' = [slugged EXCEPT ![s] = << >>]
  /\ claimed' = [claimed EXCEPT ![s] = {}]
  /\ inserted' = [inserted EXCEPT ![s] = {}]
  /\ since' = [since EXCEPT ![s] = {}]
  /\ UNCHANGED rows

\* The unique index of slug refuses the row.  The failed flush leaves the session
\* with a transaction that can only be rolled back: nothing is stored of any of
\* its feeds.
InsertRefused(s) ==
  /\ Inserting(s) /\ Head(slugged[s]) \in rows \cup inserted[s]
  /\ EndSession(s)

\* Two sessions that wait for each other: PostgreSQL ends one of them.
Deadlocked(s) ==
  /\ \E t \in Sessions : WaitsFor(s, t) /\ WaitsFor(t, s)
  /\ EndSession(s)

CommitSlugs(s) ==
  /\ ~Flushing(s) /\ inserted[s] # {}
  /\ rows' = rows \cup inserted[s]
  /\ inserted' = [inserted EXCEPT ![s] = {}]
  /\ claimed' = [claimed EXCEPT ![s] = {}]
  /\ since' = [t \in Sessions |-> IF t = s THEN {} ELSE since[t] \cup inserted[s]]
  /\ UNCHANGED <<fresh, slugged>>

\* The process dies, or a later statement of the fetch raises.
Abandon(s) == (Flushing(s) \/ inserted[s] # {}) /\ EndSession(s)

SlugsNext ==
  \E s \in Sessions :
    \/ \E batch \in BoundedSeq(Candidates, MaxBatch) : BeginFlush(s, batch)
    \/ ChooseSlug(s) \/ InsertOne(s) \/ InsertRefused(s) \/ Deadlocked(s)
    \/ CommitSlugs(s) \/ Abandon(s)

SlugsSpec == SlugsInit /\ [][SlugsNext]_slugVars

-----------------------------------------------------------------------------
\* The articles of a feed are refused for a slug only when another session has
\* committed it since the flush began: neither the articles that were there
\* before, nor those of the same flush, nor those that the same transaction
\* flushed for other feeds are in their way, however many have the same title.
RefusedOnlyByOthers ==
  \A s \in Sessions :
    Inserting(s) /\ Head(slugged[s]) \in rows \cup inserted[s]
      => Head(slugged[s]) \in since[s]
================================================================================
