---------------------------------- MODULE Feed ----------------------------------
(***************************************************************************)
(* What one viewer is shown (store/feed.go): the feed and the order of its *)
(* authors, the rings of avatars, one author's sequence, and the change    *)
(* token; and the two statements of the handler of GET /feed, between      *)
(* which the world moves on.                                               *)
(*                                                                         *)
(* Whether blocks, hides and a Story's audience admit the viewer is the    *)
(* predicate of Interactions; here it is a set that changes.               *)
(***************************************************************************)
EXTENDS Naturals, Sequences, FiniteSets

CONSTANTS
  Authors,       \* GitHub numeric ids of authors, the viewer's among them
  Me,            \* the viewer's
  Stories,
  AuthorOf,
  DefaultLimit,  \* 25 and 50 in the code
  MaxLimit,
  MaxTime,       \* bound on the clock
  MaxFeedEvents  \* bound on what happens

ASSUME FeedAssumption ==
  /\ Authors \subseteq Nat /\ Me \in Authors
  /\ AuthorOf \in [Stories -> Authors] /\ IsFiniteSet(Stories)
  /\ {DefaultLimit, MaxLimit, MaxFeedEvents} \subseteq Nat /\ MaxTime \in Nat \ {0}

VARIABLES
  now,
  published, \* published_at, 0 before
  live,      \* published, not expired, not deleted; the author in good standing
  admitted,  \* Stories of others whose audience holds the viewer
  seen,      \* story_views of the viewer
  muted, followed, \* mutes, and the provenance of active relationships
  fetch,     \* the handler of GET /feed
  held,      \* the client's last answer
  feedEvents

feedVars == <<now, published, live, admitted, seen, muted, followed, fetch, held, feedEvents>>

Provenances == {"none", "github_import", "stories_native"}
NoAnswer == [shown |-> {}, token |-> <<0, 0>>]

FeedTypeOK ==
  /\ now \in 1..MaxTime
  /\ published \in [Stories -> 0..MaxTime]
  /\ {live, admitted, seen} \subseteq SUBSET Stories
  /\ muted \subseteq Authors \ {Me}
  /\ followed \in [Authors \ {Me} -> Provenances]
  /\ fetch \in [pc: {"idle", "token"}, shown: SUBSET Stories]
  /\ held \in [shown: SUBSET Stories, token: (0..MaxTime) \X Nat]
  /\ feedEvents \in 0..MaxFeedEvents

FeedInit ==
  /\ now = 1
  /\ published = [s \in Stories |-> 0]
  /\ live = {} /\ admitted = {} /\ seen = {} /\ muted = {}
  /\ followed = [a \in Authors \ {Me} |-> "none"]
  /\ fetch = [pc |-> "idle", shown |-> {}] /\ held = NoAnswer
  /\ feedEvents = 0

-----------------------------------------------------------------------------
(* What the statements see of a set S of Stories *)

\* visibleToViewer.
Visible(S) == {s \in S \cap live : AuthorOf[s] = Me \/ s \in admitted}

Of(S, a) == {s \in S : AuthorOf[s] = a}
Latest(S) == CHOOSE t \in {published[s] : s \in S} :
               \A s \in S : published[s] <= t
HasUnseen(S, a) == Of(S, a) \ seen # {}
ProvenanceRank(a) ==
  IF a = Me THEN 0
  ELSE IF followed[a] = "stories_native" THEN 1
  ELSE IF followed[a] = "github_import" THEN 2 ELSE 3

Bit(p) == IF p THEN 0 ELSE 1

\* Lexicographic order of tuples of numbers.
Precedes(x, y) ==
  \E k \in DOMAIN x : x[k] < y[k] /\ \A j \in 1..(k - 1) : x[j] = y[j]

\* Slip: authors are ordered by their latest Story before their provenance.
RowKeyByTime(V, s) ==
  LET a == AuthorOf[s] IN
  <<Bit(a = Me), Bit(HasUnseen(V, a)), MaxTime - Latest(Of(V, a)),
    ProvenanceRank(a), a, published[s]>>

\* ORDER BY of the feed's statement, over the visible rows V.
RowKey(V, s) ==
  LET a == AuthorOf[s] IN
  <<Bit(a = Me), Bit(HasUnseen(V, a)), ProvenanceRank(a),
    MaxTime - Latest(Of(V, a)), a, published[s]>>

\* A finite set as the sequence a strict order R, a set of pairs, makes of it: each
\* element stands where as many precede it.
Ranked(T, R) ==
  LET ahead(s) == {r \in T : <<r, s>> \in R}
  IN [i \in 1..Cardinality(T) |-> CHOOSE s \in T : Cardinality(ahead(s)) = i - 1]

\* The rows at the positions I.
Picked(rows, I) ==
  LET at == Ranked(I, {ij \in I \X I : ij[1] < ij[2]})
  IN [k \in DOMAIN at |-> rows[at[k]]]

Shown(V, includeMuted) ==
  {s \in V : includeMuted \/ AuthorOf[s] \notin muted \/ AuthorOf[s] = Me}

Rows(S, includeMuted) ==
  LET V == Visible(S)
      shown == Shown(V, includeMuted)
  IN Ranked(shown, {rs \in shown \X shown :
                      Precedes(RowKey(V, rs[1]), RowKey(V, rs[2]))})

\* The first row of each author: the authors as they come.
Order(rows) ==
  {i \in DOMAIN rows : \A j \in 1..(i - 1) : AuthorOf[rows[j]] # AuthorOf[rows[i]]}

Group(rows, a) ==
  LET items == Picked(rows, {i \in DOMAIN rows : AuthorOf[rows[i]] = a})
  IN [author |-> a, items |-> items,
      unseen |-> \E i \in DOMAIN items : items[i] \notin seen]

LimitOf(limit) == IF limit = 0 \/ limit > MaxLimit THEN DefaultLimit ELSE limit

\* Authors other than the viewer, in the loop up to row n.
OtherAuthors(rows, n) == {i \in Order(rows) : i <= n /\ AuthorOf[rows[i]] # Me}

\* The loop over the authors ends at the first one beyond the limit.
InLimit(rows, limit) ==
  {i \in Order(rows) : Cardinality(OtherAuthors(rows, i)) <= LimitOf(limit)}

Gathered(rows, limit) ==
  LET reached == InLimit(rows, limit)
      taken == Picked(rows, {i \in reached : AuthorOf[rows[i]] # Me})
  IN [groups |-> [k \in DOMAIN taken |-> Group(rows, AuthorOf[taken[k]])],
      me |-> IF \E i \in reached : AuthorOf[rows[i]] = Me THEN Group(rows, Me).items ELSE <<>>]

FeedOf(S, includeMuted, limit) == Gathered(Rows(S, includeMuted), limit)

OldestFirst(T) == Ranked(T, {rs \in T \X T : published[rs[1]] < published[rs[2]]})

\* AuthorSequence: no rows are ErrNotFound.
AuthorSequence(S, a) == Group(OldestFirst(Of(Visible(S), a)), a)

RingStatus(S, a) ==
  [active |-> Of(Visible(S), a) # {},
   unseen |-> HasUnseen(Visible(S), a),
   muted |-> a \in muted]

\* Slip: hidden Stories are counted.
FeedVersionAll(S) ==
  IF S \cap live = {} THEN <<0, 0>>
  ELSE <<Latest(S \cap live), Cardinality(S \cap live)>>

\* FeedVersion: the latest publication and the number of visible Stories.
\* deleted_at is null of every visible row.
FeedVersion(S) ==
  IF Visible(S) = {} THEN <<0, 0>>
  ELSE <<Latest(Visible(S)), Cardinality(Visible(S))>>

-----------------------------------------------------------------------------
(* The world *)

Happens == feedEvents < MaxFeedEvents /\ feedEvents' = feedEvents + 1

\* Two Stories of one author are never published at one instant.
Publish(s, admits) ==
  /\ Happens
  /\ published[s] = 0
  /\ \A r \in Of(Stories, AuthorOf[s]) : published[r] # now
  /\ published' = [published EXCEPT ![s] = now]
  /\ live' = live \cup {s}
  /\ admitted' = IF admits THEN admitted \cup {s} ELSE admitted
  /\ UNCHANGED <<now, seen, muted, followed, fetch, held>>

\* It is deleted or removed, or expires.
Withdraw(s) ==
  /\ Happens /\ s \in live
  /\ live' = live \ {s}
  /\ UNCHANGED <<now, published, admitted, seen, muted, followed, fetch, held>>

\* The graph or the audience changes for an author's Stories.
Readmit(a, in) ==
  LET theirs == {s \in Of(Stories, a) : published[s] # 0} IN
  /\ Happens /\ a # Me
  /\ admitted' = IF in THEN admitted \cup theirs ELSE admitted \ theirs
  /\ admitted' # admitted
  /\ UNCHANGED <<now, published, live, seen, muted, followed, fetch, held>>

\* Delivered media of others count as seen.
View(s) ==
  /\ Happens /\ s \in Visible(Stories) \ seen /\ AuthorOf[s] # Me
  /\ seen' = seen \cup {s}
  /\ UNCHANGED <<now, published, live, admitted, muted, followed, fetch, held>>

Mute(a) ==
  /\ Happens /\ a # Me
  /\ muted' = IF a \in muted THEN muted \ {a} ELSE muted \cup {a}
  /\ UNCHANGED <<now, published, live, admitted, seen, followed, fetch, held>>

FollowAuthor(a, provenance) ==
  /\ Happens /\ a # Me /\ followed[a] # provenance
  /\ followed' = [followed EXCEPT ![a] = provenance]
  /\ UNCHANGED <<now, published, live, admitted, seen, muted, fetch, held>>

TimeGoesOn ==
  /\ now < MaxTime
  /\ now' = now + 1
  /\ UNCHANGED <<published, live, admitted, seen, muted, followed, fetch, held, feedEvents>>

-----------------------------------------------------------------------------
(* getFeed *)

\* A request counts as two events in the bound: it changes nothing for others.
GetFeed ==
  /\ fetch.pc = "idle"
  /\ feedEvents + 2 <= MaxFeedEvents /\ feedEvents' = feedEvents + 2
  /\ fetch' = [pc |-> "token", shown |-> Visible(Stories)]
  /\ UNCHANGED <<now, published, live, admitted, seen, muted, followed, held>>

\* The token is read after the feed, and the answer sent.
GetVersion ==
  /\ fetch.pc = "token"
  /\ held' = [shown |-> fetch.shown, token |-> FeedVersion(Stories)]
  /\ fetch' = [fetch EXCEPT !.pc = "idle", !.shown = {}]
  /\ UNCHANGED <<now, published, live, admitted, seen, muted, followed, feedEvents>>

FeedNext ==
  \/ \E s \in Stories :
       \/ \E admits \in BOOLEAN : Publish(s, admits)
       \/ Withdraw(s) \/ View(s)
  \/ \E a \in Authors :
       \/ \E in \in BOOLEAN : Readmit(a, in)
       \/ Mute(a)
       \/ \E provenance \in Provenances : a # Me /\ FollowAuthor(a, provenance)
  \/ TimeGoesOn \/ GetFeed \/ GetVersion

FeedSpec == FeedInit /\ [][FeedNext]_feedVars

-----------------------------------------------------------------------------
(* Properties *)

Members(seq) == {seq[i] : i \in DOMAIN seq}

\* The order the comment promises (feed.go:24-30), of two authors in a feed.
Ahead(a, b) ==
  LET V == Visible(Stories)
      native(x) == followed[x] = "stories_native"
      import(x) == followed[x] = "github_import"
      same == HasUnseen(V, a) = HasUnseen(V, b)
  IN \/ HasUnseen(V, a) /\ ~HasUnseen(V, b)
     \/ same /\ native(a) /\ import(b)
     \/ /\ same /\ followed[a] = followed[b]
        /\ \/ Latest(Of(V, a)) > Latest(Of(V, b))
           \/ Latest(Of(V, a)) = Latest(Of(V, b)) /\ a < b

Chronological(items) ==
  \A i, j \in DOMAIN items : i < j => published[items[i]] < published[items[j]]

\* For every limit: the viewer's own Stories are there, each group is the whole
\* of what its author shows the viewer, oldest first, no author comes after one
\* it is promised to precede, and those left out are behind all that are in
\* (feed.go:22-33, 124-136).
FeedOrdered ==
  \A includeMuted \in BOOLEAN :
    LET V == Visible(Stories)
        rows == Rows(Stories, includeMuted)
        eligible == {a \in {AuthorOf[s] : s \in V} \ {Me} :
                       includeMuted \/ a \notin muted}
    IN \A limit \in 0..(MaxLimit + 1) :
       LET feed == Gathered(rows, limit)
           authors == {feed.groups[i].author : i \in DOMAIN feed.groups}
       IN
       /\ Members(feed.me) = Of(V, Me) /\ Chronological(feed.me)
       /\ authors \subseteq eligible
       /\ Len(feed.groups) = Cardinality(authors)
       /\ Len(feed.groups) < LimitOf(limit) => authors = eligible
       /\ \A i, j \in DOMAIN feed.groups :
            i < j => ~Ahead(feed.groups[j].author, feed.groups[i].author)
       /\ \A a \in authors, b \in eligible \ authors : ~Ahead(b, a)
       /\ \A i \in DOMAIN feed.groups :
            /\ Members(feed.groups[i].items) = Of(V, feed.groups[i].author)
            /\ Chronological(feed.groups[i].items)

\* The feed, the author's page and the avatar's ring, three statements, agree
\* about each author (feed.go:34, 201, 305).
RingsMatchFeed ==
  LET feed == FeedOf(Stories, TRUE, MaxLimit) IN
  \A a \in Authors \ {Me} :
    LET ring == RingStatus(Stories, a) IN
    /\ ring.active = (AuthorSequence(Stories, a).items # <<>>)
    /\ \A i \in DOMAIN feed.groups : feed.groups[i].author = a =>
         /\ feed.groups[i] = AuthorSequence(Stories, a)
         /\ ring.active /\ ring.unseen = feed.groups[i].unseen

\* "An inaccessible active Story and no Story at all ... must be
\* indistinguishable" (feed.go:299-304, 245-247): no answer changes if the Stories the
\* viewer may not see had never been.
HiddenIsAbsent ==
  LET V == Visible(Stories) IN
  /\ \A a \in Authors : /\ RingStatus(V, a) = RingStatus(Stories, a)
                        /\ AuthorSequence(V, a) = AuthorSequence(Stories, a)
  /\ FeedVersion(V) = FeedVersion(Stories)
  /\ FeedOf(V, TRUE, MaxLimit) = FeedOf(Stories, TRUE, MaxLimit)

\* What feed.go promises of the order and the limit, of the agreement of its
\* answers, and of what they do not tell.
FeedAsPromised == FeedOrdered /\ RingsMatchFeed /\ HiddenIsAbsent

-----------------------------------------------------------------------------
(* What a comment says and the code does not keep *)

\* "a cheap change token clients poll instead of refetching" (feed.go:350): while
\* the token is the one the client holds, the feed shows the Stories it holds.
TokenTellsChanges ==
  FeedVersion(Stories) = held.token => Visible(Stories) = held.shown

=============================================================================
