---------------------------- MODULE PublicSideProofs ----------------------------
(***************************************************************************)
(* Proofs about the public side, for any projects, guests, posts and       *)
(* enquiries.  The argument is the same twice: what the first statement of *)
(* an answer has read is there to stay, whatever other requests do before  *)
(* the second.  A post is there with its photos, keeps its society, and    *)
(* once published stays published; an enquiry keeps its society.           *)
(***************************************************************************)
EXTENDS PublicSide, FiniteSetTheorems, TLAPS

\* What a feed holds, and what a guest may hold of it.
FedRight(r) ==
    \A p \in feed[r].posts :
        /\ p \in Written
        /\ posts[p].society = feed[r].society
        /\ IsStaff(feed[r].by.role) \/ posts[p].published # Never

FeedInv ==
    /\ UpdatesTypeOK /\ now \in Times /\ IsFiniteSet(Written)
    /\ draft # NoDraft => draft.id \notin Written
    /\ \A p \in Written : Shot(p, posts[p].photos) \subseteq media
    /\ \A r \in Guests : feed[r] # NoFeed => FedRight(r)
    /\ PostsAreWhole

BoardInv ==
    /\ now \in Times
    /\ enquiries \in [EnquiryIds -> Rows \cup {NoEnquiry}]
    /\ guest \in [Guests -> {Away} \cup Visits]
    /\ IsFiniteSet(Stored)
    /\ board \in {NoBoard} \cup Boards
    /\ board # NoBoard => board.rows \subseteq EnquiriesOf(board.society)
    /\ TotalCovers

\* The forms of guest g that were let through at one of the times T: those
\* stored, and the one that is on its way.
StoredBy(g, T) == {e \in Stored : enquiries[e].by = g /\ enquiries[e].sent \in T}

OnItsWay(g, T) ==
    IF guest[g].op \in {"form", "known"} /\ guest[g].since \in T THEN 1 ELSE 0

Through(g, T) == Cardinality(StoredBy(g, T)) + OnItsWay(g, T)

From(u) == {t \in Times : t >= u}

Since(g, u) == {a \in hits[g] : a.at >= u}

\* The attempts of one moment are numbered without gaps.
LogsSound ==
    /\ hits \in [Guests -> SUBSET Attempts]
    /\ \A g \in Guests :
          /\ IsFiniteSet(hits[g])
          /\ \A a \in hits[g] : a.nth <= Cardinality({b \in hits[g] : b.at = a.at})

LogsShort == \A g \in Guests : Cardinality(Recent(g)) <= MaxEnquiries

\* What came through lately is on record.
OnRecord ==
    \A g \in Guests, u \in Int :
        u > now - Window => Through(g, From(u)) <= Cardinality(Since(g, u))

PastKept ==
    \A g \in Guests, t \in Times :
        t < now => Through(g, (t - Window + 1)..t) <= MaxEnquiries

BudgetInv == LogsSound /\ LogsShort /\ OnRecord /\ PastKept

PublicInv == FeedInv /\ BoardInv /\ BudgetInv
-----------------------------------------------------------------------------
(* The feed *)

LEMMA PublicInit == ASSUME ProjectsAssumption, LeadsAssumption, Init PROVE PublicInv
<1>1. now \in Times
  BY DEF Init, Times, ProjectsAssumption
<1>2. Written = {} /\ Stored = {} /\ UpdatesTypeOK
  BY DEF Init, UpdatesInit, LeadsInit, Written, Stored, UpdatesTypeOK
<1>3. FeedInv
  BY <1>1, <1>2, FS_EmptySet DEF Init, UpdatesInit, FeedInv, PostsAreWhole, NoFeed
<1>4. BoardInv
  BY <1>1, <1>2, FS_EmptySet DEF Init, LeadsInit, BoardInv, TotalCovers, NoBoard
<1>5. BudgetInv
  <2>1. /\ hits = [g \in Guests |-> {}] /\ guest = [g \in Guests |-> Away]
        /\ MaxEnquiries \in Nat /\ Cardinality({}) = 0
    BY FS_EmptySet DEF Init, LeadsInit, LeadsAssumption
  <2>2. LogsSound
    BY <2>1, FS_EmptySet DEF LogsSound
  <2>3. ASSUME NEW g \in Guests PROVE Recent(g) = {} /\ \A u : Since(g, u) = {}
    BY <2>1 DEF Recent, Since
  <2>4. ASSUME NEW g \in Guests, NEW T PROVE Through(g, T) = 0
    <3>1. StoredBy(g, T) = {} /\ OnItsWay(g, T) = 0
      BY <1>2, <2>1 DEF StoredBy, OnItsWay, Away
    <3> QED
      BY <2>1, <3>1 DEF Through
  <2>5. \A g \in Guests, u \in Int : Through(g, From(u)) <= Cardinality(Since(g, u))
    BY <2>1, <2>3, <2>4
  <2>6. LogsShort
    BY <2>1, <2>3 DEF LogsShort
  <2> QED
    BY <2>1, <2>2, <2>4, <2>5, <2>6 DEF BudgetInv, OnRecord, PastKept
<1> QED
  BY <1>3, <1>4, <1>5 DEF PublicInv

LEMMA DraftType ==
    ASSUME UpdatesTypeOK, draft.op = "photos"
    PROVE  draft # NoDraft /\ draft \in Drafts
BY DEF UpdatesTypeOK, NoDraft

LEMMA FeedType ==
    ASSUME UpdatesTypeOK, NEW r \in Guests, feed[r] # NoFeed
    PROVE  feed[r] \in Feeds /\ feed[r].op \in {"posts", "feed"}
BY DEF UpdatesTypeOK, Feeds

\* A step of a draft changes nothing that is stored or shown.
LEMMA DraftMoves ==
    ASSUME FeedInv, NEW new \in {NoDraft} \cup Drafts, draft' = new,
           new # NoDraft => new.id \notin Written,
           UNCHANGED <<posts, media, feed, now>>
    PROVE  FeedInv'
<1>1. Written' = Written
  BY DEF Written
<1>2. UpdatesTypeOK' /\ PostsAreWhole'
  BY DEF FeedInv, UpdatesTypeOK, PostsAreWhole
<1>3. \A r \in Guests : FedRight(r) => FedRight(r)'
  BY <1>1 DEF FedRight
<1> QED
  BY <1>1, <1>2, <1>3 DEF FeedInv

LEMMA CreatePostKeeps ==
    ASSUME ProjectsAssumption, SiteUpdatesAssumption, FeedInv, UNCHANGED now,
           NEW caller \in Staff, NEW s \in Societies, NEW photos \in 0..MaxPhotos,
           NEW publish \in BOOLEAN, CreatePost(caller, s, photos, publish)
    PROVE  FeedInv'
<1>1. PICK p \in PostIds \ Written :
         draft' = [op |-> "photos", id |-> p, inserted |-> 0,
                   post |-> NewPost(s, photos, publish)]
  BY DEF CreatePost
<1>2. NewPost(s, photos, publish) \in Posts
  BY DEF NewPost, Posts, FeedInv
<1>3. 0 \in 0..MaxPhotos
  BY DEF SiteUpdatesAssumption
<1>4. draft' \in Drafts /\ draft'.id = p
  BY <1>1, <1>2, <1>3 DEF Drafts
<1>5. PICK new \in Drafts : draft' = new /\ new.id = p
  BY <1>4
<1> QED
  BY <1>1, <1>5, DraftMoves DEF CreatePost

LEMMA InsertPhotoKeeps ==
    ASSUME SiteUpdatesAssumption, FeedInv, UNCHANGED now, InsertPhoto
    PROVE  FeedInv'
<1>1. draft # NoDraft /\ draft \in Drafts
  BY DraftType DEF FeedInv, InsertPhoto
<1>2. draft.inserted \in 0..MaxPhotos /\ draft.post.photos \in 0..MaxPhotos
      /\ draft.inserted < draft.post.photos
  BY <1>1 DEF Drafts, Posts, InsertPhoto
<1>3. draft.inserted + 1 \in 0..MaxPhotos
  BY <1>2 DEF SiteUpdatesAssumption
<1>4. PICK new : new = [draft EXCEPT !.inserted = @ + 1]
  OBVIOUS
<1>5. new \in Drafts /\ new.id = draft.id
  BY <1>1, <1>3, <1>4 DEF Drafts
<1>6. draft.id \notin Written
  BY <1>1 DEF FeedInv
<1> QED
  BY <1>4, <1>5, <1>6, DraftMoves DEF InsertPhoto

LEMMA RollbackKeeps ==
    ASSUME FeedInv, UNCHANGED now, Rollback PROVE FeedInv'
BY DraftMoves DEF Rollback

\* A post arrives together with its photos.
LEMMA CommitPostKeeps ==
    ASSUME SiteUpdatesAssumption, NoPostAssumption, FeedInv, UNCHANGED now, CommitPost
    PROVE  FeedInv'
<1>0. PICK p, post, n : p = draft.id /\ post = draft.post /\ n = draft.inserted
  OBVIOUS
<1>1. /\ p \in PostIds \ Written /\ post \in Posts /\ post # NoPost
      /\ n = post.photos /\ n \in 0..MaxPhotos
  <2>1. draft # NoDraft /\ draft \in Drafts
    BY DraftType DEF FeedInv, CommitPost
  <2> QED
    BY <1>0, <2>1, NoPostAssumption DEF FeedInv, Drafts, Posts, CommitPost, NoPostAssumption
<1>2. /\ posts' = [posts EXCEPT ![p] = post]
      /\ media' = media \cup Shot(p, n) /\ draft' = NoDraft /\ UNCHANGED feed
  BY <1>0 DEF CommitPost
<1>3. posts \in [PostIds -> Posts \cup {NoPost}]
  BY DEF FeedInv, UpdatesTypeOK
<1>4. posts'[p] = post /\ \A o \in PostIds \ {p} : posts'[o] = posts[o]
  BY <1>1, <1>2, <1>3
<1>5. Written' = Written \cup {p} /\ \A o \in Written : posts'[o] = posts[o]
  BY <1>1, <1>4 DEF Written
<1>6. UpdatesTypeOK'
  <2>1. Shot(p, n) \subseteq PostIds \X (0..MaxPhotos)
    BY <1>1 DEF Shot, SiteUpdatesAssumption
  <2> QED
    BY <1>1, <1>2, <2>1 DEF FeedInv, UpdatesTypeOK
<1>7. \A o \in Written' : Shot(o, posts'[o].photos) \subseteq media'
  BY <1>1, <1>2, <1>4, <1>5 DEF FeedInv
<1>8. \A r \in Guests : FedRight(r) => FedRight(r)'
  BY <1>2, <1>5 DEF FedRight
<1>9. PostsAreWhole'
  <2>1. ASSUME NEW r \in Guests, feed[r].op = "feed", NEW o \in feed[r].posts
        PROVE  o \in Written
    BY <2>1 DEF FeedInv, FedRight, NoFeed
  <2> QED
    BY <1>2, <1>5, <2>1 DEF FeedInv, PostsAreWhole
<1>10. IsFiniteSet(Written')
  BY <1>5, FS_AddElement DEF FeedInv
<1> QED
  BY <1>2, <1>6, <1>7, <1>8, <1>9, <1>10 DEF FeedInv

\* Publishing stamps a post once; its society and its photos stand.
LEMMA PublishKeeps ==
    ASSUME SiteUpdatesAssumption, NoPostAssumption, ProjectsAssumption, FeedInv,
           UNCHANGED now, NEW caller \in Staff, NEW p \in PostIds, Publish(caller, p)
    PROVE  FeedInv'
<1>0. PICK row : row = [posts[p] EXCEPT !.published = Stamped(posts[p].published)]
  OBVIOUS
<1>1. p \in Written /\ posts[p] \in Posts /\ posts \in [PostIds -> Posts \cup {NoPost}]
  BY DEF Publish, Written, FeedInv, UpdatesTypeOK
<1>2. Stamped(posts[p].published) \in Times
  BY <1>1 DEF Stamped, Posts, FeedInv
<1>3. /\ row \in Posts /\ row.society = posts[p].society /\ row.photos = posts[p].photos
      /\ row.published \in Times
  BY <1>0, <1>1, <1>2 DEF Posts
<1>4. row # NoPost /\ row.published # Never
  BY <1>3, NoPostAssumption DEF NoPostAssumption, SiteUpdatesAssumption, Times,
                                ProjectsAssumption
<1>5. posts' = [posts EXCEPT ![p] = row] /\ UNCHANGED <<media, draft, feed>>
  BY <1>0, <1>1 DEF Publish
<1>6. /\ posts' \in [PostIds -> Posts \cup {NoPost}]
      /\ posts'[p] = row /\ \A o \in PostIds \ {p} : posts'[o] = posts[o]
  BY <1>1, <1>3, <1>5
<1>7. Written' = Written
  BY <1>1, <1>4, <1>6 DEF Written
<1>8. \A o \in Written : /\ posts'[o].society = posts[o].society
                         /\ posts'[o].photos = posts[o].photos
                         /\ posts[o].published # Never => posts'[o].published # Never
  BY <1>3, <1>4, <1>6 DEF Written
<1>9. UpdatesTypeOK'
  BY <1>5, <1>6 DEF FeedInv, UpdatesTypeOK
<1>10. \A r \in Guests : FedRight(r) => FedRight(r)'
  BY <1>5, <1>7, <1>8 DEF FedRight
<1>11. PostsAreWhole'
  <2>1. ASSUME NEW r \in Guests, feed[r].op = "feed", NEW o \in feed[r].posts
        PROVE  o \in Written
    BY <2>1 DEF FeedInv, FedRight, NoFeed
  <2> QED
    BY <1>5, <1>8, <2>1 DEF FeedInv, PostsAreWhole
<1> QED
  BY <1>5, <1>7, <1>8, <1>9, <1>10, <1>11 DEF FeedInv

\* The first statement of a feed reads posts that are there, for who may see
\* them.
LEMMA ReadPostsKeeps ==
    ASSUME FeedInv, UNCHANGED now, NEW r \in Guests, NEW s \in Societies,
           NEW caller \in Callers, ReadPosts(r, s, caller)
    PROVE  FeedInv'
<1> DEFINE staff == IsStaff(caller.role)
<1>1. PICK F, new :
         /\ F \in Newest(s, staff)
         /\ feed' = [feed EXCEPT ![r] = new]
         /\ new = [op |-> "posts", society |-> s, by |-> caller, posts |-> F, photos |-> {}]
  BY DEF ReadPosts
<1>2. UNCHANGED <<posts, media, draft>>
  BY DEF ReadPosts
<1> HIDE DEF staff
<1>3. \A p \in F : /\ p \in Written /\ posts[p].society = s
                   /\ staff \/ posts[p].published # Never
  BY <1>1 DEF Newest
<1>4. new \in Feeds
  BY <1>1, <1>3 DEF Feeds, Written
<1>5. /\ feed' \in [Guests -> {NoFeed} \cup Feeds]
      /\ feed'[r] = new /\ \A o \in Guests \ {r} : feed'[o] = feed[o]
  BY <1>1, <1>4 DEF FeedInv, UpdatesTypeOK
<1>6. Written' = Written
  BY <1>2 DEF Written
<1>7. ASSUME NEW o \in Guests, feed'[o] # NoFeed PROVE FedRight(o)'
  <2>1. CASE o = r
    <3>1. /\ feed'[o].posts = F /\ feed'[o].society = s /\ feed'[o].by = caller
          /\ posts' = posts
      BY <1>1, <1>2, <1>5, <2>1
    <3> QED
      BY <1>3, <1>6, <3>1 DEF FedRight, staff
  <2>2. CASE o # r
    BY <1>2, <1>5, <1>6, <1>7, <2>2 DEF FeedInv, FedRight
  <2> QED
    BY <2>1, <2>2
<1>8. PostsAreWhole'
  BY <1>1, <1>2, <1>5 DEF FeedInv, PostsAreWhole
<1>9. UpdatesTypeOK'
  BY <1>2, <1>5 DEF FeedInv, UpdatesTypeOK
<1> QED
  BY <1>2, <1>6, <1>7, <1>8, <1>9 DEF FeedInv

\* The second finds all their photos.
LEMMA ReadMediaKeeps ==
    ASSUME FeedInv, UNCHANGED now, NEW r \in Guests, ReadMedia(r)
    PROVE  FeedInv'
<1>1. feed[r] # NoFeed /\ feed[r] \in Feeds /\ FedRight(r)
  <2>1. feed[r] # NoFeed
    BY DEF ReadMedia, NoFeed
  <2> QED
    BY <2>1, FeedType DEF FeedInv
<1>2. PICK photos, new :
         /\ photos = {m \in media : m[1] \in feed[r].posts}
         /\ new = [feed[r] EXCEPT !.op = "feed", !.photos = photos]
  OBVIOUS
<1>3. feed' = [feed EXCEPT ![r] = new] /\ UNCHANGED <<posts, media, draft>>
  BY <1>2 DEF ReadMedia, FeedInv, UpdatesTypeOK
<1>4. /\ new \in Feeds /\ new.op = "feed" /\ new.photos = photos
      /\ new.posts = feed[r].posts /\ new.society = feed[r].society
      /\ new.by = feed[r].by
  <2>1. photos \subseteq PostIds \X (0..MaxPhotos)
    BY <1>2 DEF FeedInv, UpdatesTypeOK
  <2> QED
    BY <1>1, <1>2, <2>1 DEF Feeds
<1>5. /\ feed' \in [Guests -> {NoFeed} \cup Feeds]
      /\ feed'[r] = new /\ \A o \in Guests \ {r} : feed'[o] = feed[o]
  BY <1>3, <1>4 DEF FeedInv, UpdatesTypeOK
<1>6. Written' = Written
  BY <1>3 DEF Written
<1>7. ASSUME NEW p \in feed[r].posts PROVE Shot(p, posts[p].photos) \subseteq photos
  <2>1. Shot(p, posts[p].photos) \subseteq media
    BY <1>1 DEF FeedInv, FedRight
  <2>2. \A m \in Shot(p, posts[p].photos) : m[1] = p
    BY DEF Shot
  <2> QED
    BY <1>2, <2>1, <2>2
<1>8. PostsAreWhole'
  BY <1>3, <1>4, <1>5, <1>7 DEF FeedInv, PostsAreWhole
<1>9. ASSUME NEW o \in Guests, feed'[o] # NoFeed PROVE FedRight(o)'
  <2>1. CASE o = r
    BY <1>1, <1>3, <1>4, <1>5, <1>6, <2>1 DEF FedRight
  <2>2. CASE o # r
    BY <1>3, <1>5, <1>6, <1>9, <2>2 DEF FeedInv, FedRight
  <2> QED
    BY <2>1, <2>2
<1>10. UpdatesTypeOK'
  BY <1>3, <1>5 DEF FeedInv, UpdatesTypeOK
<1> QED
  BY <1>3, <1>6, <1>8, <1>9, <1>10 DEF FeedInv

LEMMA UpdatesStep ==
    ASSUME ProjectsAssumption, SiteUpdatesAssumption, NoPostAssumption, FeedInv,
           UNCHANGED now, UpdatesNext
    PROVE  FeedInv'
BY CreatePostKeeps, InsertPhotoKeeps, CommitPostKeeps, RollbackKeeps, PublishKeeps,
   ReadMediaKeeps DEF UpdatesNext

\* What the feed's page and the page of updates ask for.
LEMMA ReadsAreReads ==
    ASSUME BoardInv, NEW g \in Guests,
           \/ \E caller \in Callers : LoadFeed(g, caller)
           \/ \E s \in Societies, caller \in Staff : LoadUpdates(g, s, caller)
    PROVE  \E s \in Societies, caller \in Callers : ReadPosts(g, s, caller)
<1>1. ASSUME NEW caller \in Callers, LoadFeed(g, caller)
      PROVE  guest[g].society \in Societies /\ ReadPosts(g, guest[g].society, caller)
  <2>1. guest[g] \in Visits
    BY <1>1 DEF LoadFeed, BoardInv, Away
  <2> QED
    BY <1>1, <2>1 DEF LoadFeed, Visits
<1> QED
  BY <1>1 DEF LoadUpdates, Callers

\* Nothing else touches the feed.
LEMMA FeedStands == ASSUME FeedInv, UNCHANGED updateVars, now' \in Times PROVE FeedInv'
<1>1. Written' = Written /\ UNCHANGED <<posts, media, draft, feed>>
  BY DEF updateVars, Written
<1>2. UpdatesTypeOK' /\ PostsAreWhole'
  BY <1>1 DEF FeedInv, UpdatesTypeOK, PostsAreWhole
<1> QED
  BY <1>1, <1>2 DEF FeedInv, FedRight

-----------------------------------------------------------------------------
(* The board *)

\* A guest moves on.
LEMMA GuestMoves ==
    ASSUME BoardInv, NEW g \in Guests, NEW new \in {Away} \cup Visits,
           guest' = [guest EXCEPT ![g] = new], UNCHANGED <<enquiries, board, now>>
    PROVE  BoardInv'
<1>1. Stored' = Stored
  BY DEF Stored
<1> QED
  BY <1>1 DEF BoardInv, EnquiriesOf, TotalCovers

LEMMA GuestStays ==
    ASSUME BoardInv, UNCHANGED <<guest, enquiries, board>>, now' \in Times PROVE BoardInv'
<1>1. Stored' = Stored
  BY DEF Stored
<1> QED
  BY <1>1 DEF BoardInv, EnquiriesOf, TotalCovers

\* A guest who has read something is visiting a project.
LEMMA VisitType ==
    ASSUME BoardInv, NEW g \in Guests, guest[g] # Away
    PROVE  /\ guest[g] \in Visits /\ guest[g].society \in Societies
           /\ \A op \in {"slug", "page", "form", "known"} :
                 [guest[g] EXCEPT !.op = op] \in Visits
<1>1. guest[g] \in Visits
  BY DEF BoardInv
<1> QED
  BY <1>1 DEF Visits

\* An enquiry that is stored stays stored, for the same project, so that what
\* was listed is among what is counted.
LEMMA RowWritten ==
    ASSUME NoEnquiryAssumption, BoardInv, NEW e \in EnquiryIds, NEW row \in Rows,
           enquiries' = [enquiries EXCEPT ![e] = row],
           e \in Stored => row.society = enquiries[e].society,
           guest' \in [Guests -> {Away} \cup Visits], UNCHANGED <<board, now>>
    PROVE  BoardInv'
<1>1. /\ enquiries' \in [EnquiryIds -> Rows \cup {NoEnquiry}]
      /\ enquiries'[e] = row /\ \A o \in EnquiryIds \ {e} : enquiries'[o] = enquiries[o]
  BY DEF BoardInv
<1>2. row # NoEnquiry
  BY DEF NoEnquiryAssumption
<1>3. Stored' = Stored \cup {e}
  BY <1>1, <1>2 DEF Stored
<1>4. \A s \in Societies : EnquiriesOf(s) \subseteq EnquiriesOf(s)'
  <2>1. ASSUME NEW o \in Stored PROVE enquiries'[o].society = enquiries[o].society
    BY <1>1 DEF Stored
  <2> QED
    BY <1>3, <2>1 DEF EnquiriesOf
<1>5. board # NoBoard => board.society \in Societies
  BY DEF BoardInv, Boards
<1>6. IsFiniteSet(Stored')
  BY <1>3, FS_AddElement DEF BoardInv
<1> QED
  BY <1>1, <1>4, <1>5, <1>6 DEF BoardInv, TotalCovers

LEMMA SubmitKeeps ==
    ASSUME BoardInv, NEW g \in Guests, NEW isValid \in BOOLEAN, Submit(g, isValid),
           UNCHANGED now
    PROVE  BoardInv'
<1>1. guest[g] \in Visits
  <2>1. guest[g] # Away
    BY DEF Submit, Away
  <2> QED
    BY <2>1, VisitType
<1>2. PICK new : new = [guest[g] EXCEPT !.op = "form", !.since = now]
  OBVIOUS
<1>3. new \in Visits
  BY <1>1, <1>2 DEF Visits, BoardInv
<1>4. guest' = [guest EXCEPT ![g] = new] \/ UNCHANGED guest
  BY <1>2 DEF Submit, BoardInv
<1> QED
  BY <1>3, <1>4, GuestMoves, GuestStays DEF Submit, BoardInv

LEMMA GuestsKeep ==
    ASSUME BoardInv, NEW g \in Guests, UNCHANGED now,
           \/ FirstPublic(g) \/ PublicBySlug(g) \/ CheckListed(g) \/ Quit(g)
           \/ \E s \in Societies : FollowLink(g, s)
    PROVE  BoardInv'
<1>1. UNCHANGED <<enquiries, board>>
  BY DEF FirstPublic, PublicBySlug, CheckListed, Quit, FollowLink
<1>2. \E new \in {Away} \cup Visits : guest' = [guest EXCEPT ![g] = new]
  <2>1. CASE FirstPublic(g) \/ \E s \in Societies : FollowLink(g, s)
    <3>1. \A s \in Societies, op \in {"slug", "page"} :
             [op |-> op, society |-> s, since |-> now] \in Visits
      BY DEF Visits, BoardInv
    <3> QED
      BY <2>1, <3>1 DEF FirstPublic, FollowLink, Listed
  <2>2. CASE PublicBySlug(g) \/ CheckListed(g)
    <3>1. guest[g] # Away
      BY <2>2 DEF PublicBySlug, CheckListed, Away
    <3>2. \E op \in {"slug", "page", "form", "known"} : Goto(g, op) \/ Leave(g)
      BY <2>2 DEF PublicBySlug, CheckListed
    <3>3. ASSUME NEW op \in {"slug", "page", "form", "known"}, Goto(g, op)
          PROVE  guest' = [guest EXCEPT ![g] = [guest[g] EXCEPT !.op = op]]
      BY <3>3 DEF Goto
    <3> QED
      BY <3>1, <3>2, <3>3, VisitType DEF Leave
  <2>3. CASE Quit(g)
    BY <2>3 DEF Quit, Leave
  <2> QED
    BY <2>1, <2>2, <2>3
<1> QED
  BY <1>1, <1>2, GuestMoves

LEMMA InsertKeeps ==
    ASSUME NoEnquiryAssumption, LeadsAssumption, BoardInv, NEW g \in Guests, Insert(g),
           UNCHANGED now
    PROVE  BoardInv'
<1>1. guest[g] \in Visits /\ [guest[g] EXCEPT !.op = "page"] \in Visits
  <2>1. guest[g] # Away
    BY DEF Insert, Away
  <2> QED
    BY <2>1, VisitType
<1>2. guest' \in [Guests -> {Away} \cup Visits]
  BY <1>1 DEF Insert, Goto, BoardInv
<1>3. NewEnquiry(g) \in Rows
  BY <1>1 DEF NewEnquiry, Rows, Visits, LeadsAssumption
<1>4. PICK e \in EnquiryIds \ Stored : enquiries' = [enquiries EXCEPT ![e] = NewEnquiry(g)]
  BY DEF Insert
<1> QED
  BY <1>2, <1>3, <1>4, RowWritten DEF Insert

LEMMA SetStatusKeeps ==
    ASSUME NoEnquiryAssumption, ProjectsAssumption, BoardInv, NEW caller \in Staff,
           NEW e \in EnquiryIds, NEW status \in Progress, SetStatus(caller, e, status),
           UNCHANGED now
    PROVE  BoardInv'
<1>1. e \in Stored /\ enquiries[e] \in Rows
  BY DEF SetStatus, Stored, BoardInv
<1>2. caller.user \in Users
  BY DEF ProjectsAssumption, Identities
<1>3. PICK row : row = Handled(enquiries[e], caller, status)
  OBVIOUS
<1>4. row \in Rows /\ row.society = enquiries[e].society
  BY <1>1, <1>2, <1>3 DEF Handled, Rows
<1>5. enquiries' = [enquiries EXCEPT ![e] = row]
  BY <1>3 DEF SetStatus
<1>6. guest' \in [Guests -> {Away} \cup Visits]
  BY DEF SetStatus, BoardInv
<1> QED
  BY <1>4, <1>5, <1>6, RowWritten DEF SetStatus

LEMMA ListKeeps ==
    ASSUME BoardInv, NEW caller \in Staff, NEW s \in Societies, NEW asked \in SUBSET Progress,
           ListEnquiries(caller, s, asked), UNCHANGED now
    PROVE  BoardInv'
<1>1. Latest(s, asked) \subseteq EnquiriesOf(s)
  BY DEF Latest
<1>2. EnquiriesOf(s) \subseteq EnquiryIds /\ UNCHANGED <<enquiries, guest>> /\ Stored' = Stored
  BY DEF EnquiriesOf, Stored, ListEnquiries
<1>3. PICK new : new = [op |-> "listed", society |-> s, total |-> 0, rows |-> Latest(s, asked)]
  OBVIOUS
<1>4. board' = new
  BY <1>3 DEF ListEnquiries
<1>5. new \in Boards /\ new.op = "listed" /\ new.rows \subseteq EnquiriesOf(new.society)
  BY <1>1, <1>2, <1>3 DEF Boards
<1> QED
  BY <1>2, <1>4, <1>5 DEF BoardInv, EnquiriesOf, TotalCovers

\* What was listed is still there to be counted.
LEMMA CountKeeps ==
    ASSUME BoardInv, Count, UNCHANGED now PROVE BoardInv'
<1>1. board # NoBoard /\ board \in Boards /\ UNCHANGED <<enquiries, guest>> /\ Stored' = Stored
  BY DEF Count, NoBoard, BoardInv, Stored
<1>2. PICK all : all = EnquiriesOf(board.society)
  OBVIOUS
<1>3. board.rows \subseteq all /\ IsFiniteSet(all)
  BY <1>1, <1>2, FS_Subset DEF BoardInv, EnquiriesOf
<1>4. Cardinality(all) \in Nat /\ Cardinality(board.rows) <= Cardinality(all)
  BY <1>3, FS_Subset, FS_CardinalityType
<1>5. PICK new : new = [board EXCEPT !.op = "counted", !.total = Cardinality(all)]
  OBVIOUS
<1>6. board' = new
  BY <1>2, <1>5 DEF Count
<1>7. /\ new \in Boards /\ new.rows = board.rows /\ new.society = board.society
      /\ new.total = Cardinality(all)
  BY <1>1, <1>4, <1>5 DEF Boards
<1> QED
  BY <1>1, <1>2, <1>3, <1>4, <1>6, <1>7 DEF BoardInv, EnquiriesOf, TotalCovers

LEMMA LeadsStep ==
    ASSUME NoEnquiryAssumption, LeadsAssumption, ProjectsAssumption, BoardInv, LeadsNext,
           UNCHANGED now
    PROVE  BoardInv'
<1>1. ASSUME NEW s \in Societies, SetListing(s) PROVE BoardInv'
  BY <1>1, GuestStays DEF SetListing, BoardInv
<1>2. ASSUME NEW g \in Guests, TurnAway(g) PROVE BoardInv'
  BY <1>2, GuestStays DEF TurnAway, BoardInv
<1>3. ASSUME NEW caller \in Staff, NEW s \in Societies,
             NEW asked \in {Progress} \cup {{status} : status \in Progress},
             ListEnquiries(caller, s, asked)
      PROVE  BoardInv'
  <2>1. asked \in SUBSET Progress
    OBVIOUS
  <2> QED
    BY <1>3, <2>1, ListKeeps
<1>4. ASSUME NEW g \in Guests, FirstPublic(g) \/ (\E s \in Societies : FollowLink(g, s))
                               \/ PublicBySlug(g) \/ CheckListed(g) \/ Quit(g)
      PROVE  BoardInv'
  BY <1>4, GuestsKeep
<1> QED
  BY <1>1, <1>2, <1>3, <1>4, SubmitKeeps, InsertKeeps, SetStatusKeeps, CountKeeps
  DEF LeadsNext

-----------------------------------------------------------------------------
(* The budget *)

LEMMA ThroughType ==
    ASSUME BoardInv, NEW g \in Guests, NEW T
    PROVE  /\ IsFiniteSet(StoredBy(g, T)) /\ Cardinality(StoredBy(g, T)) \in Nat
           /\ OnItsWay(g, T) \in {0, 1}
           /\ Through(g, T) \in Nat
<1>1. IsFiniteSet(StoredBy(g, T))
  BY FS_Subset DEF BoardInv, StoredBy
<1>2. Cardinality(StoredBy(g, T)) \in Nat
  BY <1>1, FS_CardinalityType
<1>3. OnItsWay(g, T) \in {0, 1}
  BY DEF OnItsWay
<1> QED
  BY <1>1, <1>2, <1>3 DEF Through

LEMMA ThroughTypeNext ==
    ASSUME BoardInv', NEW g \in Guests, NEW T
    PROVE  /\ IsFiniteSet(StoredBy(g, T)') /\ Cardinality(StoredBy(g, T)') \in Nat
           /\ OnItsWay(g, T)' \in {0, 1}
           /\ Through(g, T)' \in Nat
<1>1. IsFiniteSet(StoredBy(g, T)')
  BY FS_Subset DEF BoardInv, StoredBy
<1>2. Cardinality(StoredBy(g, T)') \in Nat
  BY <1>1, FS_CardinalityType
<1>3. OnItsWay(g, T)' \in {0, 1}
  BY DEF OnItsWay
<1> QED
  BY <1>1, <1>2, <1>3 DEF Through

\* In a longer time no fewer come through.
LEMMA LongerMore ==
    ASSUME BoardInv, NEW g \in Guests, NEW U, NEW T \in SUBSET U
    PROVE  Through(g, T) <= Through(g, U)
<1>1. StoredBy(g, T) \subseteq StoredBy(g, U)
  BY DEF StoredBy
<1>2. Cardinality(StoredBy(g, T)) <= Cardinality(StoredBy(g, U))
  BY <1>1, ThroughType, FS_Subset
<1>3. OnItsWay(g, T) <= OnItsWay(g, U)
  BY DEF OnItsWay
<1> QED
  BY <1>2, <1>3, ThroughType DEF Through

\* What is within the window is what counts.
LEMMA RecentSince ==
    ASSUME ProjectsAssumption, LeadsAssumption, BoardInv, LogsSound, NEW g \in Guests
    PROVE  /\ now \in Int /\ now - Window + 1 \in Int
           /\ \A a \in hits[g] : a.at \in Int
           /\ Recent(g) = Since(g, now - Window + 1)
<1>1. now \in Int /\ Window \in Int
  BY DEF BoardInv, Times, ProjectsAssumption, LeadsAssumption
<1>2. \A a \in hits[g] : a.at \in Int
  BY DEF LogsSound, Attempts, Times, ProjectsAssumption
<1> QED
  BY <1>1, <1>2 DEF Recent, Since

LEMMA LogFinite ==
    ASSUME LogsSound, NEW g \in Guests, NEW u
    PROVE  IsFiniteSet(Since(g, u)) /\ Cardinality(Since(g, u)) \in Nat
BY FS_Subset, FS_CardinalityType DEF LogsSound, Since

\* A budget is kept in every window that is not over, since what came through in
\* it is on record, and in every one that is, since nothing is added to it.
LEMMA BudgetFollows ==
    ASSUME ProjectsAssumption, LeadsAssumption, BoardInv, BudgetInv, NEW g \in Guests,
           NEW t \in Times
    PROVE  Through(g, (t - Window + 1)..t) <= MaxEnquiries
<1>1. /\ now \in Int /\ Window \in Int /\ MaxEnquiries \in Nat /\ t \in Int
      /\ Times \subseteq Int
  BY DEF BoardInv, Times, ProjectsAssumption, LeadsAssumption
<1>2. CASE t < now
  BY <1>2 DEF BudgetInv, PastKept
<1>3. CASE t >= now
  <2> DEFINE u == t - Window + 1
  <2>1. u \in Int /\ now - Window < u
    BY <1>1, <1>3
  <2> HIDE DEF u
  <2>2. Through(g, From(u)) <= Cardinality(Since(g, u))
    BY <2>1 DEF BudgetInv, OnRecord
  <2>3. Since(g, u) \subseteq Recent(g)
    <3>1. \A a \in hits[g] : a.at \in Int
      BY RecentSince DEF BudgetInv
    <3> QED
      BY <1>1, <2>1, <3>1 DEF Since, Recent
  <2>4. IsFiniteSet(Recent(g)) /\ Cardinality(Recent(g)) <= MaxEnquiries
    BY FS_Subset DEF BudgetInv, LogsSound, LogsShort, Recent
  <2>5. Cardinality(Since(g, u)) <= Cardinality(Recent(g)) /\ Cardinality(Recent(g)) \in Nat
    BY <2>3, <2>4, FS_Subset, FS_CardinalityType
  <2>6. u..t \cap Times \subseteq From(u)
    BY <1>1, <2>1 DEF From
  <2>7. Through(g, u..t) = Through(g, u..t \cap Times)
    <3>1. \A e \in Stored : enquiries[e].sent \in Times
      BY DEF BoardInv, Stored, Rows
    <3>2. StoredBy(g, u..t) = StoredBy(g, u..t \cap Times)
      BY <3>1 DEF StoredBy
    <3>3. guest[g] # Away => guest[g].since \in Times
      BY DEF BoardInv, Visits
    <3>4. OnItsWay(g, u..t) = OnItsWay(g, u..t \cap Times)
      BY <3>3 DEF OnItsWay, Away
    <3> QED
      BY <3>2, <3>4 DEF Through
  <2>8. Through(g, u..t) <= Through(g, From(u))
    BY <2>6, <2>7, LongerMore
  <2>9. /\ Through(g, u..t) \in Nat /\ Through(g, From(u)) \in Nat
        /\ Cardinality(Since(g, u)) \in Nat
    BY ThroughType, LogFinite DEF BudgetInv
  <2>10. Through(g, u..t) <= MaxEnquiries
    BY <1>1, <2>2, <2>4, <2>5, <2>8, <2>9
  <2> QED
    BY <2>10 DEF u
<1> QED
  BY <1>1, <1>2, <1>3

\* A step of the guests' or the office's that neither adds to a log nor lets
\* anything through keeps to the budget.
LEMMA NoneLetThrough ==
    ASSUME ProjectsAssumption, LeadsAssumption, BoardInv, BoardInv', BudgetInv,
           UNCHANGED <<hits, now>>,
           \A g \in Guests : \A T : Through(g, T)' <= Through(g, T)
    PROVE  BudgetInv'
<1>1. LogsSound' /\ LogsShort'
  BY DEF BudgetInv, LogsSound, LogsShort, Recent
<1>2. ASSUME NEW g \in Guests, NEW T PROVE Through(g, T) \in Nat /\ Through(g, T)' \in Nat
  BY ThroughType, ThroughTypeNext
<1>3. OnRecord'
  <2>1. ASSUME NEW g \in Guests, NEW u \in Int, u > now - Window
        PROVE  Through(g, From(u))' <= Cardinality(Since(g, u))
    BY <1>2, <2>1, LogFinite DEF BudgetInv, OnRecord
  <2> QED
    BY <2>1 DEF OnRecord, Since, From, Times
<1>4. PastKept'
  <2>1. ASSUME NEW g \in Guests, NEW t \in Times, t < now
        PROVE  Through(g, (t - Window + 1)..t)' <= MaxEnquiries
    BY <1>2, <2>1 DEF BudgetInv, PastKept, LeadsAssumption
  <2> QED
    BY <2>1 DEF PastKept
<1> QED
  BY <1>1, <1>3, <1>4 DEF BudgetInv

\* Nothing that counts changes.
LEMMA BudgetStands ==
    ASSUME ProjectsAssumption, LeadsAssumption, BoardInv, BoardInv', BudgetInv,
           UNCHANGED <<hits, enquiries, guest, now>>
    PROVE  BudgetInv'
<1>1. ASSUME NEW g \in Guests, NEW T PROVE Through(g, T)' <= Through(g, T)
  <2>1. Through(g, T)' = Through(g, T)
    BY DEF Through, StoredBy, OnItsWay, Stored
  <2> QED
    BY <2>1, ThroughType
<1> QED
  BY <1>1, NoneLetThrough

\* A form is on its way, or is no longer.
LEMMA MovesKeepBudget ==
    ASSUME ProjectsAssumption, LeadsAssumption, BoardInv, BoardInv', BudgetInv,
           NEW g \in Guests,
           \/ FirstPublic(g) \/ PublicBySlug(g) \/ CheckListed(g) \/ Quit(g)
           \/ \E s \in Societies : FollowLink(g, s),
           UNCHANGED now
    PROVE  BudgetInv'
<1>1. UNCHANGED <<hits, enquiries>>
  BY DEF FirstPublic, PublicBySlug, CheckListed, Quit, FollowLink
<1>2. \E to : guest' = [guest EXCEPT ![g] = to]
  BY DEF FirstPublic, PublicBySlug, CheckListed, Quit, FollowLink, Goto, Leave
<1>3. guest \in [Guests -> {Away} \cup Visits]
  BY DEF BoardInv
<1>4. \A o \in Guests \ {g} : guest'[o] = guest[o]
  BY <1>2, <1>3
<1>5. guest'[g].op \in {"form", "known"} =>
         guest[g].op \in {"form", "known"} /\ guest'[g].since = guest[g].since
  <2>1. CASE FirstPublic(g) \/ \E s \in Societies : FollowLink(g, s)
    BY <1>3, <2>1 DEF FirstPublic, FollowLink
  <2>2. CASE Quit(g)
    BY <1>3, <2>2 DEF Quit, Leave, Away
  <2>3. CASE PublicBySlug(g) \/ CheckListed(g)
    <3>1. guest[g] \in Visits
      BY <1>3, <2>3 DEF PublicBySlug, CheckListed, Away
    <3>2. CASE Leave(g)
      BY <1>3, <3>2 DEF Leave, Away
    <3>3. CASE PublicBySlug(g) /\ Goto(g, "page")
      BY <1>3, <3>1, <3>3 DEF Goto, Visits
    <3>4. CASE CheckListed(g) /\ (Goto(g, "known") \/ Goto(g, "page"))
      <4>1. guest[g].op = "form" /\ guest'[g].since = guest[g].since
        BY <1>3, <3>1, <3>4 DEF CheckListed, Goto, Visits
      <4> QED
        BY <4>1
    <3> QED
      BY <2>3, <3>2, <3>3, <3>4 DEF PublicBySlug, CheckListed
  <2> QED
    BY <2>1, <2>2, <2>3
<1>6. ASSUME NEW o \in Guests, NEW T PROVE Through(o, T)' <= Through(o, T)
  <2>1. StoredBy(o, T)' = StoredBy(o, T)
    BY <1>1 DEF StoredBy, Stored
  <2>2. OnItsWay(o, T)' <= OnItsWay(o, T)
    BY <1>4, <1>5 DEF OnItsWay
  <2> QED
    BY <2>1, <2>2, ThroughType, ThroughTypeNext DEF Through
<1> QED
  BY <1>1, <1>6, NoneLetThrough

\* A form that was on its way is stored: it counts as before.
LEMMA InsertKeepsBudget ==
    ASSUME ProjectsAssumption, LeadsAssumption, NoEnquiryAssumption, BoardInv, BoardInv',
           BudgetInv, NEW g \in Guests, Insert(g), UNCHANGED now
    PROVE  BudgetInv'
<1>1. PICK e \in EnquiryIds \ Stored : enquiries' = [enquiries EXCEPT ![e] = NewEnquiry(g)]
  BY DEF Insert
<1>2. PICK row : row = NewEnquiry(g)
  OBVIOUS
<1>3. guest[g] \in Visits /\ guest[g].op = "known"
  BY DEF Insert, BoardInv, Away
<1>4. row \in Rows /\ row.by = g /\ row.sent = guest[g].since
  BY <1>2, <1>3 DEF NewEnquiry, Rows, Visits, LeadsAssumption
<1>5. enquiries'[e] = row /\ \A o \in EnquiryIds \ {e} : enquiries'[o] = enquiries[o]
  BY <1>1, <1>2 DEF BoardInv
<1>6. Stored' = Stored \cup {e}
  BY <1>1, <1>4, <1>5, NoEnquiryAssumption DEF Stored, NoEnquiryAssumption
<1>7. guest'[g].op = "page" /\ \A o \in Guests \ {g} : guest'[o] = guest[o]
  <2>1. guest' = [guest EXCEPT ![g].op = "page"]
    BY DEF Insert, Goto
  <2> QED
    BY <1>3, <2>1 DEF BoardInv, Visits
<1>8. ASSUME NEW o \in Guests, NEW T PROVE Through(o, T)' <= Through(o, T)
  <2>1. CASE o = g /\ guest[g].since \in T
    <3>1. StoredBy(o, T)' = StoredBy(o, T) \cup {e}
      BY <1>1, <1>4, <1>5, <1>6, <2>1 DEF StoredBy
    <3>2. e \notin StoredBy(o, T)
      BY <1>1 DEF StoredBy
    <3>3. Cardinality(StoredBy(o, T)') = Cardinality(StoredBy(o, T)) + 1
      BY <3>1, <3>2, ThroughType, FS_AddElement
    <3>4. OnItsWay(o, T) = 1 /\ OnItsWay(o, T)' = 0
      BY <1>3, <1>7, <2>1 DEF OnItsWay
    <3> QED
      BY <3>3, <3>4, ThroughType DEF Through
  <2>2. CASE ~(o = g /\ guest[g].since \in T)
    <3>1. StoredBy(o, T)' = StoredBy(o, T)
      BY <1>1, <1>4, <1>5, <1>6, <2>2 DEF StoredBy
    <3>2. OnItsWay(o, T)' <= OnItsWay(o, T)
      BY <1>7 DEF OnItsWay
    <3> QED
      BY <3>1, <3>2, ThroughType, ThroughTypeNext DEF Through
  <2> QED
    BY <2>1, <2>2
<1> QED
  BY <1>8, NoneLetThrough DEF Insert

\* Whatever the office makes of an enquiry, who sent it and when stands.
LEMMA SetStatusKeepsBudget ==
    ASSUME ProjectsAssumption, LeadsAssumption, NoEnquiryAssumption, BoardInv, BoardInv',
           BudgetInv, NEW caller \in Staff, NEW e \in EnquiryIds, NEW status \in Progress,
           SetStatus(caller, e, status), UNCHANGED now
    PROVE  BudgetInv'
<1>1. e \in Stored /\ enquiries[e] \in Rows
  BY DEF SetStatus, Stored, BoardInv
<1>2. caller.user \in Users
  BY DEF ProjectsAssumption, Identities
<1>3. PICK row : row = Handled(enquiries[e], caller, status)
  OBVIOUS
<1>4. row \in Rows /\ row.by = enquiries[e].by /\ row.sent = enquiries[e].sent
  BY <1>1, <1>2, <1>3 DEF Handled, Rows
<1>5. enquiries' = [enquiries EXCEPT ![e] = row]
  BY <1>3 DEF SetStatus
<1>6. enquiries'[e] = row /\ \A o \in EnquiryIds \ {e} : enquiries'[o] = enquiries[o]
  BY <1>5 DEF BoardInv
<1>7. Stored' = Stored
  BY <1>1, <1>4, <1>6, NoEnquiryAssumption DEF Stored, NoEnquiryAssumption
<1>8. ASSUME NEW g \in Guests, NEW T PROVE Through(g, T)' <= Through(g, T)
  <2>1. StoredBy(g, T)' = StoredBy(g, T)
    <3>1. ASSUME NEW o \in Stored
          PROVE  enquiries'[o].by = enquiries[o].by /\ enquiries'[o].sent = enquiries[o].sent
      BY <1>4, <1>6 DEF Stored
    <3> QED
      BY <1>7, <3>1 DEF StoredBy
  <2>2. Through(g, T)' = Through(g, T)
    BY <2>1 DEF Through, OnItsWay, SetStatus
  <2> QED
    BY <2>2, ThroughType
<1> QED
  BY <1>8, NoneLetThrough DEF SetStatus

\* Expired attempts go, which no window that is not over holds.
LEMMA TurnAwayKeepsBudget ==
    ASSUME ProjectsAssumption, LeadsAssumption, BoardInv, BoardInv', BudgetInv,
           NEW g \in Guests, TurnAway(g), UNCHANGED now
    PROVE  BudgetInv'
<1>1. /\ hits' = [hits EXCEPT ![g] = Recent(g)]
      /\ UNCHANGED <<enquiries, guest>>
  BY DEF TurnAway
<1>2. LogsSound /\ LogsShort
  BY DEF BudgetInv
<1>3. hits'[g] = Recent(g) /\ \A o \in Guests \ {g} : hits'[o] = hits[o]
  BY <1>1, <1>2 DEF LogsSound
<1>4. LogsSound'
  <2>1. Recent(g) \subseteq hits[g] /\ IsFiniteSet(Recent(g))
    BY <1>2, FS_Subset DEF LogsSound, Recent
  <2>2. hits' \in [Guests -> SUBSET Attempts]
    BY <1>1, <1>2, <2>1 DEF LogsSound
  <2>3. ASSUME NEW a \in Recent(g)
        PROVE  {b \in Recent(g) : b.at = a.at} = {b \in hits[g] : b.at = a.at}
    BY DEF Recent
  <2> QED
    BY <1>2, <1>3, <2>1, <2>2, <2>3 DEF LogsSound
<1>5. \A o \in Guests : Recent(o)' = Recent(o)
  BY <1>3 DEF Recent
<1>6. LogsShort'
  BY <1>2, <1>5 DEF LogsShort
<1>7. ASSUME NEW o \in Guests, NEW u \in Int, u > now - Window
      PROVE  Since(o, u)' = Since(o, u)
  <2>1. now \in Int /\ Window \in Int /\ \A a \in hits[g] : a.at \in Int
    BY <1>2, RecentSince
  <2> QED
    BY <1>3, <1>7, <2>1 DEF Since, Recent
<1>8. \A o \in Guests : \A T : Through(o, T)' = Through(o, T)
  BY <1>1 DEF Through, StoredBy, OnItsWay, Stored
<1>9. OnRecord' /\ PastKept'
  BY <1>7, <1>8 DEF BudgetInv, OnRecord, PastKept, From, Times
<1> QED
  BY <1>4, <1>6, <1>9 DEF BudgetInv

\* An attempt that is recorded counts.
LEMMA RecordedCounts ==
    ASSUME ProjectsAssumption, LeadsAssumption, BoardInv, LogsSound, NEW g \in Guests
    PROVE  \E a \in Attempts :
              /\ a.at = now /\ a \notin hits[g]
              /\ a.nth = Cardinality({b \in Recent(g) : b.at = now}) + 1
              /\ Recorded(Recent(g)) = Recent(g) \cup {a}
<1> DEFINE these == {b \in Recent(g) : b.at = now}
<1>1. /\ now \in Times /\ now \in Int /\ Window \in Nat \ {0}
  BY RecentSince DEF BoardInv, LeadsAssumption
<1>2. these = {b \in hits[g] : b.at = now}
  BY <1>1 DEF Recent
<1>3. IsFiniteSet(these) /\ Cardinality(these) \in Nat
  BY <1>2, FS_Subset, FS_CardinalityType DEF LogsSound
<1>4. PICK a : a = [at |-> now, nth |-> Cardinality(these) + 1]
  OBVIOUS
<1>5. a \in Attempts /\ a.at = now /\ a.nth = Cardinality(these) + 1
  BY <1>1, <1>3, <1>4 DEF Attempts
<1>6. Recorded(Recent(g)) = Recent(g) \cup {a}
  BY <1>4 DEF Recorded
<1>7. a \notin hits[g]
  <2>1. \A b \in hits[g] : b.at = now => b.nth <= Cardinality(these)
    BY <1>2 DEF LogsSound
  <2> HIDE DEF these
  <2> QED
    BY <1>3, <1>5, <2>1
<1> QED
  BY <1>5, <1>6, <1>7

\* What the sweep drops lies in no window that is not over.
LEMMA SweepDrops ==
    ASSUME NEW map, NEW g \in Guests, DOMAIN map = Guests
    PROVE  \/ Swept(map)[g] = map[g]
           \/ Swept(map)[g] = {} /\ \A a \in map[g] : a.at < now - Window
BY DEF Swept

LEMMA SweptType ==
    ASSUME NEW map \in [Guests -> SUBSET Attempts]
    PROVE  Swept(map) \in [Guests -> SUBSET Attempts]
BY DEF Swept

\* A form that is let through is on record, and there was budget for it.
LEMMA SubmitKeepsBudget ==
    ASSUME ProjectsAssumption, LeadsAssumption, BoardInv, BoardInv', BudgetInv,
           NEW g \in Guests, NEW isValid \in BOOLEAN, Submit(g, isValid), UNCHANGED now
    PROVE  BudgetInv'
<1>1. LogsSound /\ LogsShort /\ OnRecord /\ PastKept
  BY DEF BudgetInv
<1>2. /\ now \in Int /\ Window \in Nat \ {0} /\ MaxEnquiries \in Nat
      /\ \A o \in Guests : \A a \in hits[o] : a.at \in Int
      /\ now \in Times
  BY <1>1, RecentSince DEF LeadsAssumption, BoardInv
<1>3. PICK a \in Attempts :
         /\ a.at = now /\ a \notin hits[g]
         /\ a.nth = Cardinality({b \in Recent(g) : b.at = now}) + 1
         /\ Recorded(Recent(g)) = Recent(g) \cup {a}
  BY <1>1, RecordedCounts
<1>4. PICK log : log = Recent(g) \cup {a}
  OBVIOUS
<1>5. PICK map : map = [hits EXCEPT ![g] = log]
  OBVIOUS
<1>6. /\ HasBudget(g) /\ UNCHANGED enquiries
      /\ hits' = Swept(map)
  BY <1>3, <1>4, <1>5 DEF Submit
<1>7. /\ map \in [Guests -> SUBSET Attempts] /\ DOMAIN map = Guests
      /\ map[g] = log /\ \A o \in Guests \ {g} : map[o] = hits[o]
  BY <1>1, <1>3, <1>4, <1>5 DEF LogsSound, Recent
<1>8. ASSUME NEW o \in Guests
      PROVE  \/ hits'[o] = map[o]
             \/ o # g /\ hits'[o] = {} /\ \A b \in map[o] : b.at < now - Window
  <2>1. \/ hits'[o] = map[o]
        \/ hits'[o] = {} /\ \A b \in map[o] : b.at < now - Window
    BY <1>6, <1>7, SweepDrops
  <2>2. a \in map[g] /\ ~(a.at < now - Window)
    BY <1>2, <1>3, <1>4, <1>7
  <2> QED
    BY <2>1, <2>2
<1>9. /\ IsFiniteSet(Recent(g)) /\ Cardinality(Recent(g)) \in Nat
      /\ IsFiniteSet(log) /\ Cardinality(log) = Cardinality(Recent(g)) + 1
  <2>1. Recent(g) \subseteq hits[g]
    BY DEF Recent
  <2>2. IsFiniteSet(Recent(g)) /\ Cardinality(Recent(g)) \in Nat
    BY <1>1, <2>1, FS_Subset, FS_CardinalityType DEF LogsSound
  <2> QED
    BY <1>3, <1>4, <2>1, <2>2, FS_AddElement
<1>10. LogsSound'
  <2>1. ASSUME NEW b \in log PROVE b.nth <= Cardinality({c \in log : c.at = b.at})
    <3>1. CASE b.at = now
      <4> DEFINE these == {c \in Recent(g) : c.at = now}
      <4>1. {c \in log : c.at = b.at} = these \cup {a}
        BY <1>3, <1>4, <3>1
      <4>2. IsFiniteSet(these) /\ Cardinality(these) \in Nat
        BY <1>9, FS_Subset, FS_CardinalityType
      <4>3. a \notin these
        BY <1>3 DEF Recent
      <4>4. Cardinality(these \cup {a}) = Cardinality(these) + 1
        BY <4>2, <4>3, FS_AddElement
      <4>5. \A c \in these : c.nth \in Nat /\ c.nth <= Cardinality(these)
        <5>1. these = {c \in hits[g] : c.at = now}
          BY <1>2 DEF Recent
        <5>2. \A c \in hits[g] : c.nth \in Nat
          BY <1>1 DEF LogsSound, Attempts
        <5> QED
          BY <1>1, <5>1, <5>2 DEF LogsSound
      <4>6. a.nth = Cardinality(these) + 1
        BY <1>3
      <4>7. b \in these \cup {a}
        BY <1>4, <3>1
      <4>8. Cardinality({c \in log : c.at = b.at}) = Cardinality(these) + 1
        BY <4>1, <4>4
      <4> HIDE DEF these
      <4>9. b.nth <= Cardinality(these) + 1
        BY <4>2, <4>5, <4>6, <4>7
      <4> QED
        BY <4>8, <4>9
    <3>2. CASE b.at # now
      <4>1. b \in Recent(g)
        BY <1>3, <1>4, <3>2
      <4>2. {c \in log : c.at = b.at} = {c \in hits[g] : c.at = b.at}
        BY <1>3, <1>4, <3>2, <4>1 DEF Recent
      <4> QED
        BY <1>1, <4>1, <4>2 DEF LogsSound, Recent
    <3> QED
      BY <3>1, <3>2
  <2>2. hits' \in [Guests -> SUBSET Attempts]
    BY <1>6, <1>7, SweptType
  <2>3. ASSUME NEW o \in Guests
        PROVE  /\ IsFiniteSet(hits'[o])
               /\ \A b \in hits'[o] : b.nth <= Cardinality({c \in hits'[o] : c.at = b.at})
    <3>1. CASE hits'[o] = {}
      BY <3>1, FS_EmptySet
    <3>2. CASE hits'[o] # {} /\ o = g
      <4>1. hits'[o] = log
        BY <1>7, <1>8, <3>2
      <4> QED
        BY <1>9, <2>1, <4>1
    <3>3. CASE hits'[o] # {} /\ o # g
      <4>1. hits'[o] = hits[o]
        BY <1>7, <1>8, <3>3
      <4> QED
        BY <1>1, <4>1 DEF LogsSound
    <3> QED
      BY <3>1, <3>2, <3>3
  <2> QED
    BY <2>2, <2>3 DEF LogsSound
<1>11. /\ \A o \in Guests \ {g}, u \in Int : u > now - Window => Since(o, u)' = Since(o, u)
       /\ \A u \in Int : u > now - Window =>
             Since(g, u)' = IF u <= now THEN Since(g, u) \cup {a} ELSE Since(g, u)
  <2>1. ASSUME NEW o \in Guests \ {g}, NEW u \in Int, u > now - Window
        PROVE  Since(o, u)' = Since(o, u)
    <3>1. CASE hits'[o] = hits[o]
      BY <3>1 DEF Since
    <3>2. CASE hits'[o] = {} /\ \A b \in hits[o] : b.at < now - Window
      BY <1>2, <2>1, <3>2 DEF Since
    <3> QED
      BY <1>7, <1>8, <3>1, <3>2
  <2>2. ASSUME NEW u \in Int, u > now - Window
        PROVE  Since(g, u)' = IF u <= now THEN Since(g, u) \cup {a} ELSE Since(g, u)
    <3>1. hits'[g] = log
      BY <1>7, <1>8
    <3>2. \A b \in hits[g] : b.at >= u => b \in Recent(g)
      BY <1>2, <2>2 DEF Recent
    <3>3. Since(g, u)' = {b \in log : b.at >= u}
      BY <3>1 DEF Since
    <3>4. {b \in Recent(g) : b.at >= u} = Since(g, u)
      BY <3>2 DEF Since, Recent
    <3> QED
      BY <1>2, <1>3, <1>4, <3>3, <3>4
  <2> QED
    BY <2>1, <2>2
<1>12. LogsShort'
  <2>1. Recent(g)' \subseteq log
    <3>1. hits'[g] = log
      BY <1>7, <1>8
    <3> QED
      BY <3>1 DEF Recent
  <2>2. Cardinality(log) <= MaxEnquiries
    BY <1>2, <1>6, <1>9 DEF HasBudget
  <2>3. Cardinality(Recent(g)') <= MaxEnquiries
    <3>1. Cardinality(Recent(g)') <= Cardinality(log) /\ Cardinality(Recent(g)') \in Nat
      BY <1>9, <2>1, FS_Subset, FS_CardinalityType
    <3> QED
      BY <1>2, <1>9, <2>2, <3>1
  <2>4. ASSUME NEW o \in Guests \ {g} PROVE Cardinality(Recent(o)') <= MaxEnquiries
    <3>1. CASE hits'[o] = hits[o]
      BY <1>1, <3>1 DEF LogsShort, Recent
    <3>2. CASE hits'[o] = {}
      BY <1>2, <3>2, FS_EmptySet DEF Recent
    <3> QED
      BY <1>7, <1>8, <3>1, <3>2
  <2> QED
    BY <2>3, <2>4 DEF LogsShort
<1>13. guest[g] \in Visits /\ guest[g].op = "page" /\ guest \in [Guests -> {Away} \cup Visits]
  BY DEF Submit, BoardInv, Away
<1>14. /\ \A o \in Guests \ {g} : guest'[o] = guest[o]
       /\ guest'[g].op \in {"form", "known"} => guest'[g].since = now
  <2>1. \/ guest' = guest
        \/ guest' = [guest EXCEPT ![g].op = "form", ![g].since = now]
    BY DEF Submit
  <2>2. CASE guest' = guest
    BY <1>13, <2>2
  <2>3. CASE guest' = [guest EXCEPT ![g].op = "form", ![g].since = now]
    BY <1>13, <2>3 DEF Visits
  <2> QED
    BY <2>1, <2>2, <2>3
<1>15. ASSUME NEW o \in Guests, NEW T
       PROVE  /\ Through(o, T)' <= Through(o, T) + 1
              /\ o # g \/ now \notin T => Through(o, T)' = Through(o, T)
  <2>1. StoredBy(o, T)' = StoredBy(o, T)
    BY <1>6 DEF StoredBy, Stored
  <2>2. OnItsWay(o, T)' \in {0, 1} /\ OnItsWay(o, T) \in {0, 1}
    BY ThroughType, ThroughTypeNext
  <2>3. o # g \/ now \notin T => OnItsWay(o, T)' = OnItsWay(o, T)
    <3>1. CASE o # g
      BY <1>14, <3>1 DEF OnItsWay
    <3>2. CASE o = g /\ now \notin T
      BY <1>13, <1>14, <3>2 DEF OnItsWay
    <3> QED
      BY <3>1, <3>2
  <2> QED
    BY <2>1, <2>2, <2>3, ThroughType DEF Through
<1>16. OnRecord'
  <2>1. ASSUME NEW o \in Guests, NEW u \in Int, u > now - Window
        PROVE  Through(o, From(u))' <= Cardinality(Since(o, u)')
    <3>1. /\ Through(o, From(u)) <= Cardinality(Since(o, u))
          /\ IsFiniteSet(Since(o, u)) /\ Cardinality(Since(o, u)) \in Nat
          /\ Through(o, From(u)) \in Nat /\ Through(o, From(u))' \in Nat
      BY <1>1, <2>1, LogFinite, ThroughType, ThroughTypeNext DEF OnRecord
    <3>2. CASE o = g /\ u <= now
      <4>1. a \notin Since(g, u)
        BY <1>3 DEF Since
      <4>2. Since(g, u)' = Since(g, u) \cup {a}
        BY <1>11, <2>1, <3>2
      <4>3. Cardinality(Since(g, u)') = Cardinality(Since(g, u)) + 1
        BY <3>1, <3>2, <4>1, <4>2, FS_AddElement
      <4>4. Through(o, From(u))' <= Through(o, From(u)) + 1
        BY <1>15
      <4> QED
        BY <3>1, <3>2, <4>3, <4>4
    <3>3. CASE ~(o = g /\ u <= now)
      <4>1. Since(o, u)' = Since(o, u)
        BY <1>11, <2>1, <3>3
      <4>2. o # g \/ now \notin From(u)
        BY <1>2, <2>1, <3>3 DEF From
      <4>3. Through(o, From(u))' = Through(o, From(u))
        BY <1>15, <4>2
      <4> QED
        BY <3>1, <4>1, <4>3
    <3> QED
      BY <3>2, <3>3
  <2> QED
    BY <2>1 DEF OnRecord, From, Times
<1>17. PastKept'
  <2>1. ASSUME NEW o \in Guests, NEW t \in Times, t < now
        PROVE  Through(o, (t - Window + 1)..t)' <= MaxEnquiries
    <3>1. now \notin (t - Window + 1)..t
      BY <1>2, <2>1 DEF Times, ProjectsAssumption
    <3> QED
      BY <1>1, <1>15, <2>1, <3>1 DEF PastKept
  <2> QED
    BY <2>1 DEF PastKept
<1> QED
  BY <1>10, <1>12, <1>16, <1>17 DEF BudgetInv

\* The clock ticks: the window that ends has kept to the budget.
LEMMA TickKeepsBudget ==
    ASSUME ProjectsAssumption, LeadsAssumption, BoardInv, BoardInv', BudgetInv, Tick
    PROVE  BudgetInv'
<1>1. LogsSound /\ LogsShort /\ OnRecord /\ PastKept
  BY DEF BudgetInv
<1>2. /\ now \in Int /\ now' = now + 1 /\ Window \in Nat \ {0} /\ MaxEnquiries \in Nat
      /\ now \in Times
      /\ \A g \in Guests : \A a \in hits[g] : a.at \in Int
  BY <1>1, RecentSince DEF LeadsAssumption, BoardInv, Tick
<1>3. UNCHANGED <<hits, enquiries, guest>>
  BY DEF Tick, leadVars
<1>4. \A g \in Guests : \A T : Through(g, T)' = Through(g, T)
  BY <1>3 DEF Through, StoredBy, OnItsWay, Stored
<1>5. LogsSound'
  BY <1>1, <1>3 DEF LogsSound
<1>6. LogsShort'
  <2>1. ASSUME NEW g \in Guests PROVE Cardinality(Recent(g)') <= MaxEnquiries
    <3>1. Recent(g)' \subseteq Recent(g)
      BY <1>2, <1>3 DEF Recent
    <3>2. IsFiniteSet(Recent(g)) /\ Cardinality(Recent(g)) <= MaxEnquiries
      BY <1>1, FS_Subset DEF LogsSound, LogsShort, Recent
    <3>3. /\ Cardinality(Recent(g)') <= Cardinality(Recent(g))
          /\ Cardinality(Recent(g)) \in Nat /\ Cardinality(Recent(g)') \in Nat
      BY <3>1, <3>2, FS_Subset, FS_CardinalityType
    <3> QED
      BY <1>2, <3>2, <3>3
  <2> QED
    BY <2>1 DEF LogsShort
<1>7. OnRecord'
  BY <1>1, <1>2, <1>3, <1>4 DEF OnRecord, From, Since, Times
<1>8. PastKept'
  <2>1. ASSUME NEW g \in Guests, NEW t \in Times, t < now + 1
        PROVE  Through(g, (t - Window + 1)..t) <= MaxEnquiries
    BY BudgetFollows
  <2> QED
    BY <1>2, <1>4, <2>1 DEF PastKept, Times
<1> QED
  BY <1>5, <1>6, <1>7, <1>8 DEF BudgetInv

-----------------------------------------------------------------------------

LEMMA LeadsBudget ==
    ASSUME NoEnquiryAssumption, LeadsAssumption, ProjectsAssumption, BoardInv, BoardInv',
           BudgetInv, LeadsNext, UNCHANGED now
    PROVE  BudgetInv'
<1>1. ASSUME NEW s \in Societies, SetListing(s) PROVE BudgetInv'
  BY <1>1, BudgetStands DEF SetListing
<1>2. ASSUME NEW caller \in Staff, NEW s \in Societies, NEW asked,
             ListEnquiries(caller, s, asked)
      PROVE  BudgetInv'
  BY <1>2, BudgetStands DEF ListEnquiries
<1>3. CASE Count
  BY <1>3, BudgetStands DEF Count
<1>4. ASSUME NEW g \in Guests, FirstPublic(g) \/ (\E s \in Societies : FollowLink(g, s))
                               \/ PublicBySlug(g) \/ CheckListed(g) \/ Quit(g)
      PROVE  BudgetInv'
  BY <1>4, MovesKeepBudget
<1> QED
  BY <1>1, <1>2, <1>3, <1>4, SubmitKeepsBudget, TurnAwayKeepsBudget, InsertKeepsBudget,
     SetStatusKeepsBudget
  DEF LeadsNext

-----------------------------------------------------------------------------

LEMMA PublicStep ==
    ASSUME NoEnquiryAssumption, NoPostAssumption, LeadsAssumption, SiteUpdatesAssumption,
           ProjectsAssumption, PublicInv, [Next]_vars
    PROVE  PublicInv'
<1>1. FeedInv /\ BoardInv /\ BudgetInv /\ now \in Times
  BY DEF PublicInv, FeedInv
<1>2. CASE LeadsNext /\ UNCHANGED <<updateVars, now>>
  <2>1. FeedInv' /\ BoardInv'
    BY <1>1, <1>2, LeadsStep, FeedStands
  <2> QED
    BY <1>1, <1>2, <2>1, LeadsBudget DEF PublicInv
<1>3. ASSUME UNCHANGED <<leadVars, now>>, FeedInv' PROVE PublicInv'
  <2>1. UNCHANGED <<hits, enquiries, guest, board, now>>
    BY <1>3 DEF leadVars
  <2>2. BoardInv'
    BY <1>1, <2>1, GuestStays
  <2>3. BudgetInv'
    BY <1>1, <2>1, <2>2, BudgetStands
  <2> QED
    BY <1>3, <2>2, <2>3 DEF PublicInv
<1>4. CASE UpdatesNext /\ UNCHANGED <<leadVars, now>>
  BY <1>1, <1>3, <1>4, UpdatesStep
<1>5. ASSUME NEW g \in Guests, UNCHANGED <<leadVars, now>>,
             \/ \E caller \in Callers : LoadFeed(g, caller)
             \/ \E s \in Societies, caller \in Staff : LoadUpdates(g, s, caller)
      PROVE  PublicInv'
  <2>1. PICK s \in Societies, caller \in Callers : ReadPosts(g, s, caller)
    BY <1>1, <1>5, ReadsAreReads
  <2> QED
    BY <1>1, <1>3, <1>5, <2>1, ReadPostsKeeps
<1>6. CASE Tick
  <2>1. now' \in Times
    BY <1>1, <1>6 DEF Tick, Times, ProjectsAssumption
  <2>2. FeedInv' /\ BoardInv'
    BY <1>1, <1>6, <2>1, FeedStands, GuestStays DEF Tick, leadVars
  <2> QED
    BY <1>1, <1>6, <2>2, TickKeepsBudget DEF PublicInv
<1>7. CASE UNCHANGED vars
  BY <1>1, <1>3, <1>7, FeedStands DEF vars
<1> QED
  BY <1>2, <1>4, <1>5, <1>6, <1>7 DEF Next

LEMMA PublicAlways == Spec => []PublicInv
<1>1. Init => PublicInv
  BY PublicInit, ProjectsAssumption, LeadsAssumption
<1>2. PublicInv /\ [Next]_vars => PublicInv'
  BY PublicStep, NoEnquiryAssumption, NoPostAssumption, LeadsAssumption,
     SiteUpdatesAssumption, ProjectsAssumption
<1> QED
  BY <1>1, <1>2, PTL DEF Spec

\* A post is fed with every photo it was sent with: it commits with them, and
\* the second statement reads no earlier than the first.
THEOREM FedWhole == Spec => []PostsAreWhole
BY PublicAlways, PTL DEF PublicInv, FeedInv

\* No draft reaches a reader without a staff token: what is read as published
\* is not taken back (Handler.list, Store.Publish).
THEOREM DraftsAreStaffs == Spec => []DraftsStayIn
<1>1. PublicInv => DraftsStayIn
  BY DEF PublicInv, FeedInv, FedRight, DraftsStayIn, NoFeed
<1> QED
  BY <1>1, PublicAlways, PTL

\* The count that heads the board is never below the rows under it, though the
\* two statements read at different moments.
THEOREM CountCoversRows == Spec => []TotalCovers
BY PublicAlways, PTL DEF PublicInv, BoardInv

\* No window holds more of a guest's enquiries than the budget, whatever the
\* limiter's sweeps drop and however late a form is stored.
THEOREM BudgetIsKept == Spec => []EnquiryBudgetKept
<1>1. ASSUME ProjectsAssumption, LeadsAssumption, PublicInv, NEW g \in Guests, NEW t \in Times
      PROVE  Cardinality({e \in Stored : /\ enquiries[e].by = g
                                         /\ enquiries[e].sent \in (t - Window + 1)..t})
                <= MaxEnquiries
  <2> DEFINE T == (t - Window + 1)..t
  <2>1. Through(g, T) <= MaxEnquiries
    BY <1>1, BudgetFollows DEF PublicInv
  <2> HIDE DEF T
  <2>2. Cardinality(StoredBy(g, T)) <= MaxEnquiries
    BY <1>1, <2>1, ThroughType DEF Through, PublicInv, LeadsAssumption
  <2> QED
    BY <2>2 DEF StoredBy, T
<1>2. PublicInv => EnquiryBudgetKept
  BY <1>1, ProjectsAssumption, LeadsAssumption DEF EnquiryBudgetKept
<1> QED
  BY <1>2, PublicAlways, PTL

\* A post leaves a guest's feed only behind posts dated no earlier: from one
\* answer to the new nothing is unpublished, and only the limit cuts.
THEOREM FeedOnlyMovesOn == Spec => FeedMovesOn
<1>1. ASSUME ProjectsAssumption, SiteUpdatesAssumption, PublicInv, [Next]_vars,
             NEW r \in Guests, feed[r].op = "feed", ~IsStaff(feed[r].by.role), feed'[r].op = "posts",
             feed'[r].society = feed[r].society, NEW p \in feed[r].posts \ feed'[r].posts
      PROVE  /\ Cardinality(feed'[r].posts) = FeedLimit
             /\ \A q \in feed'[r].posts : Dated(q) >= Dated(p)
  <2>1. FeedInv /\ BoardInv /\ feed[r] # NoFeed /\ feed \in [Guests -> {NoFeed} \cup Feeds]
    BY <1>1 DEF PublicInv, FeedInv, UpdatesTypeOK, NoFeed
  <2>2. PICK s \in Societies, caller \in Callers : ReadPosts(r, s, caller)
    <3>1. ASSUME UNCHANGED feed PROVE FALSE
      BY <1>1, <3>1
    <3>2. ASSUME NEW o \in Guests, ReadMedia(o) PROVE FALSE
      BY <1>1, <2>1, <3>2 DEF ReadMedia
    <3>3. ~UpdatesNext
      BY <3>1, <3>2 DEF UpdatesNext, CreatePost, Publish, InsertPhoto, CommitPost, Rollback
    <3>4. PICK g \in Guests : \/ \E caller \in Callers : LoadFeed(g, caller)
                              \/ \E s \in Societies, caller \in Staff : LoadUpdates(g, s, caller)
      BY <1>1, <3>1, <3>3 DEF Next, Tick, vars, updateVars
    <3>5. PICK s \in Societies, caller \in Callers : ReadPosts(g, s, caller)
      BY <2>1, <3>4, ReadsAreReads
    <3>6. g = r
      BY <1>1, <2>1, <3>5 DEF ReadPosts
    <3> QED
      BY <3>5, <3>6
  <2>3. PICK F \in Newest(s, IsStaff(caller.role)) :
           feed' = [feed EXCEPT ![r] = [op |-> "posts", society |-> s, by |-> caller,
                                        posts |-> F, photos |-> {}]]
    BY <2>2 DEF ReadPosts
  <2>4. feed'[r].posts = F /\ feed'[r].society = s
    BY <2>1, <2>3
  <2>5. PICK S : S = {o \in Written : /\ posts[o].society = s
                                      /\ IsStaff(caller.role) \/ posts[o].published # Never}
    OBVIOUS
  <2>6. /\ F \subseteq S /\ Cardinality(F) = Lesser(Cardinality(S), FeedLimit)
        /\ \A o \in F, q \in S \ F : Dated(o) >= Dated(q)
    BY <2>3, <2>5 DEF Newest
  <2>7. p \in S \ F
    <3>1. p \in Written /\ posts[p].society = s /\ posts[p].published # Never
      BY <1>1, <2>1, <2>4 DEF FeedInv, FedRight
    <3> QED
      BY <1>1, <2>4, <2>5, <3>1
  <2>8. IsFiniteSet(S) /\ Cardinality(F) # Cardinality(S)
    <3>1. IsFiniteSet(S)
      BY <2>1, <2>5, FS_Subset DEF FeedInv
    <3> QED
      BY <2>6, <2>7, <3>1, FS_Subset
  <2>9. Cardinality(F) = FeedLimit
    BY <2>6, <2>8 DEF Lesser
  <2> QED
    BY <2>4, <2>6, <2>7, <2>9
<1>2. PublicInv /\ [Next]_vars =>
         [\A r \in Guests :
             (/\ feed[r].op = "feed" /\ ~IsStaff(feed[r].by.role)
              /\ feed'[r].op = "posts" /\ feed'[r].society = feed[r].society) =>
                \A p \in feed[r].posts \ feed'[r].posts :
                   /\ Cardinality(feed'[r].posts) = FeedLimit
                   /\ \A q \in feed'[r].posts : Dated(q) >= Dated(p)]_updateVars
  BY <1>1, ProjectsAssumption, SiteUpdatesAssumption
<1> QED
  BY <1>2, PublicAlways, PTL DEF Spec, FeedMovesOn
=============================================================================
