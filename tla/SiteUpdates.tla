------------------------------ MODULE SiteUpdates ------------------------------
(***************************************************************************)
(* The progress feed: internal/update over the tables site_updates and     *)
(* site_update_media.                                                      *)
(*                                                                         *)
(* A post is written with its photos in one transaction of several         *)
(* statements; published_at is the program's clock, or on Publish the      *)
(* database's.  The feed is read in two statements, the posts and then the *)
(* photos of those posts.                                                  *)
(***************************************************************************)
EXTENDS Projects

CONSTANTS PostIds, NoPost,    \* bound the posts ever written
          MaxPhotos,   \* 20
          FeedLimit,   \* posts of a feed
          Never        \* a NULL published_at

ASSUME SiteUpdatesAssumption ==
    /\ PostIds \subseteq Nat
    /\ MaxPhotos \in Nat /\ FeedLimit \in Nat \ {0}
    /\ Never \notin Int

VARIABLES posts,   \* the table site_updates, by id; photos is history: how
                   \* many were sent with the post
          media,   \* the table site_update_media: post and sort_order
          draft,   \* the transaction of Create that is open, if one is
          feed     \* what each reader has been answered so far

updateVars == <<posts, media, draft, feed>>

Posts == [society: Societies, photos: 0..MaxPhotos, created: Times,
          published: Times \cup {Never}]

ASSUME NoPostAssumption == NoPost \notin Posts

NoDraft == [op |-> "none"]

Drafts == [op: {"photos"}, id: PostIds, post: Posts, inserted: 0..MaxPhotos]

NoFeed == [op |-> "none"]

\* A request without a token; an owner's is answered like it.
NoIdentity == [role |-> "none", builder |-> NoBuilder]

Callers == Staff \cup {NoIdentity}

\* by is history: with whose token the feed was asked for.
Feeds == [op: {"posts", "feed"}, society: Societies, by: Callers, posts: SUBSET PostIds,
          photos: SUBSET (PostIds \X (0..MaxPhotos))]

-----------------------------------------------------------------------------

Written == {p \in PostIds : posts[p] # NoPost}

Shot(p, n) == {<<p, i>> : i \in 0..(n - 1)}

UpdatesInit ==
    /\ posts = [p \in PostIds |-> NoPost]
    /\ media = {}
    /\ draft = NoDraft
    /\ feed = [r \in Guests |-> NoFeed]

\* A post as it is inserted.
NewPost(s, photos, publish) ==
    [society |-> s, photos |-> photos, created |-> now,
     published |-> IF publish THEN now ELSE Never]

\* Handler.create: BEGIN and the INSERT of the post.
CreatePost(caller, s, photos, publish) ==
    /\ draft = NoDraft
    /\ Permits(caller, BuilderOf[s])
    /\ \E p \in PostIds \ Written :
          /\ p = Min(PostIds \ Written)
          /\ draft' = [op |-> "photos", id |-> p, inserted |-> 0,
                       post |-> NewPost(s, photos, publish)]
    /\ UNCHANGED <<posts, media, feed>>

\* Mutant of InsertPhoto: outside the transaction, which is over.
InsertPhotoLater ==
    /\ draft.op = "photos"
    /\ draft.inserted < draft.post.photos
    /\ draft' = [draft EXCEPT !.inserted = @ + 1]
    /\ posts' = [posts EXCEPT ![draft.id] = draft.post]
    /\ UNCHANGED <<media, feed>>

\* The INSERT of the next photo.
InsertPhoto ==
    /\ draft.op = "photos"
    /\ draft.inserted < draft.post.photos
    /\ draft' = [draft EXCEPT !.inserted = @ + 1]
    /\ UNCHANGED <<posts, media, feed>>

CommitPost ==
    /\ draft.op = "photos"
    /\ draft.inserted = draft.post.photos
    /\ posts' = [posts EXCEPT ![draft.id] = draft.post]
    /\ media' = media \cup Shot(draft.id, draft.inserted)
    /\ draft' = NoDraft
    /\ UNCHANGED feed

\* The client has gone or the process has died: ROLLBACK.
Rollback ==
    /\ draft # NoDraft
    /\ draft' = NoDraft
    /\ UNCHANGED <<posts, media, feed>>

\* Mutant of Publish: a second click takes the post back.
PublishToggling(caller, p) ==
    /\ p \in Written
    /\ Permits(caller, BuilderOf[posts[p].society])
    /\ posts' = [posts EXCEPT ![p].published = IF @ = Never THEN now ELSE Never]
    /\ UNCHANGED <<media, draft, feed>>

\* COALESCE (published_at, now()).
Stamped(published) == IF published = Never THEN now ELSE published

\* Handler.publish.
Publish(caller, p) ==
    /\ p \in Written
    /\ Permits(caller, BuilderOf[posts[p].society])
    /\ posts' = [posts EXCEPT ![p].published = Stamped(@)]
    /\ UNCHANGED <<media, draft, feed>>

\* ORDER BY COALESCE (published_at, created_at).
Dated(p) == IF posts[p].published = Never THEN posts[p].created ELSE posts[p].published

\* The posts a feed of society s may hold.
Newest(s, includeDrafts) ==
    LET S == {p \in Written : /\ posts[p].society = s
                              /\ includeDrafts \/ posts[p].published # Never}
    IN  {F \in SUBSET S :
            /\ Cardinality(F) = Lesser(Cardinality(S), FeedLimit)
            /\ \A p \in F, o \in S \ F : Dated(p) >= Dated(o)}

\* Mutant of ReadPosts: drafts are for everybody.
ReadPostsAll(r, s, caller) ==
    /\ feed[r].op # "posts"
    /\ \E F \in Newest(s, TRUE) :
          feed' = [feed EXCEPT ![r] =
             [op |-> "posts", society |-> s, by |-> caller, posts |-> F, photos |-> {}]]
    /\ UNCHANGED <<posts, media, draft>>

\* Handler.list: the posts.  Whoever has a staff token is shown drafts; no
\* guard is asked whose society it is ...
ReadPosts(r, s, caller) ==
    /\ feed[r].op # "posts"
    /\ \E F \in Newest(s, IsStaff(caller.role)) :
          feed' = [feed EXCEPT ![r] =
             [op |-> "posts", society |-> s, by |-> caller, posts |-> F, photos |-> {}]]
    /\ UNCHANGED <<posts, media, draft>>

\* ... and, in one follow-up query, their photos.
ReadMedia(r) ==
    /\ feed[r].op = "posts"
    /\ feed' = [feed EXCEPT ![r].op = "feed",
                            ![r].photos = {m \in media : m[1] \in feed[r].posts}]
    /\ UNCHANGED <<posts, media, draft>>

UpdatesNext ==
    \/ \E caller \in Staff :
          \/ \E s \in Societies, photos \in 0..MaxPhotos, publish \in BOOLEAN :
                CreatePost(caller, s, photos, publish)
          \/ \E p \in PostIds : Publish(caller, p)
    \/ InsertPhoto \/ CommitPost \/ Rollback
    \/ \E r \in Guests : ReadMedia(r)

-----------------------------------------------------------------------------
(* Properties *)

UpdatesTypeOK ==
    /\ posts \in [PostIds -> Posts \cup {NoPost}]
    /\ media \subseteq PostIds \X (0..MaxPhotos)
    /\ draft \in {NoDraft} \cup Drafts
    /\ feed \in [Guests -> {NoFeed} \cup Feeds]

\* A post in a feed comes with all the photos it was sent with, though posts
\* and photos are read by two statements and written by several.
PostsAreWhole ==
    \A r \in Guests :
        feed[r].op = "feed" =>
           \A p \in feed[r].posts : Shot(p, posts[p].photos) \subseteq feed[r].photos

\* "Unpublished drafts are visible to staff only": what somebody without a
\* staff token has been shown is published, though the office may still be
\* publishing while the feed is read.
DraftsStayIn ==
    \A r \in Guests :
        feed[r].op # "none" /\ ~IsStaff(feed[r].by.role) =>
           \A p \in feed[r].posts : posts[p].published # Never

\* "A draft is for the site office only": who is shown a draft may act for the
\* society it is of.  Not so: the staff of any builder is.
DraftsForOfficeAlone ==
    \A r \in Guests :
        feed[r].op # "none" =>
           \A p \in feed[r].posts :
              posts[p].published = Never => Permits(feed[r].by, BuilderOf[posts[p].society])

\* A post a guest has been shown leaves the feed only behind posts dated no
\* earlier, however drafts are published and late transactions commit.
FeedMovesOn ==
    [][\A r \in Guests :
          (/\ feed[r].op = "feed" /\ ~IsStaff(feed[r].by.role)
           /\ feed'[r].op = "posts" /\ feed'[r].society = feed[r].society) =>
             \A p \in feed[r].posts \ feed'[r].posts :
                /\ Cardinality(feed'[r].posts) = FeedLimit
                /\ \A q \in feed'[r].posts : Dated(q) >= Dated(p)]_updateVars
=============================================================================
