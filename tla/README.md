# A formal model of plotting-society

plotting-society is a Go service over PostgreSQL, with a React front end, that
runs plotted developments: builders keep a register of plots, a ledger of each
society's money and a news feed; owners see their plot, their dues, the ledger
and their queries; guests see the layout and leave enquiries. This directory
holds TLA+ specifications of its parts, the TLC models that check them, and
proofs checked by TLAPS. `PROJECT.json` lists the runs, the theorems, what line
of the source every definition stands for, and the findings.

    tlc -config FundLedgerTenants.cfg MCFundLedger      # one run
    tlapm FundLedgerProofs.tla                          # one set of proofs

## 1. The system

| Component | Code | State | Operations |
|---|---|---|---|
| access | `access`, `domain`, `auth/context.go` | none: the claims of the access token, `societies.builder_id` | `Guard.Society/Plot/Query/FundEntry`, role predicates |
| society fund | `fund` | `fund_entries`, append-only | create, reverse, list (rows, totals, by head) |
| sessions | `auth` (handler, store, token) | `refresh_tokens`, `users.password_hash`, `users.is_active`; access tokens in clients' hands | login, refresh, logout, change-password |
| rate limiter | `httpx/limiter.go` | a map of attempt times, behind a mutex | Allow, Forget, the sweep inside Allow |
| browser session | `web/src/lib/api.ts`, `auth.tsx` | `localStorage`, an access token and a shown user per tab, the shared refresh promise | calls, boot, sign in, sign out |
| invitations and ownership | `auth` (invites), `plot` | `invites`, `users`, `plots.owner_id` | invite, accept |
| plot register | `plot`, `Plots.tsx` | `plots`; the page's copy of them | create, update, list for map |
| maintenance | `maintenance`, `Maintenance.tsx` | `maintenance_rates`, `maintenance_dues` | set a rate, raise bills, overview |
| owner queries | `query` | `queries`, `query_messages` | raise, answer, change status |
| enquiries | `lead` | `enquiries`, a limiter of its own | show the listed project, create, list and count, change status |
| site updates | `update` | `site_updates`, `site_update_media` | draft, publish, feed |
| migrations, boot | `database`, `cmd/api` | the schema, `schema_migrations` | connect, migrate, serve, shut down |
| seed data | `cmd/seed` | one project in every table | refuse or truncate, fill |
| uploads | `media` | none | sign an upload |
| HTTP plumbing, configuration | `httpx`, `config` | none | decode, encode, read the environment |
| pages | `web/src/pages` | what they were answered | rendering |

**How they interact.** Every handler passes authentication (the claims of a
signed token, never the database), a role check, and, where it takes an id,
`access.Guard`, which looks the record's builder up. Then it runs SQL. Handlers
run concurrently, each with its own pooled connection under READ COMMITTED;
except for a few explicit transactions (accepting an invitation, raising bills,
raising a query, adding a message, a post with its photos, a migration, the seed)
every statement commits by itself. So the unit of atomicity of almost everything
is *one SQL statement*, and a handler with several is a sequence of steps between
which others act and after any of which it may stop (client gone, process
killed). Register and maintenance meet in `plots`; accepting an invitation ends
in a session; the limiter guards sign-in and refresh, and a second one the guests' form; the browser
presents the refresh tokens the server stores. The guest's page talks to two
services, `lead` and `update`. Instances and seed jobs meet in the database alone.

**What is hard.** A statement's own snapshot (`INSERT ... WHERE NOT EXISTS`);
values read in one statement and relied on in the next; transactions that wait
for each other's unique keys and rows; a handler cut short after the first of its
writes; whole-row updates from a page loaded long ago; a map shared by callers
with different windows; tabs and calls in flight that share one single-use token;
access tokens that outlive what they were issued for; time stamps that are the
moment a transaction began, not the one it became visible; pages built by two
statements; processes that boot together over a schema all of them would migrate,
and die anywhere on the way. The full list, each at its
line, with the properties that watch over it, is `hazards` in `PROJECT.json`.

**What makes each part correct.** Nobody acts on another tenant's records. The
ledger is append-only, a correction mirrors its original, happens once, and a
page adds up, for those who may read it. A refresh token buys one session; revocation and deactivation bite.
Nobody is locked out for attempts not made, nor lets more through than the budget;
lockouts end. A browser keeps its session until it signs out, and then has none.
An invitation makes one account; an owner keeps the plot it was bound to. A plot
is billed once, at one rate, for ever; a call that bills answers truthfully and
ends. A query is never seen without its words, internal notes stay inside, and the
inbox puts first what is late. The public form keeps to its budget; a feed shows
whole posts, no drafts, and moves on. A migration is applied once and in order,
nothing is served before its schema, and the database is seeded as a whole, once.

## 2. Modules

| Module | Models | Uses |
|---|---|---|
| `Access` | roles, identities, `Guard.check` | |
| `LedgerPromise` | abstract: what the fund promises | |
| `FundLedger` | the fund's handlers and statements | `Access`; implements `LedgerPromise` |
| `Sessions` | sessions on the server | |
| `Throttle` | the limiter as sign-in and refresh use it | |
| `BrowserSession` | tabs, calls and the network, over a two-step server | |
| `Ownership` | invitations, accounts, the plot register and its page | `Access` |
| `Maintenance` | rates and bills | |
| `TicketPromise` | abstract: what a raised query promises its owner | |
| `QueryThread` | queries, their messages and lists | `Access`; implements `TicketPromise` |
| `Projects` | societies, the office, guests and a clock | `Access` |
| `Leads` | the listed project, the guests' form, the leads board | `Projects` |
| `SiteUpdates` | posts, photos, publication, the feed | `Projects` |
| `PublicSide` | the guest's page over both, one clock | composes `Leads` and `SiteUpdates` |
| `DatabasePromise` | abstract: what boots and seed runs promise about the database | |
| `SeedData` | the seed's transaction, statement by statement | |
| `Boot` | processes that migrate, serve, shut down, seed and fail | composes with `SeedData`; implements `DatabasePromise` |
| `MC...` | small instances for TLC | the module named |
| `...Proofs` | theorems and proofs: `FundLedger`, `Sessions` with `Throttle`, `BrowserSession`, `Ownership`, `Maintenance`, `QueryThread`, `PublicSide`, `Boot` | the module named, TLAPS |

In every module a variable is a table (or a map, or a browser's storage), plus
`request`, `run`, `call`, `guest` or `process`: where each request in flight stands and what it has read so
far, in the record of its stage. A step is one SQL statement, one critical
section, or one turn of the browser's event loop; the checks a handler makes
before its first statement belong to that step, and reads of what never changes
(a society's builder, the claims in a token) to the step that uses them. A refusal
that changes nothing is a guard; one that ends a request with something already
done is a step. Definitions named `Mutant of ...` are deliberate errors, none of
them part of a specification: they are put in the place of the definition they
follow, to see that the property they are meant for notices.

**FundLedger.** `entries` is the table. `CreateStart` is the handler up to the
INSERT; `CreateCommit` rounds the amounts as `numeric(14,2)` does and applies the
CHECK. Reversal is `ReverseStart` (guard), `ReverseSelect` (the statement's
snapshot and WHERE) and `ReverseCommit`: nothing makes two such statements wait
for each other. The page is its guard (`ListStart`) and `ListRows`, `SumRows`,
`GroupRows`. `Leave` is a request that ends or is abandoned. `residents` is what
`plots.owner_id` says; `MoveIn` is an invitation accepted meanwhile, which puts a
new owner in the place of an old one (`store.go:131`). `former`, `saw` and `gone` are
history: who has moved out, what a reversing statement looked at, who had moved out
when a page's guard looked. In `LedgerPromise` undoing takes two steps, a claim on a
line nobody has undone and the undoing; claims do not exclude each other. `SerialSpec`
adds that no two reversals of one entry overlap, which nothing in the code enforces.

**Sessions.** Time is kept as remaining lifetimes, shortened by `Tick`; `era`
counts password changes. `settled`, `since`, `overtaken`, `late` are history: they
record which requests were on their way at a revocation or deactivation.
`Deactivate` is an operator's own UPDATE, which no handler makes.

**Throttle.** `hits` is the map, of sets of attempts by age, those of one moment
numbered (a log is oldest first, so a set says as much); a `Deny` and an `Allow`
are the two outcomes of `Limiter.Allow`, with the sweep. A sign-in charges two keys,
verifies, and forgets two, in separate critical sections. Ages stop at `Horizon`,
past which none makes a difference.

**BrowserSession.** Calls are sent, answered (`Serve`, `CallLost`), and handled
(`Unauthorized`, `Over`, ...); calls refused with 401 share one refresh (`Join`).
`Load` reloads a tab at any time: what it had under way is forgotten, and a
request whose client has gone has been served by then or never is. Identifiers of
tokens that nobody holds any more are used again (`Fresh`), so behaviours are
unbounded over few tokens. `Lapse` is a refresh token that runs out, `RevokeElsewhere`
a sign-out or change of password in another browser. `blame` and `out` are history:
what has befallen the session, where an answer counts as lost only if the server had
acted (`Unheard`), and how the browser was signed out.

**Ownership.** `FindInvite` is the lookup, `InsertUser`, `LinkPlot` and `Accept`
the transaction's three statements and its commit. What it has written is kept in
the request until then; `HeldEmails` and `HeldPlots` are the unique key and the row
others wait for. `LoadPage` and `SetPlotStatus` are the register's page and the
whole-row UPDATE it sends. Addresses are compared as they are spelled, as the
UNIQUE constraint does.

**Maintenance.** `Select` takes the snapshot from which a call bills; `Insert`
waits for, or fails on, another call's bill, and counts and adds up what it writes
(`Written`); `Commit` publishes and answers that, `CommitUnheard` publishes and
answers 500, when the word of the COMMIT is lost. What bills come to (`Total`) is
counted one hundredth at a time: a sum as a cardinality, so that adding a bill to it
needs no induction.
The order in which rows come is free, so calls can deadlock, and `BreakDeadlock` is
PostgreSQL's detector. `ChangePlot` is the register changing plots underneath.
A plot's sector does not change: the page sends back the one it loaded.

**QueryThread.** `Create`, `InsertOpening`, `Commit` are raising a query;
`AddMessage`, `Touch`, `Commit` a message; `SetStatus` the guard and `Decide` the
UPDATE. What a transaction has written is in its `call` until the commit, and rows
are stamped with the time it began, as `now()` is. `Locked` is a row another
transaction has updated. What only reads is no action: `Inbox`, `Mine` and `Shown`
are the answers the present rows allow, and the properties speak of every one, as
a sort key with ties leaves several. The program's clock (`IsBreached`) and the
database's (`SortedFirst`) are one, read at different moments. `CreateApart` and
`Leave` show what the transaction is for.

**Leads, SiteUpdates, PublicSide.** `guest` follows one browser from the landing
page's two statements (`FirstPublic`, `PublicBySlug`) through the form's (`Submit`
or `TurnAway` at the limiter, `CheckListed`, `Insert`); `board` is the office's
page (`ListEnquiries`, `Count`). `SetListing` is the operator's SQL. `draft` is the
open transaction of a post, `feed` what a reader has been answered (`ReadPosts`,
`ReadMedia`). `sent` and `photos` are history. Only one post is being written at
a time: posts do not touch each other's rows. A reader may hold a token of any
builder's office, which shows drafts: `Handler.list` asks for the role and not for
whose society it is. Hence the `caller` of `LoadFeed` and `LoadUpdates`.

**Boot.** `schema` is what the database has become, `versions` what
`schema_migrations` says. `Apply`, `Record`, `Commit` are one migration's
transaction; a body waits for a rival's locks (`Unlocked`) and fails where its
objects are there by then, which ends the process. `Fail` is a failed statement, a
cancelled context or a kill, anywhere. An instance then goes from `Listen` to
`Terminate`, `ShutdownReturns` (answered or after 15 seconds) and `Close`, which
waits for connections still held. A seed job counts societies, may truncate, and
goes through the statements of `SeedData`. Its bills are for the plots read and not
yet billed, in batches of any composition, since the rows come in the order of plot
numbers, which are texts. An image may be older than the
database: `Build` says how many migrations each embeds.

## 3. Runs

Deadlock checking is on in every run. The twelve runs `PROJECT.json` lists:

| Run | Instance | Shows |
|---|---|---|
| `fund_tenants` | staff of two builders, an owner and one who may take the plot over, 3 rows, 2 requests | an entry is reversed twice by overlapping statements only; `LedgerPromise` is implemented; writers and readers are tenants; the page's three reads nest |
| `sessions_safety` | one account, 3 sessions, 2 requests, lifetimes 2, one password change | single use; who survives a revocation; how long deactivation takes |
| `throttle` | fairness, one client, one address, 3 sign-ins at once, a map swept past one key | no phantom attempts; refreshes keep to their budget; sign-ins do not burst; lockouts end |
| `browser_tabs` | two tabs, lossy network, tokens that run out or are revoked | what a session is lost to; signing out is final |
| `browser_calls` | fairness, one tab, one widget, lossy network | refused calls that share a refresh do not cost the session; every call ends |
| `ownership` | two builders, 2 invitations, 2 acceptances at once, a clerk's page | one account per invitation; a chain of entitlement behind everything held; who strands whom, the clerk's whole-row updates included |
| `maintenance_bills` | fairness, 2 plots, 2 rates, 2 calls | billed once; answers are true, heard of or not; neighbours pay alike; overlapping and deadlocked calls end |
| `query_thread` | an owner, staff of two builders, 2 queries, 3 messages, 2 calls at once, pages of one row | threads open with their words; notes stay inside; who speaks; what lists hold and put first; `TicketPromise` is implemented |
| `public_side` | one project, one guest, with no token or one of either of two builders, a budget of one, a limiter that is swept, 2 enquiries, 2 posts, one photo, pages of one row | the form's budget; the board's total; whole posts; drafts for staff tokens alone; the feed moves on |
| `boot` | fairness, an instance, 2 seed jobs (one forced, one with an older image), 2 migrations, 3 plots in batches of 2, 2 faults | served only over its schema; one whole project, whose fund reconciles with its bills; `DatabasePromise` is implemented; instances come up and go down |

Runs that end in a violation, each a disagreement between the code and what its
comments or tests say (quoted in `findings`):

| Run | Property | What happens |
|---|---|---|
| `fund_double_reversal` | `SingleReversal` | two overlapping reversals of one entry both find it unreversed |
| `sessions_password_change` | `PasswordChangeEndsSessions` | a sign-in under way stores its session after the revocation |

What does hold instead: `DoubledByOverlapOnly` and `LedgerPromise`, and
`OnlyStragglersSurvive`.

Further configurations of the same modules, for questions beside those. What the
code does not keep stands commented out beside one property that is checked: TLC
stops at the first violation.

| Configuration | Outcome |
|---|---|
| `SessionsOut` | passes: with fairness and tokens used again without end, a deactivated account ends up for good without an access token (`DeactivatedIsOut`) |
| `ThrottleRoomy` | passes: over a map that is never swept, sign-ins keep to their budget over their whole window; types |
| `FundLedgerSerial` | passes: under `SerialSpec`, one reversal per entry, and pairs net to zero |
| `QueryThreadRows` | passes, with fairness: calls that wait for a query's row come to an end (`CallsEnd`) |
| `PublicSideCrowd` | passes: two guests at the form over three ticks, with a limiter swept past one key |
| `BootRolling` | passes: an old and a new image side by side with both seed jobs, safety and refinement |
| `ThrottleRoomy`, with `MaxKeys = 2` | violates `LoginBudgetKept`: a refresh sweeps sign-in keys by its own shorter window (`limiter.go:47`). The comment: "Attempts allowed per window before a caller is turned away." (`handler.go:38`); `LoginBurstKept`, over the shorter window, is what holds |
| `OwnershipUnkept` | violates `NobodyStranded`: of two invitations to one plot, the second acceptance replaces the first owner (`store.go:131`). The comment: "a half-accepted invite would strand the owner." (`store.go:112`); `StrandedByRivalsOnly` is what holds |
| `FundLedgerUnkept` | violates `OnlySpendingByHead`: `Store.Balance` (`fund.go:94`) groups every debit, so a reversed collection appears as spending. The test: "Collections are money in, so they must not appear as spending." (`fund_test.go:116`) |
| `FundLedgerUnkept` | violates `HandlerMatchesCheck`: an amount below half a paisa passes validation (`fund.go:240`) and fails the CHECK. The comment: "Exactly one side, matching the database CHECK." (`fund.go:239`) |
| `BrowserUnkept` | violates `ReloadKeepsSession`: a reload during a refresh loses the answer, and the stored token is spent (`api.ts:81`). The comment: "so a reload does not dump the owner back on the login screen." (`auth.tsx:20-21`) |
| `BrowserUnkept` | violates `SignOutIsFinal`: a refresh answered after signing out stores a session (`api.ts:85`) |
| `OwnershipUnkept` | violates `UnsoldHasNoOwner`: the register puts an owned plot back to available (`plot.go:245`). The comment: "Sold plots only — an unsold plot has nobody to bill." (`maintenance.go:43`) |
| `OwnershipUnkept` | violates `InvitedStaffFit`: the operator, who has no builder, invites staff (`handler.go:313`) whom the CHECK on `users` refuses. The comment: "CanManageBuilder covers inviting staff" (`domain.go:31`) |
| `OwnershipUnkept` | violates `NotesKept`: a status change sends `notes: ''` (`Plots.tsx:49`) and erases the plot's notes. The page offers to "change a status inline" (`Plots.tsx:65`) |
| `MaintenanceNothingRaised` | violates `NothingDueAllBilled`: a sold plot without an area is left out (`maintenance.go:155`), and the page says "Every sold plot already has a bill. Nothing raised." (`Maintenance.tsx:90`) |
| `QueryThreadRows` | violates `LastActivity`: `now()` is the moment a transaction began (`query.go:211`), so one that waited for a row puts `updated_at` back below a younger message. The pages show it as "last activity" (`Inbox.tsx:76`) |
| `PublicSideUnkept` | violates `ToldTruly`: forms refused as invalid are charged too (`lead.go:250`), and the guest is told "You have sent a few enquiries already. The site office will call you shortly." (`lead.go:251-252`) having sent none |
| `PublicSideUnkept` | violates `NothingListed`: the project whose slug was found is unlisted before it is looked up (`lead.go:107`), and the guest is told "No project is publicly listed." (`lead.go:229`) while another is |
| `PublicSideUnkept` | violates `DraftsForOfficeAlone`: the feed shows drafts to whoever has a staff token, of whichever builder (`update.go:194-197`). The test: "A draft is for the site office only; an owner must not see unpublished work." (`update_test.go:111`); `DraftsStayIn`, its second half, is what holds |
| `BootReseed` | violates `ReseedKeeps`: `-force` truncates in a transaction of its own (`seed/main.go:116`), and a seed that fails then leaves an empty database |

**Bounds, and why they are enough.** Every hazard is between two actors over one
or two records: two requests and two records reach it, a third of either is there
where one more can matter (three rows let a reversal of a reversal be tried, three
sessions a chain of renewals with a rival). Two builders suffice for tenancy, since `Permits` compares one with
one. Lifetimes of one or two ticks separate fresh, ageing and expired, and a refresh
window of 1 tick and a sign-in window of 3 keep the order of the real ones. Amounts are chosen at the edges
(negative, nothing, below and at half a paisa); the area and the rates of
`maintenance_bills` (15.40 square feet at 0.05 and 0.11) give one bill that comes out
even and one that is rounded, and are small, since bills are counted out. Pages of one row make what comes
first matter; two enquiries, a budget of one and a window of one tick let a budget
be spent, run out and be spent again; three plots in batches of two give a full and
a partial batch; two migrations, an order. One clock tick separates a transaction's
beginning from its commit, and a deadline from what is past it. `MaxChanges`, `MaxTime`, `MaxFaults`, `MaxRequests`, the numbers of row
and token identifiers, and the ages in the limiter's log are the only counters,
each bounded in a guard or a constant; when identifiers run out, requests still
can be abandoned, so nothing is stuck. `public_side` has a constraint,
`OnePageAtATime`: the office's page and a feed are not loaded in one behaviour, for
neither service reads what the other writes. Symmetry is used over identifiers that no
constant tells apart, and in runs without liveness properties only.

**Fairness.** `Sessions`: time passes, and a handler that has begun ends, by
finishing or by being cut short (every handler has a context that is cancelled).
`Throttle`: time passes. `BrowserSession`: a request sent is answered or fails,
and the event loop gets round to what was answered; `CallsEnd` excepts the user
who reloads for ever. `Maintenance`: a statement sent is carried out once nothing
holds it, and deadlocks are broken; neither starting a call nor aborting one is
assumed. `QueryThread` (in `QueryThreadRows`): strong fairness of what a call does of
itself, as PostgreSQL serves those that wait for a row in turn; a row taken again
and again is not kept from one of them for ever. `Boot`: the platform starts an
instance that is down, the code goes on by itself, and `Apply` is strongly fair for
the same reason; nobody has to start a seed job or a request, and faults are
bounded, since an instance that is killed on every boot never serves. Nobody is
assumed to press anything.

## 4. Proofs

For every value of the constants, under the named assumptions in the modules
(which say what the constants are and no more, and which the runs evaluate):

- **FundLedger** (`FundLedgerProofs`): types, `ReversalsMirror`,
  `DoubledByOverlapOnly`, `WritersAreTenants`, `ReadersAreTenants`, `PagesNest`,
  `AppendOnly`, and the refinement of `LedgerPromise`. Of the invariants none is
  inductive: each is about rows that a request writes, or a page it builds,
  from what an earlier statement saw. `LedgerInv` adds what the requests in flight
  know (`CreatesAreEntitled`, `ReversesAreEntitled`, `PagesAreEntitled`), which
  lasts because rows never change, and that who has moved out is no resident
  (`MovedOut`): a right to read that is lost is on record. `DoubledByOverlapOnly`
  rests on what a reversing statement has seen: no row of it points at the entry
  (`ReversesAreEntitled`), and none is younger than the statement (`SawThePast`).
  In `LedgerKeepsPromise` the commit of a creation is a `Post`, a statement that
  finds its entry reversible a `Claim`, its commit an `Undo`, an abandoned one a
  `Drop`, every other step a stutter.
- **Sessions** (`SessionsProofs`): types, `RefreshSingleUse`,
  `OnlyStragglersSurvive`, `DeactivationBites`. `SessionInv` adds that a request
  that holds a consumed token is the only one and has renewed nothing yet
  (`ConsumedOnce`), that renewed tokens are revoked (`RenewedRevoked`), and that
  requests on their way at a revocation or deactivation are marked
  (`StragglersMarked`, `LateMarked`).
- **Throttle** (second half of `SessionsProofs`): `NoPhantomAttempts`,
  `RefreshBudgetKept`, `LoginBurstKept`. `LimitsInv` adds that what counts against a
  key is part of what it was granted (`Matched`), that all it was granted within
  the shorter window still counts (`FreshCounts`), and, in `LimiterTypeOK`, that
  attempts of this moment are numbered without gaps, so that a record adds one to
  either. Both budgets rest on `RefreshWindow <= LoginWindow`: a sweep by either
  window takes no key with an attempt of the shorter one. Over the longer window a
  refresh does take what a sign-in still needs, so more is not to be had.
- **Maintenance** (`MaintenanceProofs`): types, `BilledOnce`, `ReportedTruly`,
  `NeighboursPayAlike` and `NeverRepriced`. `BillingInv` adds that what a call has
  before and behind it stems from its one SELECT (`OneSelect`), that the
  uncommitted bills of different calls, and the committed ones, are of different
  plots (`Apart`), and that a call has counted what it has written so far
  (`CountsTruly`): one bill more is one more and its own amount more
  (`OneMoreCounted`), for a bill is due only until it is written. An answer is then
  true because the bills committed are those counted, and none of a call's bills
  was there before; it makes no difference to this whether the COMMIT was heard of.
- **Boot** (`BootProofs`): types, `ServesMigrated`, `SeededOnce`, `ProjectsAreWhole`,
  and `BootKeepsPromise`, the refinement of `DatabasePromise`. `MigrationInv` adds
  that the schema is what the versions say and a prefix of the migrations
  (`InOrder`), that what a process has read is a prefix too and still part of them,
  and what it has begun to apply the next one (`KnowsTruly`), and that one process at
  a time has DDL open (`OneMigrates`). `TownInv` adds that a seed's transaction is
  open over an empty database and is the only one (`SeedsAlone`). A commit of a
  migration is then a `Migrate`, of a seed a `Fill`, a TRUNCATE an `Empty`, every
  other step a stutter. `ProjectsAreWhole` needs what a draft has at each stage
  (`DraftOK`): its rows agree (`RowsAgree`), and they are those of the statements
  carried out so far (`StageReached`). There are as many bills as sold plots
  because no plot has two (`DuesCounted`), and the fund's credit is what they brought
  in because a batch adds its own paise to what was collected (`TotalAdds`).
- **Ownership** (`OwnershipProofs`): types, `InviteOnce`, `HeldByInvitation`,
  `StrandedByRivalsOnly`. `OwnershipInv` adds that an acceptance whose account is
  inserted holds an address no account has (`InsertedIsNew`) and no other
  acceptance (`TransactionsApart`), so of all that found an invitation one can
  commit; that an account is what its invitation says (`AccountsInvited`); and that
  invitations are made by who may make them (`InvitesEntitled`), which lasts because
  neither accounts nor societies of plots change. That a plot is the row others
  wait for is not needed: whoever comes second is the rival the property names.
- **QueryThread** (`QueryThreadProofs`): types, `ThreadsOpen`, `NotesStayInside`,
  `SpeakersBelong`, `InboxSurfacesLate`, and `ThreadKeepsPromise`, the refinement of
  `TicketPromise`. `ThreadInv` adds what a transaction is about to commit: its words
  are new, by somebody who was let through, and no older than the query
  (`CallsSound`); transactions draw different identifiers (`CallsApart`). It lasts
  because nothing a guard reads of a query ever changes. `InboxSurfacesLate` follows
  from the order of a page and from `TypeOK`, which ties `resolved_at` to the status.
  A commit is then a `Raise` or a `Say`, a decision a `Settle` or a `Reopen` or
  leaves the ticket as it is, every other step a stutter.
- **BrowserSession** (`BrowserSessionProofs`): types with the shared refresh (a call
  waits only while one is under way), `SessionSurvives`, `CalmSignOutIsFinal`.
  `BrowserInv` adds, while nothing has befallen the session, that one refresh at
  most is under way, trades the stored token, and nobody signs out (`Unspoilt`); and
  that nothing is stored or under way after a calm sign-out (`Calm`). The last was
  found by TLC to need that only a page's own calls are not `GET`s
  (`WidgetsOnlyGet`). Any number of calls that share one refresh is covered by the
  theorems; `browser_calls` has a page's own call and one more.
- **PublicSide** (`PublicSideProofs`): `PostsAreWhole`, `DraftsStayIn`,
  `TotalCovers`, `EnquiryBudgetKept`, and `FeedMovesOn`, an action property. `PublicInv` says that what
  the first statement of an answer has read is there to stay: posts with their
  photos, published ones for good, enquiries in their society. `FeedMovesOn` then
  needs that dates of published posts stand and that a page left by one is full.
  For `EnquiryBudgetKept`, `BudgetInv` sets what came through against the log: what
  a guest sent in a window that is not over is on record, the form in hand included
  (`OnRecord`), no log within a window is longer than the budget (`LogsShort`), and
  a window that is over kept to the budget as well (`PastKept`), to which nothing
  is added, for a form counts by the time it was let through.

Types of `FundLedger`, `Sessions`, `BrowserSession`, `Ownership` and `QueryThread`,
`ReversalsMirror`, `AppendOnly` and `NeverRepriced` are
therefore not repeated by the listed runs.

Only model-checked, and why:

- liveness (`LockoutEnds`, `CallsEnd` of `BrowserSession` and of `Maintenance`, `ComesUp`, `GoesDown`): out of the
  prover's reach.
- `SingleReversal` and `PairNetsToZero` (in `FundLedgerSerial`), under `SerialSpec`,
  which the code does not guarantee. The second is a sum of signed amounts over rows,
  which takes induction over data; what it rests on is proved of every behaviour: a
  correction mirrors its original (`ReversalsMirror`). The sums of `Maintenance` and `SeedData` are of amounts that
  are never negative and so are counted instead.

Every safety invariant and action property of the passing listed runs is a theorem.

## 5. Not modelled

Argon2, signatures and the randomness of tokens are taken to do what they are for.
Floating point is taken to be exact before rounding. Lists' limits (200 rows) lie
above the bounds, but where a property is about them. Parsing, wording and layout
are left out. Uploads (`media`), plumbing and configuration keep no state: a
signature computed from a request, decoding, headers, logging. Pages render what
they are answered, except for those named above. Of enquiries the column `notes` is
left out (no page sends it); of the seed, what rows say beyond plots, bills and the
fund's credit; of migrations, what each does to the data it finds: they are steps
that succeed where their objects are absent. An older image's own statements over a
newer schema are not in the repository. The clocks of the database and of the
program are taken to agree.

## 6. Plan

Done, in this order: `Access`, `LedgerPromise`, `FundLedger`, `Sessions`,
`Throttle`, `BrowserSession`, `Ownership`, `Maintenance`, `QueryThread`, `Leads`,
`SiteUpdates`, `PublicSide`, `SeedData`, `Boot`; proofs of `FundLedger`, `Sessions`,
`Maintenance`, `Boot`, `Ownership`, `QueryThread`, `BrowserSession`, `PublicSide`,
`Throttle`.

Left, beside the theorems above: composition. An owner's plot from invitation to
bill, `Ownership` and `Maintenance` over one `plots`; `BrowserSession` over the steps
of `Sessions`.
