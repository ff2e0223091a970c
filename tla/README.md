# delve-moar: formal models

TLA+ models of delve-moar, the monorepo of a D&D content catalogue: a FastAPI
and Postgres API (`apps/api`), a React single-page app (`apps/web`) and a Go
CLI (`apps/cli`). The models cover the parts whose correctness depends on the
order in which things happen: API handlers that interleave over one database,
and a browser cache that answers while requests are in flight.

- [The system](#the-system-and-its-components)
- [The modules](#the-modules)
- [How the code is modelled](#how-the-code-is-modelled)
- [Sharing](#sharing)
- [Accounts](#accounts)
- [The web app](#the-web-app)
- [The runs](#the-runs)
- [The proofs](#the-proofs)
- [Where code and documentation part](#where-code-and-documentation-part)
- [What is not modelled](#what-is-not-modelled)
- [Plan](#plan)

Paths below are relative to `src/`; `app/` stands for `apps/api/app/` and `web/`
for `apps/web/src/`.

## The system and its components

| Component | State | Operations | Interacts with |
|---|---|---|---|
| Accounts and sessions (`app/routers/auth.py`, `account.py`, `app/auth/*`) | `users`, `sessions` | signup, login, logout (this, everywhere), `/me`, reset, change password, change email, delete account | emailed links, every authenticated endpoint (each one resolves a session first) |
| Emailed links (`app/auth/email_tokens.py`, `app/mailer.py`) | `email_tokens` | issue, retire, consume; send in the background | accounts; the user's mailbox |
| Books and contents (`app/routers/books.py`) | `books`, `book_monsters/spells/items` | create, rename, delete, add and remove content | authorization, campaigns |
| Campaigns, members, invites (`campaigns.py`, `campaign_invites.py`) | `campaigns`, `campaign_books`, `campaign_members`, `campaign_invites` | create, rename, delete, enable and disable a book, invite, revoke, accept, decline, remove, leave | authorization, books, accounts |
| Authorization (`app/authz.py`) | none | readable and writable predicates | every router; reads the tables of the two rows above |
| Rate limiting (`app/rate_limit.py`) | moving windows in process memory | hit per scope and client address | runs before the handlers of auth, account and invites |
| Listing (`app/utils.py`, `app/dependencies.py`, content routers) | none | count and page, links, ordering, search | catalogue rows; the lists of the web app |
| SRD seeding (`apps/api/scripts/seed_srd.py`) | catalogue rows, the system book's links | upsert, link | books |
| Web account pages and auth state (`web/lib/auth`, `web/features/auth`) | react-query cache of `/me`, the session cookie, the location, forms and panels | fetch, sign up, in and out, verify, reset, change, delete, redirect | accounts, over HTTP; the other caches of the tab |
| Web books (`web/features/books`) | cached list and details of books, dialogs, requests in flight | create, rename, delete, fill, empty; prefetch, invalidate | books, over HTTP; the control |
| Web book control (`add-to-book-control.tsx`) | optimistic set of books, requests in flight | toggle, roll back | books and the cached detail of a content |
| Web lists (`*-grid.tsx`, `book-content-section.tsx`) | cached pages, an intersection observer, removals | next page, reload, switch filter, remove | listing, over HTTP |
| Web filters (`*-filters.tsx`, `use-*-filters.ts`) | the query string, the search box, a debounce timer | type, choose, follow a link, leave for another page | the router; the lists |
| API contract (`packages/api-types`, `web/lib/api-client.ts`) | none | which failure each operation declares; what it becomes on the screen | every mutation of the app |
| CLI (`apps/cli`) | none that outlives a command | fetch and render | the API |

What makes each part correct, and what makes it hard:

- **Accounts and sessions.** A revoked session stays revoked; a password change
  ends the sessions of the old password; nothing outlives a deleted account; no
  two accounts share an address or a username. Hard because one handler spans
  several transactions (its helpers commit on their own), a login acts on a hash
  it read earlier, sessions are renewed by a write that follows a read, and a
  request may die between two of its transactions.
- **Emailed links.** A link works once, only the newest works, and what it
  proves is the address it was sent to. Hard because consuming is a read and a
  delete, retiring and issuing are two commits, mail may be lost, and the
  address a link confirms is looked up when the link is opened.
- **Books, campaigns, members, invites.** A campaign shares only books of its
  owner; only invited accounts become members; memberships and invites end only
  by one of their two parties; deletions leave no dangling row. Hard because
  every handler reads the rows it authorizes against in statements that precede
  its write, under READ COMMITTED.
- **Authorization.** Read access to a book is the sum of several independently
  changing tables; it must only ever widen by an act of the book's owner or of
  the reader accepting an invite.
- **Rate limiting.** No window holds more hits than its budget.
- **Listing.** A page has the rows at its offset, and the count tells whether more
  follow. Hard because the two are read in separate statements.
- **Web account pages.** The tab shows the account its cookie belongs to; a
  guard or link panel comes to a decision and keeps it; every failure is seen in
  exactly one place. Hard because `/me` requests cross mutations, pages are left
  before answers come, and toasts, fields and panels decide independently
  whether a failure is theirs.
- **Web books.** What a tab has written it reads back, whatever fetches were
  under way when the answer came.
- **Web book control.** The checkboxes agree with the server when nothing is in
  flight. Hard because toggles overtake each other and only the last call of a
  mutation calls back.
- **Web lists.** The rows shown are the first of those there are, and a visitor
  at the end of a list gets the next page. Hard because removals, reloads and
  further pages replace one another, and the observer reports only changes.
- **Web filters.** No filter that is on the screen is lost to another one's
  setter; the filters of a page fit together; box and URL end up equal. Hard
  because the URL, its rendering and the debounce timer move separately, and a
  setter writes from the URL of its render.

`PROJECT.json` lists the hazards of this code at the lines where they bite,
with the properties that watch them.

## The modules

| Module | What it is |
|---|---|
| `AccessPolicy` | the abstract specification of books, campaigns and invites: each promise kept in one step |
| `Sharing` | books, contents, campaigns, members, invites and the access rules over them, with every writing handler; implements `AccessPolicy` |
| `Accounts` | accounts, sessions and emailed links, with every handler of `auth.py` and the writing handlers of `account.py` |
| `ApiContract` | the declared success and failures of each operation the web app mutates with, from the generated types |
| `WebClient` | from a failure to what the user sees: error codes, toasts, fields; operators only |
| `WebAccount` | one tab: identity, cookie, location, and every account mutation, over an API of atomic steps; extends `WebClient` |
| `WebBooks` | one tab: the cached books, their dialogs and mutations; extends `WebClient` |
| `BookControl` | the "add to book" control and the cached detail it starts from |
| `ContentList` | a catalogue grid or a section of a book, page by page, with removals |
| `BrowseFilters` | the filters of the catalogue pages: location, rendering, lazy navigation, search box, timer |
| `MCSharing`, `MCAccounts`, `MCWebAccount`, `MCWebBooks`, `MCBookControl`, `MCContentList` | values and symmetry of the constants, for TLC |
| `SharingProofs`, `PolicyProofs`, `AccountsProofs`, `WebAccountProofs`, `WebBooksProofs`, `BookControlProofs`, `ContentListProofs`, `BrowseFiltersProofs` | theorems about the module named (`PolicyProofs`: `Sharing`), for every value of its constants |

`Sharing` and `Accounts` share one thing, the deletion of an account, which
each models on its own tables; everything else `Accounts` does happens before a
handler of `Sharing` starts (the session is resolved and the user loaded). So
they are checked separately, and `Sharing`'s requests carry the account that
authentication yielded.

The web modules see the API from outside. `WebAccount` has accounts, sessions
and links as one atomic step per request: what a client can tell of `Accounts`
with one request at work at a time. `WebBooks`, `BookControl` and `ContentList`
share the cache invalidation of a membership change, each with the entries it
is about: books, the detail of a content, the pages of a section. They are
separate because no code reads one's entries to write another's.

## How the code is modelled

**Requests.** A request is a record in a slot of `Req`: its operation, the stage
it has reached, and its arguments. `Receive` starts one, each handler is an
operator named after the function it models, and each disjunct of a handler is
one awaited statement of that function, with the commit that ends the
transaction if one follows. Local variables that are used after an `await` are
fields of the record (`inv` of a lapsed invite, `email` of a pending address),
or are remembered in the stage (`retaken` is `taken` with a pending address
that equals the new one, `stamp` is `swap` without a change). `Answer` ends a
request with the class of its HTTP status.

**Transactions.** Postgres runs at READ COMMITTED, so each statement sees what
is committed when it starts, and two handlers interleave between any two
statements. Constraints are part of the inserting step: unique columns, primary
keys and foreign keys either let the row in or make the request fail. An ORM
`UPDATE` of a row that is gone raises (500), a `DELETE` of one only warns. All
foreign keys are `ON DELETE CASCADE`, so a deletion removes its dependents in
the same step. A statement that writes and the commit that follows are one step;
concurrent writers of one row are serialised by its lock.

**Ids.** Rows are identified by members of finite pools, and an id is used once.
A request that would insert a row is only sent while an id is left for it
(`IdsLeft` counts the ones requests in flight will need): a bound of the model,
not of the program. A request may name any id that was ever handed out, so
requests on deleted rows are in.

**Abstractions.** A handle or identifier stands for the account it resolves to.
A password hash is the password it was made from, plus a flag for outdated
parameters. Time is the order of its consequences: a session is fresh, past
half of its life (it slides) or expired; an invite or link lapses at some step.
Names, descriptions, rendering, log lines and analytics are left out. Rate
limiting and the CSRF check come before the handler: requests here passed them.

**Histories and exceptions.** Some variables exist only for the properties:
`outdated` and `proven` in `Accounts`, `crossed` in `WebAccount`, `own` and
`unsure` in `WebBooks`, `trusted` in `BookControl`, `unsure` in the caches,
`observer.lost` in `ContentList`, the value `"back"` of `event` in
`BrowseFilters`. `unsure` marks the situations in which the code does not keep
an entry true (an answer was lost; a fetch the invalidation leaves running may
predate a write).
`trusted` is off for a box that was clicked again before its answer, or whose
roll-back was given up, and `observer.lost` is on from the moment a failed page
takes the sentinel of a grid off the screen. The properties except exactly
those, and their comments name them, and so do the comments of the theorems
that state them; that the exceptions are real is described
[below](#where-code-and-documentation-part).

**Faulty variants.** Each module holds, next to some operators, a variant with
a plausible mistake (a check not scoped, a missing constraint, steps swapped).
No action uses them. They show that the properties are sensitive: substituted
for the original, each makes TLC report the property it is meant for.

## Sharing

| State | Code |
|---|---|
| `users`, `books`, `campaigns`, `invites` | the rows that exist, of `app/models/` |
| `bookOwner`, `campaignOwner`, `inviteCamp`, `inviteUser` | their foreign keys, written once at insertion |
| `lapsed` | invites with `expires_at` in the past |
| `enabled`, `members`, `contents` | `campaign_books`, `campaign_members`, `book_monsters/spells/items` |
| `req`, `answer` | requests in flight and their answers |

| Action | Code |
|---|---|
| `CanReadBook`, `CanReadCampaign`, `GetWritableBook`, `GetWritableCampaign`, `AuthorizeMemberRemoval`, `GetOwnInvite` | `app/authz.py` |
| `CreateBook`, `UpdateBook`, `DeleteBook`, `AddContent`, `RemoveContent` | `app/routers/books.py` |
| `CreateCampaign`, `UpdateCampaign`, `DeleteCampaign`, `EnableBook`, `DisableBook`, `InviteMember`, `RevokeInvite`, `RemoveMember` | `app/routers/campaigns.py` |
| `AcceptInvite`, `DeclineInvite` | `app/routers/campaign_invites.py` |
| `DeleteAccount`, `Lapse` | `account.py`, the clock |

The system book (`SrdBook`) has no owner. The last account is never deleted, so
that some client is always left: a bound of the model.

**Refinement.** `ImplementsPolicy` is `AccessPolicy`'s specification under the
mapping `asked <- Asked, pending <- Pending`: the parties of every invite there
ever was, and of those there are. The other variables map to themselves. The
policy has no requests, ids of invites or expiry: sharing a book, inviting,
joining or deleting is one step with its full guard, in the state in which it
takes effect. `Sharing` checks that guard in statements that precede the write,
so the refinement says that every commit is still allowed when it happens.
What the policy allows on purpose, because the code does: a join after the
invite was withdrawn, provided the account was invited at some time, and an
invite to a member.

## Accounts

| State | Code |
|---|---|
| `users`, `name`, `email`, `pending`, `password`, `weak`, `verified` | `users` and its columns; `name` stays after a deletion, as the mark of a used id |
| `session`, `holder` | `sessions`: `unused` ids are not inserted yet, `revoked` rows are deleted |
| `tokens`, `link`, `lapsed`, `mailed` | `email_tokens`, the row of each and the address it was sent to (the database has no such column), and which emails went out |
| `outdated`, `proven` | history: live sessions older than their account's password; pairs of account and address whose link was opened |
| `req`, `answer` | as in `Sharing` |

| Action | Code |
|---|---|
| `ResolveSession`, `Slide`, `LoadUser` | `get_current_user`, `resolve_session`: the three statements before each authenticated handler |
| `InsertSession`, `Revoke`, `RevokeAll` | `app/auth/sessions.py` |
| `IssueLink`, `RetireLinks`, `ConsumeLink` | `app/auth/email_tokens.py` |
| `SendMail` | the background task of `app/mailer.py` |
| `Signup`, `Login`, `Me`, `Logout`, `LogoutEverywhere`, `VerifyEmail`, `ResendVerification`, `RequestReset`, `ConfirmReset`, `ConfirmEmailChange` | `app/routers/auth.py` |
| `ChangePassword`, `ChangeEmail`, `DeleteAccount` | `app/routers/account.py` |
| `AgeSession`, `Lapse` | the clock |
| `Crash` | a process or connection dies: the open transaction is rolled back, earlier commits stay |
| `Upgrade` | a deployment with stronger hash parameters |

`Op` and `Event` name the operations and events of an instance. Accounts in
`Established` exist at the start with arbitrary distinct names and addresses,
unverified and without sessions.

## The web app

The query cache is React Query, which is not in the repository. It is modelled
from how the app uses it and configures it (`web/lib/react-query.ts`): one entry
per key, one fetch per entry at a time, a failure after one retry; fresh entries
are not loaded again, stale ones are when they come into view or the connection
comes back; `setQueryData` writes an entry and lets a fetch go on;
`invalidateQueries` makes entries stale and loads those in view again, in place
of a fetch under way if there are data already; callbacks of a hook always run,
those given to `mutate` only for the last call of a component that is still
mounted. A component that is unmounted loses its callbacks (`Unmount`, `Kept`).

**`WebAccount`**

| State | Code |
|---|---|
| `me` | the `/me` query: data, the request under way and the session it was sent with (`web/lib/auth/api.ts`) |
| `jar` | the session cookie and its `dm_csrf` companion |
| `tab` | page, link of an email, navigation under way, open dialog, phase of a link panel |
| `mut` | the request of each mutation: stage, session sent, who is still there to be called back |
| `books` | whose list the owned-books query holds |
| `accounts`, `verified`, `links`, `sess` | the API, as far as a tab can tell |

| Action | Code |
|---|---|
| `LoginForm`, `SignupForm`, `ForgotPasswordForm`, `ResetPasswordForm`, `AccountPanel`, `AccountDangerZone`, `ChangePasswordDialog`, `ChangeEmailDialog`, `AuthMenu` | a request sent by that component |
| `VerifyEmailPanel`, `EmailChangeConfirmPanel` | the effect of the panel, once per mount because of its ref |
| `Serve`, `Settle` | the handler; the answer, a refusal or a network error reaching the tab: cookies, hook, callback |
| `Reconnect`, `ServeMe`, `SettleMe` | the `/me` query |
| `Redirect`, `Arrive`, `Follow`, `Load`, `OpenDialog`, `CloseDialog` | `ProtectedRoute`, the router, the visitor |
| `getOwnedBooks`, `DropBooks` | the book list: loaded by its page or a hover, dropped when old |
| `EndElsewhere`, `Lapse` | another browser, the clock |

**`WebBooks`**: `query`, `fetch` (cache entries of the list and of each detail),
`dialog`, `requests`, `db`. `Submit`, `Toggle` and `RemoveRow` send requests of
the dialogs, the control and the sections; `Serve` and `Elsewhere` write;
`Succeed` runs `onSuccess` of `create-book.ts`, `update-book.ts`,
`delete-book.ts` or `content-membership.ts` and closes the dialog that is open
by then; `Go`, `Prefetch`, `Reconnect` load entries. A write is known by its
number: `at` for name and description, `filled` for contents.

**`BookControl`**: `checked` is `checkedIds`; `requests` are those of its two
mutations and of removals on book pages; `detail` and `fetch` are the cached
content. `toggle`, `rollBack`, `invalidateAfterMembership` are named after the
code; `Open` and `ReceiveDetail` mount the control, `Leave` and `SignOut`
unmount it.

**`ContentList`**: `query` and `fetch` are one entry per filter; a fetch counts,
reads and receives each page (`CountRows`, `ReadRows`, `Receive`). `Render` is
what follows from a change of what is shown: the effect is run again when
`EffectDeps` changed, and its new observer reports if the end of the list is in
view (`observer.due`); `Intersect` is that report. `Prefetch` is a hover over
the link to a list. `OnRemove`, `OnConfirm` and
the actions after them are a removal.

**`BrowseFilters`**

| State | Code |
|---|---|
| `page`, `url` | the router's location |
| `going` | a navigation to another page, whose module is being loaded |
| `mounted`, `shown` | the page on the screen and the query string it was last rendered with |
| `input`, `prev` | `searchInput` and `prevUrlSearch` of the filter component |
| `timer` | the debounce: the text it will write, and the query string its `setSearch` was made with |

`Type`, `SetKind`, `SetMin`, `SetMax` and `SetRarity` are the visitor at the
controls, `Fire` is the timer; each setter starts from `RenderedParams`, the
query string of the render that made it, and `Navigate` puts the result into the
location at once. `Follow` is a link to the same page or the back button,
`Leave` one to another page; `Arrive` is the end of its loading, and until then
the page that is left stays on the screen with its timer running. `Commit` is a
render: an effect that is run again, since every setter is a new function.
Leaving for a detail page and coming back is leaving for another page. A setter
of a page that the router has left writes to the location it finds
(`Carried`): of its parameters the next page reads the search, since the others
have names of their own.

Assumptions about libraries that a result rests on:

- The function given to `setSearchParams` is called with the parameters of the
  render that created the setter; the router does not queue such functions the
  way `useState` does. This is how the router documents it, and it is the
  opposite of what ADR 0013 says
  (see [below](#where-code-and-documentation-part)).
- A navigation takes the place of one that is pending (`going' = None` in
  `Navigate`). A page that fails to load is left out.
- An intersection observer reports once when it begins to watch an element, and
  then on changes.

## The runs

Handlers of the API have no loops and never wait for one another, so every
request ends if its process lives; those runs check safety and deadlock. (A
state in which all ids are used is no deadlock: some request that inserts
nothing can still be sent.) Liveness is checked in the web app, where something
has to happen after an answer, a timer or a report of the browser.

| Run | Instance | Checks |
|---|---|---|
| `sharing_membership` | 3 accounts, 2 campaigns, 2 invites, 2 requests | `MembersWereInvited`, `OwnerIsNoMember`, `OneInvitePerPair`, `RemovedByOwnerOrSelf`, `InviteEndsByParty`, `ImplementsPolicy` |
| `sharing_access` | 2 accounts, 1 book besides the system's, 2 campaigns, 1 invite, 1 content, 2 requests | `TypeOK`, `SharedByOwner`, `NoDanglingRows`, `AccessIsGranted`, `ContentsChangeByOwner`, `ImplementsPolicy` |
| `accounts_sessions` | 1 account, 2 passwords, 3 sessions, 1 link, 2 requests, aging | `NothingOutlivesAccount`, `OldSessionsAreRevoked`, `RevokedForGood` |
| `accounts_identity` | 2 accounts of which 1 exists, 2 names, 3 addresses, 3 sessions, 2 links, 2 requests, upgrades | `TypeOK`, `AccountsAreDistinct` |
| `accounts_proof` | 1 account, 3 addresses, 3 links, 1 request, lapses and crashes | `VerifiedIsProven`, `OneLinkPerPurpose`, `LinkConfirmsItsAddress` |
| `web_pages` | 1 account, 2 sessions, all 12 mutations, 1 link, 1 mutation at a time | `TypeOK`, `FailureShownOnce`, `VerdictStands` |
| `web_identity` | 2 accounts, 2 sessions; login, logout, verification; 1 link, 1 mutation at a time | `CacheAgrees`, `GuardDecides`, `PanelDecides` |
| `web_other_books` | 2 accounts, 2 sessions; login, logout, the book list | `BooksAreTheirs`, expected to be violated |
| `my_books` | 1 book, 2 requests, 2 writes | `TypeOK`, `ReadsOwnWrites`, `BookFailureShown` |
| `web_control` | 2 books, 3 requests | `TypeOK`, `BoxesAgree`, `FreshDetailAgrees` |
| `list_rows` | 3 rows of which 1 can be removed, 2 filters, pages of 1; grid and section | `TypeOK`, `FreshListAgrees`, `NeverStranded` |
| `browse_filters` | 2 texts, 2 kinds, 2 bounds, 1 rarity, 2 pages, 3 moves | `TypeOK`, `BoxWritesWhatItShows`, `RenderedFiltersSurvive`, `ChoicesFit`, `Settles` |

Why the bounds suffice, for the API. The hazards are races of two requests: two
slots give every interleaving of two handlers, while rows made by earlier
requests stay. `sharing_membership` needs a third account (owner, invitee, and
one to remove or invite instead), a second campaign (an id of one used on the
other) and a second invite (a repeated one). `sharing_access` needs two
campaigns with different owners that want one book. `accounts_sessions` needs
two passwords (old and new) and three sessions (of the device that changes the
password, of another, and the one opened by a racing login). `accounts_identity`
needs three addresses: one contested and one to leave from for each side.
`accounts_proof` needs three links (one outstanding, one newer and one of
another purpose) and three addresses (live, pending, next). The theorems below
lift every invariant and action property from these bounds to any.

For the web app. `MaxInFlight` is 1: mutations of the account pages come from
one page at a time, and the crossing that matters is of a mutation with the
`/me` request, which is not counted. Two sessions are needed for a session in
the cookie and one that replaces it or belongs to the other account. `MaxLinks`
1 is enough for a link that is spent, lapses or is opened twice. `my_books`
needs two requests (an update and whatever overtakes it) and two writes (one to
be lost behind the other); books do not influence one another. `web_control`
needs two books (a roll-back that puts back another box) and three requests (two
toggles of one book and one of the other; a third of the same kind takes away
the callback of the first). `list_rows` has three pages, so that a reload of two
is overtaken by a third; pages of one row make every removal move a page
boundary. Pages fail in the grid as well as in the section. A row may be removed
again once the answer to its last removal is there, but not while that request
is under way: a bound, which keeps one request per row. `browse_filters` needs
three moves: a text, a choice, a link or a leave while its timer runs, and one
more before either is rendered. Two texts (one empty) tell the text of the box
from that of the URL, two pages one that has bounds from one that has rarities.
The deadlock check is off there, because the visitor may stop.

Ids, accounts and slots are interchangeable, so runs that check no liveness use
their permutations as symmetry, for which this is sound.

Fairness is weak, and of steps that no visitor decides:

- `WebAccount`: a request is answered or fails (`Settle`, `ServeMe`,
  `SettleMe`), since the browser gives up on none for ever; React runs the
  effects of what is mounted (`Redirect`, the panels) and the router finishes
  navigations (`Arrive`). That the server does what is asked (`Serve`) is not
  assumed. `Patience` excludes a visitor who reloads the document for ever.
- `ContentList`: a fetch is answered or fails, and the browser delivers the
  reports of its observers. Scrolling, reconnecting and removing are not
  assumed.
- `BrowseFilters`: timers go off (`Fire`), pages that are asked for are loaded
  (`Arrive`) and the router renders (`Commit`). `Settles` needs no more because
  the visitor's moves are bounded.
- `Sharing`, `Accounts`, `WebBooks`, `BookControl`: none.

What `accounts_proof` shows is limited on purpose to one request at a time,
with requests cut off anywhere: two that overlap break each of its three
properties (see below), which the docstrings do not foresee.

`accounts_sessions` has no crash: a request that dies between setting the
password and revoking the sessions leaves them live, and no later step of the
code makes up for it. `OldSessionsAreRevoked` is stated for requests that run to
their end.

## The proofs

`tlapm` checks the eight modules of theorems. They hold for any constants that
satisfy the assumptions of their module (pools are disjoint from `None`,
operations and events are known ones, rows are finitely many numbers): any
number of accounts, rows and concurrent requests. Every invariant and every
action property that a passing run checks is stated by a theorem; a run shows it
on a small instance, and that the instance is sensitive to mistakes in the code.
The strengthenings that the proofs need were checked by TLC on instances of the
size of the runs before they were proved.

| Module | Theorems and the properties they state |
|---|---|
| `SharingProofs` | `TypeCorrect`; `SharingIsByOwner` (`SharedByOwner`), `MembershipIsByInvite` (`MembersWereInvited`), `OwnersAreNotMembers` (`OwnerIsNoMember`), `InvitesAreUnique` (`OneInvitePerPair`), `DeletionsCascade` (`NoDanglingRows`) |
| `PolicyProofs` | `PolicyIsImplemented` (`ImplementsPolicy`), `AccessOnlyByGrant` (`AccessIsGranted`), `MembersLeaveByRight` (`RemovedByOwnerOrSelf`), `InvitesEndByRight` (`InviteEndsByParty`), `ContentsAreTheOwners` (`ContentsChangeByOwner`) |
| `AccountsProofs` | `TypeCorrect`, `DeletionIsComplete` (`NothingOutlivesAccount`), `AccountsStayDistinct` (`AccountsAreDistinct`), `SignOutIsFinal` (`RevokedForGood`); without crashes `PasswordChangeRevokes` (`OldSessionsAreRevoked`); one request at a time `VerificationIsEarned` (`VerifiedIsProven`), `OnlyNewestLinkWorks` (`OneLinkPerPurpose`), `ConfirmationsFit` (`LinkConfirmsItsAddress`) |
| `WebAccountProofs` | `TypeCorrect`, `CacheStaysRight` (`CacheAgrees`), `FailuresShownOnce` (`FailureShownOnce`), `VerdictsStand` (`VerdictStands`) |
| `WebBooksProofs` | `TypeCorrect`, `OwnWritesAreRead` (`ReadsOwnWrites`), `BookFailuresAreSeen` (`BookFailureShown`) |
| `BookControlProofs` | `TypeCorrect`, `BoxesStayRight` (`BoxesAgree`), `FreshDetailIsRight` (`FreshDetailAgrees`) |
| `ContentListProofs` | `TypeCorrect`, `FreshListsAreRight` (`FreshListAgrees`) |
| `BrowseFiltersProofs` | `TypeCorrect`, `BoxIsWritten` (`BoxWritesWhatItShows`), `RenderedFiltersAreKept` (`RenderedFiltersSurvive`), `ChoicesAlwaysFit` (`ChoicesFit`) |

`TypeCorrect` states `TypeOK` in each.

**`SharingProofs`.** The handlers check ownership in one statement and write in
a later one, so none of its invariants is inductive: the check has to be
remembered. The invariant `IInv` adds

- `AllCleared`: a request that is past a check still satisfies the part of it
  that cannot change. An `enable_book` at its insert was sent by the owner of
  the campaign and of the book, whether or not these rows still exist; an
  `invite_member` at its insert addresses somebody else than the owner; an
  `accept_invite` at its write is its invitee's.
- `InvitesAddressOthers` and `LiveInvitesMinted`: no invite was ever addressed
  to the owner of its campaign.

The argument is that owner columns and the parties of an invite are written once
(`OwnersKept`), so what was checked stays true after the rows are gone, and the
constraints on the insert supply the rest. `Growth` says what one step of any
handler may add to the tables; each part of the invariant follows from it.
`DeletionsCascade` needs no more than types: every insert checks its foreign
keys, every deletion cascades.

**`AccountsProofs`.** `TypeInv` is the inductive invariant: the three groups of
tables (a live account has all its columns, a live session or link has a live
owner) and, for the requests, what a handler has put into its record by the time
it reaches a stage (`ArgsFit`, `StageFits`). That is needed because an address
or link id is stored in the record at one stage and written to a table at a
later one. Session and token ids that were handed out keep their rows' keys
(`Kept`), which carries the facts of the other requests across a step.
`NothingOutlivesAccount` is part of it. `AccountsAreDistinct` follows since a
step keeps, swaps or inserts the two unique columns (`Keeps`, `Swaps`,
`Inserts`) and the last two are guarded by the constraint.
`PasswordChangeRevokes` assumes that no request is cut off (`"crash" \notin
Event`): a step makes sessions outdated only when its request moves to the stage
`revoke`, and a request leaves that stage only by revoking all the sessions of
its account. `SignOutIsFinal` needs only types: a session is inserted under a
token never handed out before, and a renewal updates a row that is still there.

The three theorems on links assume that requests come one at a time
(`\A p, q \in Req : p = q`, the one slot of `accounts_proof`), because
two requests that overlap break each of their properties; the requests may be
cut off anywhere, and links lapse in between. `LinkInv` says what a handler
relies on between its transactions (`Relies`): a request that has spent its link
has proven the address it will mark (`Opened`), one about to issue a link has
retired the older ones, one about to swap addresses still holds the pending
one. With that, `NewestOnly` (one link for each account and purpose) and
`LinksFit` (a link went to the address it is about) are kept by every step. A
request that is cut off leaves the tables as after its last commit, and relies
on nothing.

**`PolicyProofs`.** `PolicyIsImplemented`: `Sharing` implements `AccessPolicy`,
for any pools and any number of requests. On top of `IInv` and
`NoDanglingRows` it needs `RequestsKnow`: a request under way has the arguments
its operation takes, and one that edits a book has seen that somebody owns it,
which the owner column then keeps. Each handler is matched with the step of the
policy its commit takes (`HandleSeen`); deletions need that the cascade in
`Sharing`, written table by table, removes what the policy's does
(`CascadeSeen`), and the steps on invites that no two rows have the same parties
(`InvitesAreUnique`), so that deleting a row removes the pair.

The second half names, for each change of access, membership, invites and
contents, the request it is due to. `DueInv` adds to the invariant what a
request is entitled to at a stage by the checks before it (`Entitled`): a
removal at its write is of the owner or of the member, a revocation at its
delete is of an invite of the caller's campaign, an edit of contents is of the
book's owner. It also says that a request under way is unanswered, so that
the step that writes is the one that answers. `Effect` is what any step may
write; each theorem reads off it which operations can make its change, and takes
the sender's right from `Entitled`. New read access needs a case for each
of the tables `CanReadBook` reads.

**`WebAccountProofs`.** `CacheAgrees` relates the identity shown to the cookie;
what puts the two at odds is an answer that comes late, so the invariant follows
everything that is on its way:

- `AnswersHold`: the session an answer brings is one of its account, or ended
  since; the sender of an answered change of password has lost its old session.
- `NewIsNowhere`: a session that an answer will bring is not yet in the cookie,
  in a `/me` request or in another answer. Tokens are reused, so this is what
  keeps an old request from being of a new session.
- `FetchedIsOfJar`: a `/me` request that nothing crossed carries the session of
  the cookie, or an ended one, and its answer is of that account.
- `PasswordKeepsThem`: a change of password replaces the cookie without setting
  the identity. Its new session is of the account shown, fetched or changed
  already.

`VerdictsStand` needs of `RequestsHold` that a panel which waits has not
decided. `FailuresShownOnce` is a case analysis of the codes an
operation can fail with and of what toasts and fields do with each.

**`WebBooksProofs`.** `ReadsOwnWrites` says that a fresh entry has the writes
this tab was told of. For a step that stores a fetch one has to know what the
fetch brings, so `IInv` adds that nothing is told that was not written
(`RowsNotAhead`, `OwnIsWritten`, `ToldIsWritten`), and that a fetch which was
served, and which no answer has made `unsure` since, has everything told
(`FetchHasOwn`). `BookFailuresAreSeen` goes through the codes of the book
operations: none of them is shown inline.

**`BrowseFiltersProofs`.** A setter writes from the URL of its render, so what
it does to the present URL depends on which render that is. `SetterIsRendered`
says that a debounce under way has the text of the box and the setter of the
render on the screen (`BoxIsWritten` is a part of it), because every render runs
the effect again. `LinksOnlyMisfit` says that a location that differs from a
fitting screen fits too unless a link brought it. With these two, `StepWrites`
says what any step may write where screen and URL agree, which is
`RenderedFiltersAreKept`, and `SettersFit` that every setter keeps a range and a
category that fit, which gives `ChoicesAlwaysFit`.

**`BookControlProofs`.** `BoxesAgree` speaks of boxes for which nothing is under
way; `TrustedRight` adds what holds meanwhile: a box that is relied on has at
most one request, shows what that request asks for, and differs from the
database exactly until it is served. `FreshRight` does the same for the detail:
a fetch that was served has the memberships of the database unless a request was
served since, and the answer to that one makes the detail stale.

**`ContentListProofs`.** For any rows, filters and page size. `FreshListAgrees`
speaks of moments when nothing is on its way; `ListRight` says what holds
meanwhile. As long as no removal was served that the tab has not been told of,
an entry that is not stale holds the first rows that match, as many as its
pages have room for, and knows whether more follow (`EntryFits`); a fetch holds
the first rows up to the page it asks for, the count it has read is the present
one, and so is the page (`FetchFits`). The count and the page are two reads, and
a removal served between them, or between two pages, breaks this; its answer
makes the entry stale and starts it anew, or else the entry is `unsure`. The
lemmas on ranks (`RankGrows`, `PageExtends`, `FirstOfLeads`) say that the page at
an offset continues the rows before it. `TypeOK` bounds the rows a fetch holds by
the room of its pages, which needs that a page, cut out by rank, has at most
`Limit` rows: their ranks are as many different numbers.

Only model-checked: the liveness properties `GuardDecides`, `PanelDecides`,
`NeverStranded` and `Settles`. They rest on fairness, hence on `ENABLED`, which
the prover cannot reason about. `BooksAreTheirs` is refuted by its run. No module
uses a recursive operator, and nothing is proved by induction over data.

## Where code and documentation part

The run `web_other_books` ends in a counterexample: one account logs out and
another logs in, and My Books ("Collections you own.", `my-books.tsx:38`) shows
the list cached for the first. The query key has no account in it, the list
counts as fresh for five minutes, and nothing clears the cache.

The models contain more behaviours that a comment, docstring or caller does not
foresee. They have no run of their own; the properties that would be affected
name them as exceptions.

In the API, with two overlapping requests:

- an owner revokes an invite after the invitee's accept has read it: the accept
  commits the membership all the same (`campaign_invites.py:99`);
- an accept that commits between the two checks of a second invite leaves a
  member with a pending invite (`campaigns.py:490`);
- two requests with one link both read it before either deletes it, and both go
  on (`email_tokens.py:70`);
- a confirmation link is spent, the pending address is changed, and the swap
  writes the newer address, whose own link nobody opened (`auth.py:361`);
- a login with the old password rehashes it over the password set meanwhile
  (`auth.py:255`), or opens its session after the change revoked the rest;
- two concurrent enables of one book (or adds of one content) make one of them
  fail with 500 although the call is documented as idempotent; an invite refused
  because its invitee or campaign was deleted is answered `ALREADY_INVITED`; a
  signup whose competitor is deleted before the second lookup blames the
  address; two requests for a link leave two that work.

In the web app:

- ADR 0013 says of the functional form of `setSearchParams` that a setter "reads
  the latest URL instead of a captured snapshot"
  (`docs/decisions/0013-stateful-side-effecting-hooks.md:35`). It is called with
  the parameters of its render (`use-monster-filters.ts:38`), so of two setters
  that run before a render the second undoes the first: a debounce that goes off
  between a choice and its render wipes the choice. `RenderedFiltersSurvive`
  says what is left of the promise: it speaks of filters that are on the screen
  as the URL has them. TLC refutes it without that condition;
- the page that asks for a reset link says "A verified email is required to
  receive a reset link." (`forgot-password-form.tsx:49`), but the API mails one
  to every account it finds, verified or not (`auth.py:435`), and so does
  `WebAccount`;
- a `/me` request under way when somebody signs in or out answers late and
  overwrites the identity (`web/lib/auth/api.ts:150`; `crossed`), and so does
  the answer to a change of address that was sent with another session than
  the browser has by then (`Overtaken`);
- a box of the control that is clicked again before its answer, or one whose
  roll-back was given up for a later request, stays wrong; boxes mounted from a
  stale or anonymous detail are never set again (`add-to-book-control.tsx:83`);
- a failed removal raises two messages (`book-content-sections.tsx:90`);
- a next page asked for after a removal cancels the reload, and the old pages
  count as fresh (`content-membership.ts:39`; `unsure`);
- a failed page takes a grid and its loaded rows off the screen, sentinel
  included. When a reload brings the list back, none of the dependencies of the
  effect has changed, so the new sentinel is not observed and scrolling loads
  no further page (`monster-grid.tsx:51`; `observer.lost`);
- a section whose end is in view asks again at once, for as long as loading
  fails (`book-content-section.tsx:86`);
- the fields of the edit dialog are set again when the cached book changes,
  though the comment says "on open" (`book-form-dialog.tsx:21`); and both fields
  are sent, over what another browser saved;
- a keystroke between the URL taking a debounced search and its render is
  overwritten (`monster-filters.tsx:36`);
- a debounce that goes off while a page is being loaded takes the place of that
  navigation: the link that was clicked leads nowhere (`monster-filters.tsx:47`);
- a link to the URL that is still on the screen, followed before the search just
  written was rendered, leaves nothing to render, and the box keeps a text the
  URL no longer has (`monster-filters.tsx:53`; `event = "back"`);
- typing "12" as an upper bound with a lower bound of 5 passes through 1 and
  takes the lower bound with it (`use-monster-filters.ts:86`);
- the contract declares `HTTPValidationError` for 422 while the API sends its
  own `ErrorResponse`, and leaves out the 401 and 403 of `logout` and the book
  operations: `Failures` has what is sent.

## What is not modelled

- Reading endpoints of books and campaigns, except through the access rules:
  they change nothing. The account export's content and the membership
  annotations of content lists are presentation.
- The check that a content to be added to a book exists (`books.py:327`, a 404):
  `contents` are of a fixed catalogue.
- Ordering and search of lists: expressions the database evaluates; a list is in
  some fixed order. Rows are not inserted while a list is shown, since only
  seeding inserts catalogue rows. The list `ContentList` starts with is the
  first one shown in the tab.
- Aging of cached books, contents and lists (five minutes): it makes entries
  stale, which only brings what is loaded anew. Two tabs of one browser.
- More than one logout under way: the header menu has no loading state, so a
  visitor can ask twice; the second finds the session gone.
- Rate limiting: hit and count are one call of a library, with its state in the
  memory of one process. A refusal is one of the failures of `WebClient`.
- Seeding: a script an operator runs, one upsert per row.
- Content schemas, validation, serialization: data the properties do not tell
  apart.
- Migrations: the keys and cascades they create are in the models.
- Stat blocks, landing page, design system, analytics, monitoring: rendering.
- The CLI, a request per command. Configuration, logging, deployment.

## Plan

What is left, in order of what it would add:

1. An abstract specification of sessions (who is signed in, from login to
   revocation) that `Accounts` implements where no request is cut off, stated
   as a property of `accounts_sessions` and proved from `TypeInv`.
2. An abstract cache (entries that are right, stale or unsure) that `BookControl`
   and `ContentList` implement, if it says more than their invariants do.
3. `ContentList`: rows that appear while a list is shown, as a seeding run
   would add them.
4. `WebAccount` with two tabs of one browser: cookies shared, caches not.
