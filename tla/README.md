# Authix in TLA+

Authix is a passwordless checkout: an account is registered with an e-mail, the
API hands out a six-digit one-time code, the code is exchanged for a session
cookie, and a checkout is stored for the session's user or for a guest. This
directory holds TLA+ modules of that system, TLC instances that check them and
TLAPS proofs about them. Paths are relative to the repository's root, `auth.go`
is `backend/internal/services/auth.go`, `api.go` is
`backend/internal/handlers/api.go`, `user.go` is
`backend/internal/repositories/user.go`, `migrate.go` is
`backend/internal/database/migrate.go`, `main.go` is `backend/cmd/api/main.go`,
`App.tsx`, `OtpModal.tsx` and `useEmailRecognition.ts` are the files of these names
under `frontend/src/`.

## Inventory

| Part | State | Operations | Talks to | What is hard |
|---|---|---|---|---|
| One-time codes (`auth.go`, `user.go`, migration 0001) | table `users`: the row, the hash, issue time and use time of its code | `Register`, `ReissueOTP`, `VerifyOTP`, `LookupRegistered`, `FindUserByID` | limiter, PostgreSQL | several SQL statements per call with no transaction around them; decisions on a row read earlier; expiry; lost answers |
| Failed-attempt limiter (`auth.go:60-109`) | a map of times in the memory of the process | `isLimited`, `recordFailure` | the clock | asked and told in two critical sections; pruned lazily; a rolling window |
| Sessions (`services/session.go`, `repositories/session.go`, migration 0003) | table `sessions` | `Create`, `Validate`, `Revoke` | PostgreSQL | expiry and revocation against calls under way |
| Checkout (`services/checkout.go`, `repositories/checkout.go`, migration 0002) | table `checkouts` | `Submit` | PostgreSQL | who it is written for; resubmission |
| HTTP handlers (`api.go`) | none; the cookie in each browser | seven routes, CORS | the services | code consumed before the session exists; lost responses; cookies of ended sessions |
| Start-up and migrations (`main.go`, `migrate.go`, `database.go`) | `schema_migrations` | `WaitForReady`, `DiscoverMigrations`, `AppliedVersions`, `Run`, `runOne` | PostgreSQL, other processes | processes of different releases at once; kills; a query error read as "nothing applied" |
| E-mail recognition (`frontend/src/features/auth/useEmailRecognition.ts`) | e-mail, status, user, request number | typing, debounce, answers | the lookup route | late and cancelled answers |
| Checkout page and code dialog (`App.tsx`, `OtpModal.tsx`) | who is signed in, whose dialog was dismissed or suppressed | register, reissue, verify, sign out, submit, dismiss | all routes | answers after newer events, guards that are reset in some paths only |
| Validators (`auth.go`, `services/checkout.go`, `frontend/src/lib/validation.ts`) | none | pure | | two copies of the same rules |
| Configuration, health, CORS, presentation | none | | | |

What makes each part correct: a code logs in once, only with the account it was
issued to, never after its lifetime or after it was replaced; at most five
counted failures of an e-mail in any 15 minutes, and a lockout that ends; a
session exists only for a redeemed code and identifies its user until it is
revoked or expires; a checkout is a guest's only when nobody claimed to be
signed in; whoever serves finds the schema of its release; the page shows what is
true of the text in its e-mail field and of the session its calls carry, and
does not ask again for a code the user has declined to enter.

The full list of hazards, with the lines where they bite and the properties
that watch them, is in `PROJECT.json`.

## Modules

| Module | Models | Depends on |
|---|---|---|
| `SlidingWindow` | abstract: which failures are counted | |
| `AttemptLimiter` | the limiter | implements `SlidingWindow` |
| `OneTimeCode` | abstract: what the codes promise | |
| `AuthService` | `Register`, `ReissueOTP`, `VerifyOTP` with table `users` and the limiter | extends `AttemptLimiter`; implements `OneTimeCode` and `AttemptLimiter` |
| `SessionApi` | handlers `Verify`, `Me`, `Logout`, `Checkout`, tables `sessions` and `checkouts`, cookie jars | extends `OneTimeCode` with the session layer |
| `Authix` | the API process: the handlers of `Register`, `Reissue` and `Verify` on top of the service, and all others | extends `AuthService`; takes the handlers from `SessionApi` and implements it |
| `CheckoutPage` | `App.tsx` with `OtpModal.tsx` and `useEmailRecognition.ts`, and what the page can tell of the API | |
| `Startup` | readiness wait, migrations, listening, of several processes | |
| `MC*` | instances for TLC | |
| `*_proofs` | theorems, in eight modules | |

The two levels of the server meet twice. In `OneTimeCode`: `AuthService` shows that five SQL
statements, a limiter and a clock implement it, and `SessionApi` uses it in
place of them. And in `Authix`, where nothing stands for anything else: its
handlers call the service itself, statement by statement, and it is shown that the
whole, with the steps of `VerifyOTP` hidden, implements `SessionApi`. `CheckoutPage` has the other end of the calls: its `Serve*` actions
keep of the handlers what their answers depend on (valid sessions, the cookie)
and leave out how long a session lives and which code opened it, which are
`SessionApi`'s subject; a session may end at any moment.

### Correspondence

`AttemptLimiter`. `attempts` is the Go map; a list of times is a set of entries
(time, call), because the code only asks for lengths and a call appends at most
once (`RecordOnce`). `isLimited` and `recordFailure` hold the mutex throughout,
so each is one action, including `cleanupLocked` for all e-mails. `failures` is a
history variable: everything counted since the process started.

`AuthService`. `accounts` and `otp` are table `users`. `pc`, `call`, `row`,
`reply` are the stack of each handler. One action is one SQL statement, one
limiter operation or one reading of the clock with the computation around it:

| Code | Actions |
|---|---|
| `Register` | `RegisterStart`, `RegisterInsert`, `UpdateOTP` |
| `ReissueOTP` | `ReissueFind`, `UpdateOTP` |
| `VerifyOTP` | `VerifyIsLimited`, `VerifyFind`, `VerifyCheck`, `VerifyConsume`, `VerifyRecord` |
| format errors, first query failing | `Refuse` |
| a statement that fails without effect | `DatabaseError` |
| a statement that takes effect but is answered with an error | the `"failed"` alternatives of `RegisterInsert`, `UpdateOTP`, `VerifyConsume` |
| the process stops | `Restart`: calls are lost, the limiter is emptied, tables stay |

`otp[e].issuer`, `issued`, `redeemed`, `seen` and `call[r].before` are history:
which call wrote a code, which submission consumed it, which failures the limiter
knew when it let a call pass, which calls were over when this one began. No
guard reads them.

`SessionApi`. `Send` attaches the cookie (`credentials: 'include'` in
`frontend/src/lib/api.ts`); the handler's steps are `VerifyCode` and
`CreateSession`; `Identify`; `Revoke`; `Authorize` and `InsertCheckout`;
`Reject` is a malformed body or form or a statement without effect; `Deliver`
lets the browser obey `Set-Cookie`, `Lose` drops a request or a response at any
step. Responses are delivered in any order.

`Authix`. The variables of `AuthService` (with `pc` for where the service stands)
and those of `SessionApi` (with `stage` for where handler and network stand) side by
side. `Hdl!` is the handler text of `SessionApi` at `stage`.

| Code | Actions |
|---|---|
| a browser sends `Verify`, `Me`, `Logout` or `Checkout` | `Send` |
| `Register`, `Reissue` and `Verify` call their service | `CallService`, `ServiceStep` (the actions of `AuthService`) |
| the code is stored, `Register` or `Reissue` answers | `StoreCode` |
| `VerifyOTP` returns to `Verify`, which answers the error (`writeServiceError`) or goes on to create a session | `VerifyReturns` |
| the further steps of `Verify`, and the other handlers | `HandlerStep` |
| a response arrives, a call is lost | `NetworkStep` |
| the process stops, with every handler that is past its first step | `Stop` |
| the clock | `Elapse` |

`killed` are calls whose handler died: they never go on, whatever the service had
done for them. The mapping to `SessionApi` is `stageBar`, `userBar`, `statusBar`: a
submission counts as accepted, and its handler as about to create the session, from
the update that consumes the code, although `VerifyOTP` returns later or never;
a 500 of a login that consumed nothing is one of `SessionApi`'s refusals.

`CheckoutPage`. React keeps the state of the page three times: with every update so far
(`queued`), as last rendered (`shown`), and of the render whose effects ran last what
they depend on (`ran`). Handlers, effects and the callbacks of calls read `shown` as the
closures they are (or what was captured when the call was sent: `text` of the call),
setters write `queued`, refs (`prompted`, `suppressed`, `requestId`) are read and
written as they are. `Render` commits what waits and `RunEffects` runs the effects of the
last render, each when React comes to it: the user and the answers of calls may come
before either, and no handler waits for a settled page. `Effects` are the effects in
their order of declaration: the hook's (which aborts the previous lookup, counts the
request, starts the timer), the one that hands the text to the hook, the one that opens the
dialog. Only the updates of the user's own event are rendered at once (`Rendered`), without
those of answers and effects that still wait, which have a lower priority in React 18;
effects that were due run before it, and its own effects with it.

A call of `api.ts` is awaited twice, and so it reaches the page in two steps: with the header of
an answer the browser sets or clears the cookie (`HeaderArrives`), and after the body the page
goes on (`CodeAccepted`, `SignedOut`) or does without (`CodeTruncated`). In between every
event of the user is possible and carries the new cookie.

| Code | Actions |
|---|---|
| `updateCheckout` of the e-mail field (`App.tsx`) | `Type` |
| `handleGuestDismiss` | `Dismiss` |
| `submitCode` (`OtpModal.tsx`), then `handleLogin` | `SubmitCode`; `HeaderArrives`; `CodeAccepted`, `CodeTruncated`, `CodeFails` |
| `submitCheckout` | `SubmitCheckout`; `CheckoutStored`, `CheckoutFails` |
| the sign-out button | `SignOut`; `HeaderArrives`; `SignedOut`, `SignOutFails` |
| the first effect, `api.me()` | in `Init`; `MeAnswered`, `MeFails` |
| the hook's timer and lookup | `TimerFires`; `LookupAnswered`, `LookupFails` |
| React | `Render`, `RunEffects` |
| the API | `ServeMe`, `ServeVerify`, `ServeLogout`, `ServeCheckout` |
| expiry, or a logout elsewhere | `SessionEnds` |

Every call may fail before or after it had its effect, or never be answered. An
aborted lookup and one whose number is not the newest are the same to the code
(`Stale`). `doubt`, `hushed` and the fields `page` and `sure` of a call are history,
which no guard reads. `hushed` is the e-mail last dismissed, submitted or signed in with.
`doubt` says that who is signed in is not settled: from loading until `Me` is answered, from the
header of a login or logout until the page goes on with it, after a call that overlapped
another one of this kind, after a body that was cut off, and when the session ended
elsewhere. A `Me`, login or logout is `sure` if no other one was under way with it and no
session ended meanwhile, and settles the question when the page goes on with it. A checkout is `sure` if there was no doubt and the
user had been rendered when it was sent; `page` is whom the page showed.

`Startup`. One action per step of `main`, `Run` and `runOne`; the writes of
`runOne` take effect at `Commit`; `Fail` is any error, which `main` turns into
`log.Fatalf`; `Stop` is SIGTERM or a kill. Version v stands for the v-th file in
the order of `DiscoverMigrations`, and a process ships the first `files[p]` of
them.

### Abstractions

- SHA-256 is injective; a random token is never drawn twice. Codes may repeat.
- Well-formed inputs are members of small sets. What is malformed is refused.
- No code path deletes a user, so an account is its e-mail and
  `ErrOTPInvalidState` (`auth.go:293`) and the `ErrUserNotFound` branches after
  a successful find cannot be reached.
- One API process at a time answers requests (`render.yaml`), except in
  `Startup`, where processes overlap.
- The wall clock never steps back. Times are clock ticks, compared exactly as
  the code compares them.
- A statement that PostgreSQL still executes after its client has died is
  executed before the death.
- `Validate` and `FindUserByID` are one step, as users are never deleted; the
  time a session is compared with and the query that compares it are one step.
- In `CheckoutPage` a text of the field is a member of a small set with its normal
  form (trimmed and lower-cased, as both sides do it). The other fields are filled in
  properly, so a checkout is refused for its e-mail only. Hints, toasts, the panels
  for registering and reissuing and the 15 seconds a code stays on display
  are left out: they write none of the modelled state. So is React's
  `StrictMode`, which runs effects twice in development. The
  browser has one page; another tab or device can only end its session.
- React may render and run effects sooner than the model's `Render` and `RunEffects`
  do; it never runs them in another order. Sessions that the page cannot tell apart from
  others (of one user, from before it was loaded) are one.
- In `Startup` a body succeeds or fails; locks between two bodies are not
  modelled, those on `schema_migrations`, its creation (`BeingCreated`) and its keys
  (`Contended`), are. Nobody who waits there is waited for (who creates the
  table finds no key taken, who holds a key goes on to commit), so mutual waiting could
  only come from the bodies.

## Runs

Every bound is a constant of a `.cfg`.

| Run | Instance | Shows |
|---|---|---|
| `limiter` | 2 e-mails, 4 calls, limit 2, window 3, clock to 6 | `ImplementsSlidingWindow`, `RollingWindow`, `LockoutExact`, and `LockoutEnds` under fairness of the clock |
| `auth` | 1 e-mail, 2 codes, 3 calls, limit 1, TTL 2, window 3, clock to 3 | `ImplementsOneTimeCode`, `LimiterSpec`, `ExpiredCodesStayDead`, `ShownCodeStands`, `AtMostOneRedemption`, `SupersededCodesStayDead`, `LateRefusalMeansOverlap` |
| `authix` | 2 e-mails, one of them registered, 2 codes, 2 more calls, 2 browsers, 2 tokens, limit, window, TTL and lifetime 1, clock to 1 | `StepsOfSessionApi`, `SessionsHaveCodes`, `DeadCodesOpenNothing`, `SignedInByCode`, `RefusalsAreHonest`, and of the codes `VerifiedIsGenuine`, `OnlyFailuresCounted` |
| `session_api` | 1 account logged in, 3 more calls, lifetime 1, clock to 2 | `SessionsAreEarned`, `SessionsIdentify`, `LogoutIsFinal`, `GuestMeansNoCookie`, `LogoutClears` |
| `startup` | 2 processes, 3 migrations | `ServesMigrated`, `RanInOrder`, and `StartupEnds` under fairness |
| `checkout_page` | a registered address with two spellings, another address, 2 lookups, 2 calls after the first `Me`, sessions ended elsewhere counted among them | `RecognitionIsCurrent`, `CheckingIsUnderWay`, `AgreeOnceTold`, `MemberOrdersMatch`, `HushedStays` |
| `re_register`, `re_executed`, `no_postgres`, `dialog`, `orders`, `asked` | small | the six divergences below |

Why these bounds are enough to meet the interesting cases: three calls are a
code and two submissions that race for it, or two issuances and a submission, or
a failure and two more that the limiter sees. The clock of `auth` passes the end of a
code's lifetime while a call is under way and the end of the window; `limiter`
covers two full windows and every boundary. Two codes suffice, as codes are only
compared; a second e-mail is in `authix`, where crossings are the question.
`authix` starts from `RegisteredInit`, a state that the process reaches from the empty
one by one registration that has been answered: two more calls are then two logins
that race, from one browser or from two, a reissue and a login with either code, or a
login and the call that uses its cookie, with the process stopping, statements
failing and the code and the session expiring at any step between them. More calls,
and more time, are left to the theorems.
`session_api` starts from `LoggedInInit`, a state that the program reaches from the
empty one by a code and a login, whose calls are recorded as over; three
more calls are then a logout, its retry and a call that overtakes them, or a new
code, a second login and a logout with the old cookie, while the first session
expires. `checkout_page` needs two lookups for an answer that comes late; as only typing
is bounded by them, those that a cleared form or a login causes come on top, and texts
may be typed before the first is looked up. A login needs one call, and what races with it
another, a checkout between its header and its body or a session that ends, besides the
first `Me`. `asked` needs a third of each. Larger instances of the page are left to the
theorems below, which hold for any number of texts, accounts, lookups and calls.

Deadlock is checked except in the instances of `SessionApi`, `Authix` and `CheckoutPage`, whose
calls are bounded: when all are over, and the clock has reached its bound or the
user has typed all they may, there is nothing left to do. In `AuthService` the
process can always restart.

Symmetry is used for interchangeable calls, codes, e-mails, browsers and tokens in runs of
invariants, action properties and refinements without fairness; the two runs with a
liveness property use none, nor do the page's, whose texts differ from each other.

### Fairness

- `FairLimiterSpec`: weak fairness of `Tick`. Time passes; nothing is assumed of
  clients. The implication is bounded to lockouts whose end lies before the
  clock's bound.
- `FairStartupSpec`: weak fairness of a process's own steps (PostgreSQL answers a
  statement that waits for no lock), strong fairness of `Begin` and `RecordVersion`
  (PostgreSQL serves those who wait, for another's creation of `schema_migrations` or for a
  key of it, in turn: with weak fairness only, another
  process that dies and restarts for ever could be first each time), weak
  fairness of `Unreachable` (the context of `main.go:46` expires). Neither failures
  nor restarts are fair, so no wait is resolved by an error.

The other specifications assume no fairness and state safety only. The page in
particular cannot count on an answer: `fetch` has no timeout. That it is not left
checking is therefore stated without fairness, by `CheckingIsUnderWay`: as
long as it says so, the lookup that will end it has its timer running or is
under way.

### Divergences between documents and code

- `re_register`: the comment in `0001_extensions_and_users.sql:21-23` lets a second
  registration replace the code; `Register` answers that the e-mail is
  registered and changes nothing. The trace shows it for an account whose first
  `Register` has inserted the row and not stored a code (it is between its two
  statements, or its insert was answered with an error), but it does not need one.
- `re_executed`: `docs/ARCHITECTURE.md:78-79` promises that applied files are never
  executed again; an `AppliedVersions` query that fails for any reason makes
  `Run` execute all of them again. The shipped bodies only create what is
  missing, so nothing breaks today.
- `no_postgres`: `README.md:129` promises a listener without PostgreSQL when
  `AUTHIX_SKIP_DB_STARTUP_CHECK=1`; the migrations that always follow end the
  process.
- `dialog`: `prompts.md:365` has the code dialog open when the checkout e-mail
  belongs to a registered user. Entering another e-mail after a dismissal resets the
  guards one render before the recognition of the old e-mail is dropped, and the
  effect of `App.tsx:71` opens the dialog for it.
- `orders`: `prompts.md:371` keeps the checkout e-mail consistent with the session. The
  page only compares once it knows who is signed in, and the API never does
  (`api.go:175-190`): before `Me` has answered, or after it failed, an order for one
  e-mail is stored for the user of the cookie. `MemberOrdersMatch` is what does hold, of a
  checkout sent when it was settled who is signed in.
- `asked`: `prompts.md:487` resets the guard against repeated prompts at sign-out;
  `App.tsx:270` resets two of the three guards, and the same e-mail entered again after
  signing out is recognised without being asked for its code.

## Proofs

All for arbitrary constants that satisfy the named assumptions
(`LimiterAssumption`, `OTCAssumption`, `AuthAssumption`, `SessionAssumption`,
`AuthixAssumption`, `PageAssumption`, `StartupAssumption`: the limits and lifetimes are positive, the null
values are not values, normalising twice changes nothing more).

- `AttemptLimiter_proofs`. `LimiterInvariant`: the failures of the history are finitely
  many and lie in the past, a list holds only failures and every one younger than the
  window, and `RollingWindow` holds. `RollingWindow` is not inductive without the
  rest: a new failure is let in by looking at the list, so the list must be the whole
  current window; and as a failure just counted is the newest one, only windows that
  end now or later can gain. From it `LockoutExact`, and, as a
  pruned list is exactly the last window (`KeptIsLastWindow`), that the limiter
  implements `SlidingWindow`: the lists are hidden and `failures` stays what it is.
- `AuthService_proofs`. `AuthTypeCorrect`, one step per action.
- `AuthCodes_proofs`. `CodesInvariant`: the otp columns of a row say what the call that
  wrote them said, and as long as they are not marked used nobody has redeemed that
  call's code; calls that issued or redeemed a code are over, and a redeemer named the
  e-mail and the code of the issuer. The used mark is what makes two submissions
  exclude each other; that issuers are over is why none of them writes its code
  again. Hence `AtMostOneRedemption` and `VerifiedIsGenuine`. No fact about the
  row a submission read is needed: the update alone decides. Two further invariants on
  top: `LastStored` (the writer of a row is not among the calls that were over when
  another issuance for its e-mail began) gives
  `ShownCodeStands` and `SupersededCodesStayDead`; `FreshWhenChecked` (the
  row a submission works with says what its issuer said, and a submission that has
  passed the check arrived within the lifetime of an issuance of its code) gives
  `ExpiredCodesStayDead`, which needs that an issuance's arguments never change
  after it and that equal hashes mean equal codes.
- `AuthRefinement_proofs`. Every step of the service maps to a step or a
  stutter of `AttemptLimiter` (`ImplementsLimiter`: each call records at most once) and
  of `OneTimeCode` (`ServiceImplementsOneTimeCode`: `UpdateOTP` is `Issue`, a
  successful `VerifyConsume` is `Redeem`, all else stutters). The first carries the
  limiter's theorems over to the service (`ServiceRollingWindow`,
  `ServiceSlidingWindow`), and gives
  `OnlyFailuresCounted` and, as a submission that was let pass knew fewer failures
  than the limit (`SeenIsShort`), `LateRefusalMeansOverlap`.
- `SessionApi_proofs`. First `OneTimeCode` itself: `OTCInvariant` says that what is
  current was issued, and an issuance is redeemed once: so the abstract `Redeem` is
  defined, and that the code keeps to it is what `AuthService` and `Authix` are shown
  to do. Then, for `ApiSpec`, from an empty database (the run's start is one of
  its reachable states). `Base` types the state and says what each step of a call was
  sent with and has done so far; `ApiImplementsOneTimeCode` is a refinement without a
  mapping. On top of it: `TokensInOrder` (a token in a jar or a call is of a session; a
  response that is to set one is the only thing that carries it), without which a
  delayed answer of `Verify` could bring back a cookie; `LogoutsInOrder` (an answered
  logout has revoked its session); hence `LogoutIsFinal` and `LogoutClears`.
  `CheckoutsInOrder` (a checkout about to be written is a guest's if its call
  carried no cookie) gives `GuestMeansNoCookie`; `SessionsInOrder` (a call that is
  about to open a session has redeemed a code and opened none) gives
  `SessionsAreEarned`. `SessionsIdentify` is inductive over `Base`. `CookiesAtHome` (a
  jar holds a session only after the answer to a login of that browser, and what is
  sent with its cookie was sent by that browser later) needs `TokensInOrder`: a
  response sets the token of a session that its own call opened.
- `Authix_proofs`. The theorems above are about the two halves of the process; these
  are about the whole. `AuthixInvariant` adds to the invariant of the service
  (`RefinementInv`) and to `Base` of the handlers one conjunct of its own, `Together`:
  the service works for a handler that waits for it, on the e-mail and the code the
  handler was sent; a submission that consumed a code was not answered with a refusal,
  and a session is only created for one that did. Without `Together` a restart
  between consuming and answering would leave the two halves free to disagree. With
  it every step maps to one of `SessionApi` or none (`AuthixImplementsSessionApi`,
  `StepsOfSessionApiHolds`), and to one of `AuthService` or none (`AuthixRunsService`).
  What is proved of the halves is then instantiated, never proved again:
  `Parts` are the theorems about `SessionApi` at the handlers' stages, `Whole` are the
  same under the mapping, both after the assumptions on their constants (`Constants`).
  This carries over `SessionsIdentify`, `LogoutIsFinal`, `GuestMeansNoCookie`,
  `LogoutClears` and what is promised of codes and limiter (`ProcessCodes`), and
  joins both sides in `SessionsHaveCodes`, `DeadCodesOpenNothing`, `RefusalsAreHonest`
  and `SignedInByCode`, the statement of the system as a whole: whoever the API
  takes for a user has logged in as that user, on that browser, with a code issued
  to them.
- `CheckoutPage_proofs`. `CallsInOrder`: calls are numbered as they are sent, answers
  are about the session they carried or opened, and no cookie is of a session yet to
  be opened. `SureCalls`: a sure call is the only one under way besides checkouts; a sure
  `Me` carries the cookie of the jar and the page shows nobody yet; once the header of a sure
  login or logout is there, the jar holds what it set. Hence `AgreeOnceTold`, though
  cookie and page never change in one step.
  `CheckoutsMatch` says of a checkout under way what `MemberOrdersMatch` says of a
  stored one: a sure one carried the cookie of the user the page showed, or a dead one.
  `Followed`: the newest lookup is of the text the effects saw last, status and user are
  about this text, and while the status is "checking" that lookup is there; it speaks of the
  updates that wait and of the effects that ran last, so that no render has to come
  in between. It gives `RecognitionIsCurrent` and `CheckingIsUnderWay`. `Hushed`: the
  hushed e-mail is suppressed in the ref; with it, every step that opens the
  dialog (an effect that was due, or one of the user's own event) opens it for an
  e-mail that is not suppressed after the step, which is `HushedStays`.
- `Startup_proofs`. `StartupInvariant`: what a process knows to be applied, and the
  files its loop has passed, are in the database, from which nothing is ever
  removed; a version joins only after all earlier ones. Hence `ServesMigrated` and
  `RanInOrder`.

Only model-checked: `LockoutEnds` and `StartupEnds` (liveness under fairness is
beyond the prover). Every other property of a passing run is a theorem.

## What is allowed

Behaviours the models contain and no property forbids, for a reader who expects
otherwise: a checkout validated before a logout may be written after it
(`LogoutIsFinal` speaks of calls sent later); a session may exist that no browser
holds; a browser may keep a cookie longer than its session by the delay of the
response that set it; a submission whose code matched in its row may be answered
"incorrect" because another one was faster; a resubmitted checkout is stored twice;
a code the user gave up waiting for still signs them in when its answer comes, and
replaces the e-mail in the field; the answer of a checkout clears what was entered
meanwhile. And of the page and its cookie: a checkout submitted between header and body of a
login, or before the login is rendered, is stored for the user of the new cookie under the
e-mail in the field, from a page that shows a guest; after a body that was cut off this
lasts until the next login or logout; a page whose session ended elsewhere goes on to show
its user, and its checkouts are refused or, without the cookie, stored for nobody.

## Not modelled

- `LookupRegistered` on the server, the wording and codes of HTTP errors, the JSON
  decoder, CORS, configuration, the health check, presentation: no state.
- The pool's limits and the drain of `Shutdown`: one process's resources, which no
  handler looks at. A request cut off by them is a lost call of the models.
- The order of file names in `DiscoverMigrations` and the two copies of the validators:
  pure functions of strings, whose content the models abstract from.
- The clock of several processes, and the limiter of a second process: the
  deployment has one.
- The panels for registering and reissuing in the browser: they send calls
  `AuthService` has, and display what comes back for 15 seconds.

## Plan

1. Done: the codes, the limiter, the sessions and handlers, the process they make up,
   the start-up, the page, each checked; every safety property of a passing run is a
   theorem, and so is every refinement.
2. The registration and reissue panels in `CheckoutPage`, with the code on display and
   its timer.
3. What of the process the page relies on: that `Serve*` and `SessionEnds` of
   `CheckoutPage` are what `SessionApi` shows of its sessions to one browser.
