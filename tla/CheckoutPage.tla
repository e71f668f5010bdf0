----------------------------- MODULE CheckoutPage -----------------------------
(***************************************************************************)
(* The checkout page in the browser: App.tsx with its code dialog           *)
(* (components/OtpModal.tsx) and the recognition of emails while they are   *)
(* typed (features/auth/useEmailRecognition.ts), and of the API what the    *)
(* page can tell of it: sessions, the cookie, checkouts (SessionApi has the *)
(* handlers themselves).                                                   *)
(*                                                                         *)
(* React keeps a component's state in three versions: what the setters have *)
(* been called with so far (queued), what was last rendered (shown), and    *)
(* the render whose effects ran last (ran).  Handlers, effects and the      *)
(* callbacks of calls see the values of the render they were made in; refs  *)
(* are seen as they are.  Updates made by effects and by answers are        *)
(* rendered when React comes to it, and the effects of that render run when *)
(* it comes to them: events and answers may come before either.  The        *)
(* updates of the user's event are rendered at once, without the others     *)
(* that still wait (they are of a lower priority in React 18), and effects  *)
(* that were due run first.                                                 *)
(*                                                                         *)
(* A text is what the email field may hold; Normal is trim().toLowerCase()  *)
(* of it and what the API makes of it.  The other fields of the form are    *)
(* always filled in properly, and messages, hints and toasts are left out.  *)
(***************************************************************************)
EXTENDS Integers

CONSTANTS
    Texts,          \* what the email field may hold
    Typed,          \* what the user types or pastes into it
    Empty,          \* the empty text
    Normal,         \* the normalised form of each text
    Addresses,      \* normalised texts that are well-formed addresses
    Accounts,       \* the registered ones
    Nobody,         \* nobody is signed in, or recognised
    NoCookie,       \* the browser holds no session cookie
    MaxLookups,     \* bound: the user types while fewer lookups were begun
    MaxCalls        \* bound: other calls of the API, sessions ended elsewhere included

\* Sessions are told apart by the Verify call that opened them; 0 was before.
Sessions == [user : Accounts, by : 0..MaxCalls]

ASSUME PageAssumption ==
    /\ Empty \in Texts /\ Typed \subseteq Texts
    /\ Normal \in [Texts -> Texts]
    /\ \A t \in Texts : Normal[Normal[t]] = Normal[t]
    /\ Normal[Empty] = Empty
    /\ Addresses \subseteq {t \in Texts : Normal[t] = t /\ t # Empty}
    /\ Accounts \subseteq Addresses
    /\ Nobody \notin Texts
    /\ NoCookie \notin Sessions
    /\ MaxLookups \in Nat
    /\ MaxCalls \in Nat

VARIABLES
    queued,     \* React state, with all updates so far
    shown,      \* React state of the last render
    ran,        \* of it, what the effects that ran last have seen
    prompted,   \* promptedRecognitionEmail
    suppressed, \* suppressedRecognitionEmail
    requestId,  \* of useEmailRecognition
    lookups,    \* lookups whose timer runs or whose answer is awaited
    calls,      \* other calls under way
    sent,       \* how many of these there were
    jar,        \* the cookie of the browser: a session
    live,       \* sessions the API accepts
    orders,     \* stored checkouts
    doubt,      \* history: who is signed in was not settled by one call
    hushed      \* history: the email last dismissed, submitted or signed in with

pageVars == <<queued, shown, ran>>
refVars == <<prompted, suppressed>>
hookVars == <<requestId, lookups>>
apiVars == <<jar, live, orders>>
vars == <<queued, shown, ran, refVars, hookVars, calls, sent, apiVars, doubt, hushed>>

PageState ==
    [email : Texts,                         \* checkout.email
     looked : Texts,                        \* recognition.email
     status : {"idle", "checking", "registered", "unregistered", "error"},
     found : Accounts \cup {Nobody},        \* recognition.user
     dialog : BOOLEAN,                      \* modalOpen
     who : Accounts \cup {Nobody},          \* authenticatedUser
     dismissed : Texts,                     \* dismissedEmail
     signedOut : Texts,                     \* signedOutEmail
     submitting : BOOLEAN,                  \* submittingCheckout
     verifying : BOOLEAN]                   \* submitting, of the dialog

WatchedState ==
    [email : Texts, looked : Texts,
     status : {"idle", "checking", "registered", "unregistered", "error"},
     found : Accounts \cup {Nobody}, dialog : BOOLEAN, who : Accounts \cup {Nobody},
     dismissed : Texts]

Lookups == [id : Nat, text : Texts, stage : {"timer", "sent"}]
Calls == [op : {"me", "verify", "logout", "checkout"}, id : 0..MaxCalls,
          text : Texts, cookie : Sessions \cup {NoCookie}, page : Accounts \cup {Nobody},
          sure : BOOLEAN,
          answer : {"none", "ok", "refused", "read"}, session : Sessions \cup {NoCookie}]

blank ==
    [email |-> Empty, looked |-> Empty, status |-> "idle", found |-> Nobody,
     dialog |-> FALSE, who |-> Nobody, dismissed |-> Empty, signedOut |-> Empty,
     submitting |-> FALSE, verifying |-> FALSE]

\* What the effects of a page depend on.
Watched(page) ==
    [email |-> page.email, looked |-> page.looked, status |-> page.status,
     found |-> page.found, dialog |-> page.dialog, who |-> page.who,
     dismissed |-> page.dismissed]

\* A call as fetch sends it: with the cookie of the moment.  For the properties
\* a checkout remembers whom the page showed, and whether it is sure: that the
\* page knew who is signed in; any other call, whether it is sure to settle
\* this, as no other call or loss of the session can have changed it meanwhile.
Call(op, id, text, sure) ==
    [op |-> op, id |-> id, text |-> text, cookie |-> jar,
     page |-> IF op = "checkout" THEN shown.who ELSE Nobody,
     sure |-> sure, answer |-> "none", session |-> NoCookie]

UserOf(s) == IF s = NoCookie THEN Nobody ELSE s.user

\* The page is loaded, perhaps with the cookie of an earlier visit, whose
\* session may be over; the first effect asks Me.
Init ==
    /\ queued = blank /\ shown = blank /\ ran = Watched(blank)
    /\ prompted = Empty /\ suppressed = Empty
    /\ requestId = 0 /\ lookups = {}
    /\ jar \in [user : Accounts, by : {0}] \cup {NoCookie}
    /\ live \in SUBSET ({jar} \ {NoCookie})
    /\ orders = {}
    /\ doubt = TRUE /\ hushed = Empty
    /\ calls = {Call("me", 0, Empty, TRUE)}
    /\ sent = 0

-----------------------------------------------------------------------------
Settled == queued = shown /\ ran = Watched(shown)

WellFormed(t) == Normal[t] \in Addresses

\* What effects read and write besides the render they belong to.
Now == [page |-> queued, prompted |-> prompted, suppressed |-> suppressed,
        requestId |-> requestId, lookups |-> lookups]

Becomes(h) ==
    /\ queued' = h.page
    /\ prompted' = h.prompted /\ suppressed' = h.suppressed
    /\ requestId' = h.requestId /\ lookups' = h.lookups

\* The effect that opens the dialog: one of its dependencies changed, and its
\* condition holds.
Asks(h, before, page) ==
    LET n == Normal[page.looked]
    IN  /\ [page EXCEPT !.email = Empty] # [before EXCEPT !.email = Empty]
        /\ page.status = "registered" /\ page.found # Nobody
        /\ n \notin {Empty, h.prompted, page.dismissed, h.suppressed}
        /\ ~page.dialog
        /\ page.who = Nobody

\* The effects that depend on page, when they last ran with before:
\* of the recognition hook, of the email field, of the dialog.
Effects(h, before, page) ==
    LET looks == page.looked # before.looked
        valid == WellFormed(page.looked)
        asks == Asks(h, before, page)
        after == [h.page EXCEPT
            !.looked = IF page.email # before.email THEN page.email ELSE @,
            !.status = IF looks THEN (IF valid THEN "checking" ELSE "idle") ELSE @,
            !.found = IF looks THEN Nobody ELSE @,
            !.dialog = @ \/ asks]
    IN  [h EXCEPT
           !.page = after,
           !.prompted = IF asks THEN Normal[page.looked] ELSE @,
           !.requestId = IF looks THEN @ + 1 ELSE @,
           !.lookups = IF looks
               THEN {l \in @ : l.stage = "sent"}
                    \cup {l \in {[id |-> h.requestId + 1, text |-> page.looked, stage |-> "timer"]} : valid}
               ELSE @]

\* React renders what waits; the effects of the last render have run.
Render ==
    /\ ran = Watched(shown) /\ queued # shown
    /\ shown' = queued
    /\ UNCHANGED <<queued, ran, refVars, hookVars, calls, sent, apiVars, doubt, hushed>>

RunEffects ==
    /\ ran # Watched(shown)
    /\ Becomes(Effects(Now, ran, Watched(shown)))
    /\ ran' = Watched(shown)
    /\ UNCHANGED <<shown, calls, sent, apiVars, doubt, hushed>>

-----------------------------------------------------------------------------
\* Events of the user.

\* A handler has left h; its updates make page of the last render.
Rendered(h, page) ==
    /\ Becomes(Effects(Effects(h, ran, Watched(shown)), Watched(shown), Watched(page)))
    /\ shown' = page /\ ran' = Watched(page)

\* A text that is not the one dismissed or submitted last.
Fresh(n) == n \notin {Empty, shown.dismissed, suppressed}

\* updateCheckout of the email field.
Type(t) ==
    LET n == Normal[t]
        Entered(page) == [page EXCEPT
            !.email = t,
            !.dismissed = IF Fresh(n) THEN Empty ELSE @,
            !.signedOut = IF n # shown.signedOut THEN Empty ELSE @]
    IN  /\ t # shown.email
        /\ requestId < MaxLookups
        /\ Rendered([Now EXCEPT
                        !.page = Entered(queued),
                        !.prompted = IF Fresh(n) THEN Empty ELSE @,
                        !.suppressed = IF Fresh(n) THEN Empty ELSE @],
                    Entered(shown))
        /\ hushed' = IF n \in {Empty, hushed} THEN hushed ELSE Empty
        /\ UNCHANGED <<calls, sent, apiVars, doubt>>

\* handleGuestDismiss.
Dismiss ==
    LET n == Normal[shown.looked]
        Closed(page) == [page EXCEPT !.dismissed = n, !.dialog = FALSE]
    IN  /\ shown.dialog
        /\ Rendered([Now EXCEPT !.page = Closed(queued), !.suppressed = n], Closed(shown))
        /\ hushed' = n
        /\ UNCHANGED <<calls, sent, apiVars, doubt>>

\* The calls under way, none of which settles any more who is signed in.
Muddled == {[c EXCEPT !.sure = @ /\ c.op = "checkout"] : c \in calls}

Send(op, text) ==
    /\ sent < MaxCalls
    /\ sent' = sent + 1
    /\ calls' = IF op = "checkout"
          THEN calls \cup {Call(op, sent + 1, text, ~doubt /\ shown.who = queued.who)}
          ELSE Muddled \cup {Call(op, sent + 1, text, \A c \in calls : c.op = "checkout")}

\* submitCode of the dialog, with six digits.
SubmitCode ==
    /\ shown.dialog /\ ~shown.verifying
    /\ Send("verify", shown.looked)
    /\ Rendered([Now EXCEPT !.page.verifying = TRUE], [shown EXCEPT !.verifying = TRUE])
    /\ UNCHANGED <<apiVars, doubt, hushed>>

\* Mutant: a signed-in user may enter any email.
MaySubmitAnyEmail ==
    /\ ~shown.submitting /\ WellFormed(shown.email)
    /\ shown.signedOut # Empty => Normal[shown.email] # shown.signedOut

\* The button is enabled and submitCheckout gets past its three checks.
MaySubmit ==
    /\ ~shown.submitting /\ WellFormed(shown.email)
    /\ shown.who # Nobody => Normal[shown.email] = shown.who
    /\ shown.signedOut # Empty => Normal[shown.email] # shown.signedOut

SubmitCheckout ==
    /\ MaySubmit
    /\ Send("checkout", shown.email)
    /\ Rendered([Now EXCEPT !.page.submitting = TRUE], [shown EXCEPT !.submitting = TRUE])
    /\ UNCHANGED <<apiVars, doubt, hushed>>

\* The sign-out button, which is never disabled and changes nothing by itself.
SignOut ==
    /\ shown.who # Nobody
    /\ Send("logout", shown.who)
    /\ UNCHANGED <<pageVars, refVars, hookVars, apiVars, doubt, hushed>>

-----------------------------------------------------------------------------
\* The recognition hook: timer and answer of a lookup.

TimerFires(l) ==
    /\ l.stage = "timer"
    /\ lookups' = (lookups \ {l}) \cup {[l EXCEPT !.stage = "sent"]}
    /\ UNCHANGED <<pageVars, refVars, requestId, calls, sent, apiVars, doubt, hushed>>

\* Mutant: no lookup is aborted and ids are not compared.
StaleNever(l) == FALSE

\* The call was aborted by the cleanup of its effect, and is not the newest.
Stale(l) == l.id # requestId

Heard(l) ==
    /\ l.stage = "sent"
    /\ lookups' = lookups \ {l}
    /\ UNCHANGED <<shown, ran, refVars, requestId, calls, sent, apiVars, doubt, hushed>>

LookupAnswered(l) ==
    LET n == Normal[l.text]
        known == n \in Accounts
    IN  /\ Heard(l)
        /\ queued' = IF Stale(l) THEN queued ELSE [queued EXCEPT
               !.found = IF known THEN n ELSE Nobody,
               !.status = IF known THEN "registered" ELSE "unregistered"]

\* Mutant: an error leaves the status as it is.
LookupFailsSilently(l) == Heard(l) /\ UNCHANGED queued

LookupFails(l) ==
    /\ Heard(l)
    /\ queued' = IF Stale(l) THEN queued ELSE [queued EXCEPT !.status = "error"]

-----------------------------------------------------------------------------
\* The API handles a call; nothing of it has reached the browser yet.

Answer(c, answer, session) ==
    calls' = (calls \ {c}) \cup {[c EXCEPT !.answer = answer, !.session = session]}

\* Me: the user of the session, if it is valid.
ServeMe(c) ==
    /\ c.op = "me" /\ c.answer = "none"
    /\ IF c.cookie \in live THEN Answer(c, "ok", c.cookie) ELSE Answer(c, "refused", NoCookie)
    /\ UNCHANGED <<live, orders>>

\* Verify: the code is accepted and a session opened.
ServeVerify(c) ==
    LET s == [user |-> Normal[c.text], by |-> c.id]
    IN  /\ c.op = "verify" /\ c.answer = "none"
        /\ s.user \in Accounts
        /\ live' = live \cup {s}
        /\ Answer(c, "ok", s)
        /\ UNCHANGED orders

\* Logout: a session that is over or unknown is answered like success.
ServeLogout(c) ==
    /\ c.op = "logout" /\ c.answer = "none"
    /\ live' = live \ {c.cookie}
    /\ Answer(c, "ok", NoCookie)
    /\ UNCHANGED orders

\* Checkout: for the user of the cookie's session, or a guest without cookie.
ServeCheckout(c) ==
    /\ c.op = "checkout" /\ c.answer = "none"
    /\ c.cookie \in live \cup {NoCookie}
    /\ orders' = orders \cup
           {[email |-> Normal[c.text], page |-> c.page, sure |-> c.sure,
             user |-> UserOf(c.cookie)]}
    /\ Answer(c, "ok", NoCookie)
    /\ UNCHANGED live

Serve(c) ==
    /\ ServeMe(c) \/ ServeVerify(c) \/ ServeLogout(c) \/ ServeCheckout(c)
    /\ UNCHANGED <<pageVars, refVars, hookVars, sent, jar, doubt, hushed>>

\* The session of the cookie expires, or is ended from another tab or device;
\* the browser may have dropped the cookie with it.
SessionEnds ==
    /\ sent < MaxCalls /\ sent' = sent + 1
    /\ jar \in live
    /\ live' = live \ {jar}
    /\ jar' \in {jar, NoCookie}
    /\ calls' = Muddled /\ doubt' = TRUE
    /\ UNCHANGED <<pageVars, refVars, hookVars, orders, hushed>>

-----------------------------------------------------------------------------
\* An answer reaches the browser, or the call fails: it is refused, a query
\* fails or the connection breaks, before or after the call had its effect.

\* The header of an answer that sets or clears the cookie: the browser obeys it
\* while the page still waits for the body.
HeaderArrives(c) ==
    /\ c.op \in {"verify", "logout"} /\ c.answer = "ok"
    /\ jar' = c.session
    /\ Answer(c, "read", c.session)
    /\ doubt' = TRUE
    /\ UNCHANGED <<pageVars, refVars, hookVars, sent, live, orders, hushed>>

\* The page goes on with the answer, or the error.
Ends(c, op) ==
    /\ c.op = op
    /\ calls' = calls \ {c}
    /\ UNCHANGED <<shown, ran, hookVars, sent, apiVars>>

\* The first effect: api.me().then(...).
MeAnswered(c) ==
    /\ Ends(c, "me") /\ c.answer # "none"
    /\ queued' = IF c.answer = "ok" THEN [queued EXCEPT !.who = c.session.user] ELSE queued
    /\ doubt' = ~c.sure
    /\ UNCHANGED <<refVars, hushed>>

MeFails(c) ==
    /\ Ends(c, "me")
    /\ UNCHANGED <<queued, refVars, doubt, hushed>>

\* submitCode goes on with handleLogin.
CodeAccepted(c) ==
    LET u == c.session.user
    IN  /\ Ends(c, "verify") /\ c.answer = "read"
        /\ suppressed' = u
        /\ queued' = [queued EXCEPT !.who = u, !.signedOut = Empty, !.email = u,
               !.dismissed = u, !.dialog = FALSE, !.verifying = FALSE]
        /\ doubt' = ~c.sure
        /\ hushed' = u
        /\ UNCHANGED prompted

\* The body is cut off: request returns null and result.user throws, while the
\* cookie is in the jar.
CodeTruncated(c) ==
    /\ Ends(c, "verify") /\ c.answer = "read"
    /\ queued' = [queued EXCEPT !.verifying = FALSE]
    /\ UNCHANGED <<refVars, doubt, hushed>>

CodeFails(c) ==
    /\ Ends(c, "verify") /\ c.answer # "read"
    /\ queued' = [queued EXCEPT !.verifying = FALSE]
    /\ UNCHANGED <<refVars, doubt, hushed>>

\* Mutant: the email is taken from the page when the answer arrives.
SignedOutLate(c) ==
    /\ Ends(c, "logout") /\ c.answer = "read"
    /\ prompted' = Empty /\ suppressed' = Empty
    /\ queued' = [queued EXCEPT !.signedOut = shown.who, !.who = Nobody, !.email = Empty]
    /\ doubt' = ~c.sure
    /\ hushed' = Empty

\* The sign-out button goes on when Logout has succeeded, body or not.
SignedOut(c) ==
    /\ Ends(c, "logout") /\ c.answer = "read"
    /\ prompted' = Empty /\ suppressed' = Empty
    /\ queued' = [queued EXCEPT !.signedOut = c.text, !.who = Nobody, !.email = Empty]
    /\ doubt' = ~c.sure
    /\ hushed' = Empty

\* Mutant: the page signs out although the call failed.
SignOutFailsAnyway(c) ==
    /\ Ends(c, "logout") /\ c.answer # "read"
    /\ queued' = [queued EXCEPT !.signedOut = c.text, !.who = Nobody, !.email = Empty]
    /\ UNCHANGED <<refVars, doubt, hushed>>

SignOutFails(c) ==
    /\ Ends(c, "logout") /\ c.answer # "read"
    /\ UNCHANGED <<queued, refVars, doubt, hushed>>

\* Mutant: the submitted email is remembered in the state, not in the ref.
CheckoutStoredOnly(c) ==
    LET n == Normal[c.text]
    IN  /\ Ends(c, "checkout") /\ c.answer = "ok"
        /\ queued' = [queued EXCEPT !.dismissed = n, !.email = Empty, !.submitting = FALSE]
        /\ hushed' = n
        /\ UNCHANGED <<refVars, doubt>>

\* submitCheckout goes on: the submitted email is suppressed, the form cleared.
CheckoutStored(c) ==
    LET n == Normal[c.text]
    IN  /\ Ends(c, "checkout") /\ c.answer = "ok"
        /\ suppressed' = n
        /\ queued' = [queued EXCEPT !.dismissed = n, !.email = Empty, !.submitting = FALSE]
        /\ hushed' = n
        /\ UNCHANGED <<prompted, doubt>>

CheckoutFails(c) ==
    /\ Ends(c, "checkout")
    /\ queued' = [queued EXCEPT !.submitting = FALSE]
    /\ UNCHANGED <<refVars, doubt, hushed>>

-----------------------------------------------------------------------------
LookupStep(l) == TimerFires(l) \/ LookupAnswered(l) \/ LookupFails(l)

CallStep(c) ==
    \/ Serve(c)
    \/ HeaderArrives(c)
    \/ MeAnswered(c) \/ MeFails(c)
    \/ CodeAccepted(c) \/ CodeTruncated(c) \/ CodeFails(c)
    \/ SignedOut(c) \/ SignOutFails(c)
    \/ CheckoutStored(c) \/ CheckoutFails(c)

Next ==
    \/ Render
    \/ RunEffects
    \/ \E t \in Typed : Type(t)
    \/ Dismiss
    \/ SubmitCode
    \/ SubmitCheckout
    \/ SignOut
    \/ \E l \in lookups : LookupStep(l)
    \/ \E c \in calls : CallStep(c)
    \/ SessionEnds

Spec == Init /\ [][Next]_vars

-----------------------------------------------------------------------------
PageTypeOK ==
    /\ queued \in PageState /\ shown \in PageState /\ ran \in WatchedState
    /\ doubt \in BOOLEAN
    /\ prompted \in Texts /\ suppressed \in Texts /\ hushed \in Texts
    /\ requestId \in Nat
    /\ lookups \subseteq Lookups
    /\ calls \subseteq Calls /\ sent \in 0..MaxCalls
    /\ jar \in Sessions \cup {NoCookie} /\ live \subseteq Sessions
    /\ orders \subseteq [email : Texts, page : Accounts \cup {Nobody},
                         sure : BOOLEAN, user : Accounts \cup {Nobody}]

\* What the page says of an email is said of the text in the field: answers of
\* lookups for earlier texts never replace it, in whatever order they arrive
\* (useEmailRecognition.ts:36-48).
RecognitionIsCurrent ==
    Settled =>
        /\ queued.looked = queued.email
        /\ queued.found # Nobody => queued.found = Normal[queued.email]
        /\ queued.status = "registered" => queued.found # Nobody
        /\ queued.status = "unregistered" => Normal[queued.email] \in Addresses \ Accounts

\* The page is never left checking: it says so only while a lookup of the text
\* in the field has its timer running or its answer to come
\* (useEmailRecognition.ts:33-55).
CheckingIsUnderWay ==
    Settled /\ queued.status = "checking" =>
        \E l \in lookups : ~Stale(l) /\ l.text = queued.email

\* The page shows the user of the cookie its calls carry, once one call has
\* settled who is signed in and until the next answer touches the cookie: only
\* a call that overlapped another one, a body that was cut off, a failed Me or a
\* session that ended elsewhere can leave the two in disagreement, and the next
\* undisturbed login or logout settles it again, a login the user no longer
\* waits for included (App.tsx:59-65, 243-251, 270; OtpModal.tsx:20-33).
AgreeOnceTold ==
    ~doubt /\ jar \in live \cup {NoCookie} => queued.who = UserOf(jar)

\* A checkout sent while the page knew who is signed in is stored for the user
\* it showed, under this user's email, or for nobody if it showed none: not so
\* between header and body of an answer, or before a render.  The API compares
\* neither (App.tsx:204-209, api.go:175-190).
MemberOrdersMatch ==
    \A o \in orders : o.sure =>
        /\ o.user = o.page
        /\ o.page # Nobody => o.email = o.page

\* An effect opens the dialog, in the step in which the user closed it or not.
Opens == queued'.dialog /\ (~queued.dialog \/ (shown.dialog /\ ~shown'.dialog))

\* After a dismissal, a stored checkout or a login, the dialog is not opened for
\* the same email, by no answer or effect that is still to come and no return to
\* this email, until the user enters another one or signs out (App.tsx:71-77,
\* 163-167; prompts.md:471, 479).
HushedStays ==
    [][Opens => hushed' = Empty \/ hushed' # Normal[shown.looked]]_vars

\* The dialog is opened when the checkout email belongs to a registered user:
\* the email it was recognised for is the checkout email (prompts.md:365).  What
\* the user does to a page that has finished rendering is enough to break it.
DialogIsForCheckoutEmail ==
    [][Settled /\ Opens => shown.looked = queued'.email]_vars

\* The checkout email is kept consistent with the session (prompts.md:371).
OrdersMatchSession ==
    \A o \in orders : o.user # Nobody => o.email = o.user

\* The guard against repeated prompts is reset when the user signs out
\* (prompts.md:487).
AskedAfterSignOut ==
    Settled /\ queued.who = Nobody /\ hushed = Empty
    /\ queued.signedOut # Empty /\ queued.signedOut = Normal[queued.email]
    /\ queued.status = "registered"
        => queued.dialog
=============================================================================
