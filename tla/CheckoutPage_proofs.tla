------------------------- MODULE CheckoutPage_proofs -------------------------
(***************************************************************************)
(* Theorems about CheckoutPage, for any texts, addresses and accounts, and  *)
(* any number of lookups and calls.                                        *)
(***************************************************************************)
EXTENDS CheckoutPage, TLAPS

\* A session that is not one a Verify still to be handled will open.
Known(s) ==
    s # NoCookie =>
        /\ s.by <= sent
        /\ \A c \in calls : c.op = "verify" /\ c.answer = "none" => c.id # s.by

\* What is known of a call under way: its number, and that its answer is about
\* the session it carried or opened.
CallFits(c) ==
    /\ c.id <= sent
    /\ c.op = "me" <=> c.id = 0
    /\ c.answer = "read" => c.op \in {"verify", "logout"}
    /\ c.op = "me" /\ c.answer = "ok" => c.session = c.cookie /\ c.cookie \in Sessions
    /\ c.op = "me" /\ c.answer = "refused" => c.cookie \notin live
    /\ c.op = "verify" /\ c.answer \in {"ok", "read"} =>
          c.session \in Sessions /\ c.session.by = c.id
    /\ c.op = "logout" /\ c.answer \in {"ok", "read"} => c.session = NoCookie

\* Calls are numbered as they are sent.
CallsInOrder ==
    /\ Known(jar)
    /\ \A c, d \in calls : c.id = d.id => c = d
    /\ \A c \in calls : Known(c.cookie) /\ CallFits(c)

PageTyping == PageTypeOK /\ CallsInOrder

\* What Now is, and what effects make of it.
HookState ==
    [page : PageState, prompted : Texts, suppressed : Texts, requestId : Nat,
     lookups : SUBSET Lookups]

-----------------------------------------------------------------------------
(* Effects. *)

LEMMA BlankTyping == blank \in PageState
BY PageAssumption DEF blank, PageState

LEMMA NormalTyping == ASSUME NEW t \in Texts PROVE Normal[t] \in Texts
BY PageAssumption

LEMMA WatchedTyping == ASSUME NEW page \in PageState PROVE Watched(page) \in WatchedState
BY DEF Watched, WatchedState, PageState

LEMMA NowTyping == PageTypeOK => Now \in HookState
BY DEF PageTypeOK, Now, HookState

\* What h becomes by the effects that depend on page, having run with before.
After(e, h, before, page) ==
    /\ e \in HookState
    /\ e.page.email = h.page.email
    /\ e.page.who = h.page.who
    /\ e.page.looked = IF page.email # before.email THEN page.email ELSE h.page.looked
    /\ e.page.dialog <=> h.page.dialog \/ Asks(h, before, page)
    /\ e.suppressed = h.suppressed
    /\ page.looked = before.looked =>
          /\ e.page.status = h.page.status
          /\ e.page.found = h.page.found
          /\ e.requestId = h.requestId
          /\ e.lookups = h.lookups
    /\ page.looked # before.looked =>
          /\ e.page.status = IF WellFormed(page.looked) THEN "checking" ELSE "idle"
          /\ e.page.found = Nobody
          /\ e.requestId = h.requestId + 1
          /\ e.lookups = {l \in h.lookups : l.stage = "sent"}
                         \cup {l \in {[id |-> h.requestId + 1, text |-> page.looked,
                                       stage |-> "timer"]} : WellFormed(page.looked)}

LEMMA EffectsAre ==
    ASSUME NEW h \in HookState, NEW before \in WatchedState, NEW page \in WatchedState
    PROVE  After(Effects(h, before, page), h, before, page)
<1> USE PageAssumption
<1> DEFINE looks == page.looked # before.looked
           valid == WellFormed(page.looked)
           asks == Asks(h, before, page)
           text == IF page.email # before.email THEN page.email ELSE h.page.looked
           said == IF looks THEN (IF valid THEN "checking" ELSE "idle") ELSE h.page.status
           user == IF looks THEN Nobody ELSE h.page.found
           open == h.page.dialog \/ asks
           shows == [h.page EXCEPT !.looked = text, !.status = said, !.found = user, !.dialog = open]
           asked == IF asks THEN Normal[page.looked] ELSE h.prompted
           number == IF looks THEN h.requestId + 1 ELSE h.requestId
           new == [id |-> h.requestId + 1, text |-> page.looked, stage |-> "timer"]
           looked == IF looks
                     THEN {l \in h.lookups : l.stage = "sent"} \cup {l \in {new} : valid}
                     ELSE h.lookups
<1>a. /\ h.page \in PageState /\ h.prompted \in Texts /\ h.suppressed \in Texts
      /\ h.requestId \in Nat /\ h.lookups \subseteq Lookups
  BY DEF HookState
<1>b. page.looked \in Texts /\ page.email \in Texts
  BY DEF WatchedState
<1>1. shows \in PageState
  <2>1. asks \in BOOLEAN
    BY DEF Asks
  <2>2. open \in BOOLEAN
    BY <2>1
  <2>3. text \in Texts /\ user \in Accounts \cup {Nobody}
    BY <1>a, <1>b DEF PageState
  <2>4. said \in {"idle", "checking", "registered", "unregistered", "error"}
    BY <1>a DEF PageState
  <2> HIDE DEF text, said, user, open
  <2> QED BY <1>a, <2>2, <2>3, <2>4 DEF PageState
<1>2. asked \in Texts
  BY <1>a, <1>b
<1>3. number \in Nat
  BY <1>a
<1>4. looked \in SUBSET Lookups
  <2>1. new \in Lookups
    BY <1>a, <1>b DEF Lookups
  <2> HIDE DEF new
  <2> QED BY <1>a, <2>1
<1>5. Effects(h, before, page) =
          [h EXCEPT !.page = shows, !.prompted = asked, !.requestId = number, !.lookups = looked]
  BY DEF Effects
<1>6. /\ shows.email = h.page.email /\ shows.who = h.page.who
      /\ shows.looked = text /\ shows.status = said /\ shows.found = user
      /\ shows.dialog <=> open
  BY <1>a DEF PageState
<1> HIDE DEF shows, asked, number, looked
<1>c. h = [page |-> h.page, prompted |-> h.prompted, suppressed |-> h.suppressed,
           requestId |-> h.requestId, lookups |-> h.lookups]
  BY DEF HookState
<1> DEFINE h1 == [h EXCEPT !.page = shows]
           h2 == [h1 EXCEPT !.prompted = asked]
           h3 == [h2 EXCEPT !.requestId = number]
<1>7. [h3 EXCEPT !.lookups = looked]
          = [page |-> shows, prompted |-> asked, suppressed |-> h.suppressed,
             requestId |-> number, lookups |-> looked]
  <2>1. h1 = [page |-> shows, prompted |-> h.prompted, suppressed |-> h.suppressed,
              requestId |-> h.requestId, lookups |-> h.lookups]
    BY <1>c
  <2> HIDE DEF h1
  <2>2. h2 = [page |-> shows, prompted |-> asked, suppressed |-> h.suppressed,
              requestId |-> h.requestId, lookups |-> h.lookups]
    BY <2>1
  <2> HIDE DEF h2
  <2>3. h3 = [page |-> shows, prompted |-> asked, suppressed |-> h.suppressed,
              requestId |-> number, lookups |-> h.lookups]
    BY <2>2
  <2> HIDE DEF h3
  <2> QED BY <2>3
<1> DEFINE e == Effects(h, before, page)
<1>8. e = [page |-> shows, prompted |-> asked, suppressed |-> h.suppressed,
           requestId |-> number, lookups |-> looked]
  BY <1>5, <1>7
<1> HIDE DEF e
<1>9. /\ e \in HookState
      /\ e.page = shows
      /\ e.suppressed = h.suppressed
      /\ e.requestId = number
      /\ e.lookups = looked
  BY <1>a, <1>1, <1>2, <1>3, <1>4, <1>8 DEF HookState
<1> QED BY <1>6, <1>9 DEF e, number, looked, After

\* What an event of the user leaves, its effects included.
LEMMA RenderedAre ==
    ASSUME PageTypeOK, NEW g \in HookState, NEW p \in PageState, Rendered(g, p)
    PROVE  \E first \in HookState, w \in WatchedState :
               /\ w = Watched(shown) /\ ran \in WatchedState /\ Watched(p) \in WatchedState
               /\ After(first, g, ran, w)
               /\ After(Now', first, w, Watched(p))
<1> DEFINE w == Watched(shown)
           first == Effects(g, ran, w)
           second == Effects(first, w, Watched(p))
<1>1. ran \in WatchedState /\ w \in WatchedState /\ Watched(p) \in WatchedState
  BY WatchedTyping DEF PageTypeOK
<1>2. Becomes(second)
  BY DEF Rendered
<1> HIDE DEF w
<1>3. After(first, g, ran, w)
  BY <1>1, EffectsAre
<1> HIDE DEF first
<1>4. first \in HookState
  BY <1>3 DEF After
<1>5. After(second, first, w, Watched(p))
  BY <1>1, <1>4, EffectsAre
<1> HIDE DEF second
<1>6. second \in HookState
  BY <1>5 DEF After
<1>7. Now' = [page |-> second.page, prompted |-> second.prompted,
              suppressed |-> second.suppressed, requestId |-> second.requestId,
              lookups |-> second.lookups]
  BY <1>2 DEF Becomes, Now
<1>8. Now' = second
  BY <1>6, <1>7 DEF HookState
<1> QED BY <1>1, <1>3, <1>4, <1>5, <1>8 DEF w

LEMMA BecomesNow == ASSUME NEW h \in HookState, Becomes(h) PROVE Now' = h
<1>1. Now' = [page |-> h.page, prompted |-> h.prompted, suppressed |-> h.suppressed,
              requestId |-> h.requestId, lookups |-> h.lookups]
  BY DEF Becomes, Now
<1> QED BY <1>1 DEF HookState

LEMMA HookTyping ==
    ASSUME Now' \in HookState
    PROVE  /\ queued' \in PageState /\ prompted' \in Texts /\ suppressed' \in Texts
           /\ requestId' \in Nat /\ lookups' \subseteq Lookups
BY DEF Now, HookState

LEMMA RunEffectsAre ==
    ASSUME PageTypeOK, RunEffects
    PROVE  /\ After(Now', Now, ran, Watched(shown))
           /\ Now' \in HookState /\ Watched(shown) \in WatchedState /\ ran \in WatchedState
<1> DEFINE w == Watched(shown)
           e == Effects(Now, ran, w)
<1>1. ran \in WatchedState /\ w \in WatchedState /\ Now \in HookState
  BY WatchedTyping, NowTyping DEF PageTypeOK
<1>2. Becomes(e)
  BY DEF RunEffects
<1>3. After(e, Now, ran, w)
  BY <1>1, EffectsAre
<1> HIDE DEF e
<1>4. Now' = e
  BY <1>2, <1>3, BecomesNow DEF After
<1> QED BY <1>1, <1>3, <1>4 DEF After

\* An event of the user leaves what recognition keeps alone, closes the dialog
\* or leaves it, and keeps the hushed email suppressed.
Event(g, p) ==
    /\ g.page.looked = queued.looked /\ g.page.status = queued.status
    /\ g.page.found = queued.found /\ g.page.who = queued.who
    /\ p.looked = shown.looked
    /\ g.requestId = requestId /\ g.lookups = lookups
    /\ ~g.page.dialog \/ (g.page.dialog = queued.dialog /\ p.dialog = shown.dialog)
    /\ (hushed # Empty => suppressed = hushed) => (hushed' # Empty => g.suppressed = hushed')

LEMMA EventsAre ==
    ASSUME PageTypeOK,
           (\E t \in Typed : Type(t)) \/ Dismiss \/ SubmitCode \/ SubmitCheckout
    PROVE  \E g \in HookState, p \in PageState : Rendered(g, p) /\ Event(g, p)
<1> USE PageAssumption
<1>a. /\ queued \in PageState /\ shown \in PageState /\ Now \in HookState
      /\ prompted \in Texts /\ suppressed \in Texts
      /\ requestId \in Nat /\ lookups \subseteq Lookups
  BY NowTyping DEF PageTypeOK
<1>1. CASE \E t \in Typed : Type(t)
  <2> PICK t \in Typed : Type(t)
    BY <1>1
  <2> DEFINE n == Normal[t]
             entered(page) == [page EXCEPT
                 !.email = t,
                 !.dismissed = IF Fresh(n) THEN Empty ELSE @,
                 !.signedOut = IF n # shown.signedOut THEN Empty ELSE @]
             mark == IF Fresh(n) THEN Empty ELSE prompted
             mute == IF Fresh(n) THEN Empty ELSE suppressed
             q == entered(queued)
             p == entered(shown)
             g == [Now EXCEPT !.page = q, !.prompted = mark, !.suppressed = mute]
  <2>1. t \in Texts /\ n \in Texts
    OBVIOUS
  <2>2. ASSUME NEW page \in PageState
        PROVE  /\ entered(page) \in PageState
               /\ entered(page).looked = page.looked /\ entered(page).status = page.status
               /\ entered(page).found = page.found /\ entered(page).who = page.who
               /\ entered(page).dialog = page.dialog
    BY <2>1 DEF PageState
  <2>3. /\ q \in PageState /\ p \in PageState
        /\ q.looked = queued.looked /\ q.status = queued.status
        /\ q.found = queued.found /\ q.who = queued.who /\ q.dialog = queued.dialog
        /\ p.looked = shown.looked /\ p.dialog = shown.dialog
    BY <1>a, <2>2
  <2>4. Rendered(g, p)
    BY DEF Type, Now
  <2>5. mark \in Texts /\ mute \in Texts
    BY <1>a
  <2>6. (hushed # Empty => suppressed = hushed) => (hushed' # Empty => mute = hushed')
    BY DEF Type, Fresh
  <2> HIDE DEF q, p, mark, mute
  <2>7. g = [page |-> q, prompted |-> mark, suppressed |-> mute,
             requestId |-> requestId, lookups |-> lookups]
    <3> DEFINE g1 == [Now EXCEPT !.page = q]
               g2 == [g1 EXCEPT !.prompted = mark]
    <3>1. g1 = [page |-> q, prompted |-> prompted, suppressed |-> suppressed,
                requestId |-> requestId, lookups |-> lookups]
      BY DEF Now
    <3> HIDE DEF g1
    <3>2. g2 = [page |-> q, prompted |-> mark, suppressed |-> suppressed,
                requestId |-> requestId, lookups |-> lookups]
      BY <3>1
    <3> HIDE DEF g2
    <3>3. [g2 EXCEPT !.suppressed = mute]
              = [page |-> q, prompted |-> mark, suppressed |-> mute,
                 requestId |-> requestId, lookups |-> lookups]
      BY <3>2
    <3> QED BY <3>3 DEF g1, g2
  <2> HIDE DEF g
  <2>8. g \in HookState
    BY <1>a, <2>3, <2>5, <2>7 DEF HookState
  <2>9. Event(g, p)
    BY <2>3, <2>6, <2>7 DEF Event
  <2> QED BY <2>3, <2>4, <2>8, <2>9
<1>2. CASE Dismiss
  <2> DEFINE n == Normal[shown.looked]
             q == [queued EXCEPT !.dismissed = n, !.dialog = FALSE]
             p == [shown EXCEPT !.dismissed = n, !.dialog = FALSE]
             g == [Now EXCEPT !.page = q, !.suppressed = n]
  <2>1. n \in Texts
    BY <1>a DEF PageState
  <2>2. /\ q \in PageState /\ p \in PageState
        /\ q.looked = queued.looked /\ q.status = queued.status
        /\ q.found = queued.found /\ q.who = queued.who /\ ~q.dialog
        /\ p.looked = shown.looked
    BY <1>a, <2>1 DEF PageState
  <2>3. Rendered(g, p) /\ hushed' = n
    BY <1>2 DEF Dismiss
  <2> HIDE DEF q, p, n
  <2>4. g = [page |-> q, prompted |-> prompted, suppressed |-> n,
             requestId |-> requestId, lookups |-> lookups]
    <3> DEFINE g1 == [Now EXCEPT !.page = q]
    <3>1. g1 = [page |-> q, prompted |-> prompted, suppressed |-> suppressed,
                requestId |-> requestId, lookups |-> lookups]
      BY DEF Now
    <3> HIDE DEF g1
    <3>2. [g1 EXCEPT !.suppressed = n]
              = [page |-> q, prompted |-> prompted, suppressed |-> n,
                 requestId |-> requestId, lookups |-> lookups]
      BY <3>1
    <3> QED BY <3>2 DEF g1
  <2> HIDE DEF g
  <2>5. g \in HookState
    BY <1>a, <2>1, <2>2, <2>4 DEF HookState
  <2>6. Event(g, p)
    BY <2>2, <2>3, <2>4 DEF Event
  <2> QED BY <2>2, <2>3, <2>5, <2>6
<1>3. ASSUME NEW q \in PageState, NEW p \in PageState, Rendered([Now EXCEPT !.page = q], p),
             hushed' = hushed,
             q.looked = queued.looked /\ q.status = queued.status,
             q.found = queued.found /\ q.who = queued.who /\ q.dialog = queued.dialog,
             p.looked = shown.looked /\ p.dialog = shown.dialog
      PROVE  \E g \in HookState, s \in PageState : Rendered(g, s) /\ Event(g, s)
  <2> DEFINE g == [Now EXCEPT !.page = q]
  <2>1. g = [page |-> q, prompted |-> prompted, suppressed |-> suppressed,
             requestId |-> requestId, lookups |-> lookups]
    BY DEF Now
  <2>2. Rendered(g, p)
    BY <1>3
  <2> HIDE DEF g
  <2>3. g \in HookState
    BY <1>a, <2>1 DEF HookState
  <2>4. Event(g, p)
    BY <1>3, <2>1 DEF Event
  <2> QED BY <2>2, <2>3, <2>4
<1>4. CASE SubmitCode
  <2> DEFINE q == [queued EXCEPT !.verifying = TRUE]
             p == [shown EXCEPT !.verifying = TRUE]
  <2>1. /\ q \in PageState /\ p \in PageState
        /\ q.looked = queued.looked /\ q.status = queued.status
        /\ q.found = queued.found /\ q.who = queued.who /\ q.dialog = queued.dialog
        /\ p.looked = shown.looked /\ p.dialog = shown.dialog
    BY <1>a DEF PageState
  <2>2. Rendered([Now EXCEPT !.page = q], p) /\ hushed' = hushed
    BY <1>4 DEF SubmitCode, Now
  <2> HIDE DEF q, p
  <2> QED BY <1>3, <2>1, <2>2
<1>5. CASE SubmitCheckout
  <2> DEFINE q == [queued EXCEPT !.submitting = TRUE]
             p == [shown EXCEPT !.submitting = TRUE]
  <2>1. /\ q \in PageState /\ p \in PageState
        /\ q.looked = queued.looked /\ q.status = queued.status
        /\ q.found = queued.found /\ q.who = queued.who /\ q.dialog = queued.dialog
        /\ p.looked = shown.looked /\ p.dialog = shown.dialog
    BY <1>a DEF PageState
  <2>2. Rendered([Now EXCEPT !.page = q], p) /\ hushed' = hushed
    BY <1>5 DEF SubmitCheckout, Now
  <2> HIDE DEF q, p
  <2> QED BY <1>3, <2>1, <2>2
<1> QED BY <1>1, <1>2, <1>4, <1>5

-----------------------------------------------------------------------------
(* Calls that are sent, and types. *)

\* The same call, perhaps no longer sure.
Same(c, d) ==
    /\ d.op = c.op /\ d.id = c.id /\ d.text = c.text /\ d.cookie = c.cookie /\ d.page = c.page
    /\ d.answer = c.answer /\ d.session = c.session
    /\ d.sure => c.sure

LEMMA MuddledAre ==
    ASSUME PageTypeOK
    PROVE  /\ Muddled \subseteq Calls
           /\ \A d \in Muddled : d.sure => d.op = "checkout"
           /\ \A d \in Muddled : \E c \in calls : Same(c, d)
           /\ (\A c, k \in calls : c.id = k.id => c = k) =>
                  \A d, e \in Muddled : d.id = e.id => d = e
<1> DEFINE weak(c) == [c EXCEPT !.sure = @ /\ c.op = "checkout"]
<1>1. Muddled = {weak(c) : c \in calls}
  BY DEF Muddled
<1>2. ASSUME NEW c \in calls
      PROVE  weak(c) \in Calls /\ (weak(c).sure => weak(c).op = "checkout") /\ Same(c, weak(c))
  <2> DEFINE s == c.sure /\ c.op = "checkout"
             d == [c EXCEPT !.sure = s]
  <2>1. c \in Calls /\ s \in BOOLEAN
    BY DEF PageTypeOK, Calls
  <2>2. s => c.sure /\ c.op = "checkout"
    OBVIOUS
  <2>3. d = weak(c)
    OBVIOUS
  <2> HIDE DEF s, weak
  <2>4. /\ d \in Calls /\ d.sure = s
        /\ d.op = c.op /\ d.id = c.id /\ d.text = c.text /\ d.cookie = c.cookie
        /\ d.page = c.page /\ d.answer = c.answer /\ d.session = c.session
    BY <2>1 DEF Calls
  <2> HIDE DEF d
  <2>5. d.sure => d.op = "checkout"
    BY <2>2, <2>4
  <2>6. Same(c, d)
    BY <2>2, <2>4 DEF Same
  <2> QED BY <2>3, <2>4, <2>5, <2>6
<1> HIDE DEF weak
<1>3. ASSUME \A c, k \in calls : c.id = k.id => c = k,
             NEW d \in Muddled, NEW e \in Muddled, d.id = e.id
      PROVE  d = e
  <2>1. PICK c \in calls : d = weak(c)
    BY <1>1
  <2>2. PICK k \in calls : e = weak(k)
    BY <1>1
  <2>3. c.id = d.id /\ k.id = e.id
    BY <1>2, <2>1, <2>2 DEF Same
  <2>4. c = k
    BY <1>3, <2>3
  <2> QED BY <2>1, <2>2, <2>4
<1> QED BY <1>1, <1>2, <1>3

\* What Send leaves: the calls there were, and the new one.
SentAs(old, new, op, t) ==
    /\ calls' = old \cup {new}
    /\ sent' = sent + 1 /\ sent' \in 0..MaxCalls
    /\ \A d \in old : \E c \in calls : Same(c, d)
    /\ (\A c, k \in calls : c.id = k.id => c = k) => \A d, e \in old : d.id = e.id => d = e
    /\ new.op = op /\ new.id = sent + 1 /\ new.text = t /\ new.cookie = jar
    /\ new.answer = "none"
    /\ op = "checkout" =>
          /\ old = calls
          /\ new.page = shown.who
          /\ new.sure => ~doubt /\ shown.who = queued.who
    /\ op # "checkout" =>
          /\ \A d \in old : d.sure => d.op = "checkout"
          /\ new.sure => \A d \in old : d.op = "checkout"

LEMMA SendAre ==
    ASSUME PageTypeOK, NEW op \in {"verify", "logout", "checkout"}, NEW t \in Texts, Send(op, t)
    PROVE  \E old \in SUBSET Calls, new \in Calls : SentAs(old, new, op, t)
<1> USE PageAssumption
<1>1. sent' = sent + 1 /\ sent' \in 0..MaxCalls
  BY DEF PageTypeOK, Send
<1>2. jar \in Sessions \cup {NoCookie} /\ shown.who \in Accounts \cup {Nobody}
  BY DEF PageTypeOK, PageState
<1>3. ASSUME NEW s \in BOOLEAN
      PROVE  LET new == Call(op, sent + 1, t, s)
             IN  /\ new \in Calls
                 /\ new.op = op /\ new.id = sent + 1 /\ new.text = t /\ new.cookie = jar
                 /\ new.answer = "none" /\ new.sure = s
                 /\ op = "checkout" => new.page = shown.who
  <2> DEFINE who == IF op = "checkout" THEN shown.who ELSE Nobody
             new == [op |-> op, id |-> sent + 1, text |-> t, cookie |-> jar, page |-> who,
                     sure |-> s, answer |-> "none", session |-> NoCookie]
  <2>1. who \in Accounts \cup {Nobody} /\ (op = "checkout" => who = shown.who)
    BY <1>2
  <2>2. Call(op, sent + 1, t, s) = new
    BY DEF Call
  <2> HIDE DEF who
  <2>3. new \in Calls
    BY <1>1, <1>2, <2>1 DEF Calls
  <2> QED BY <2>1, <2>2, <2>3
<1>4. CASE op = "checkout"
  <2> DEFINE s == ~doubt /\ shown.who = queued.who
             new == Call(op, sent + 1, t, s)
  <2>1. calls' = calls \cup {new} /\ calls \in SUBSET Calls
    BY <1>4 DEF Send, PageTypeOK
  <2>2. \A d \in calls : Same(d, d)
    BY DEF Same
  <2>3. s \in BOOLEAN
    OBVIOUS
  <2>4. s => ~doubt /\ shown.who = queued.who
    OBVIOUS
  <2> HIDE DEF s
  <2>5. /\ new \in Calls
        /\ new.op = op /\ new.id = sent + 1 /\ new.text = t /\ new.cookie = jar
        /\ new.answer = "none" /\ new.sure = s
        /\ new.page = shown.who
    BY <1>3, <1>4, <2>3
  <2> HIDE DEF new
  <2> QED BY <1>1, <1>4, <2>1, <2>2, <2>4, <2>5 DEF SentAs
<1>5. CASE op # "checkout"
  <2> DEFINE s == \A c \in calls : c.op = "checkout"
             new == Call(op, sent + 1, t, s)
  <2>1. calls' = Muddled \cup {new}
    BY <1>5 DEF Send
  <2>2. s \in BOOLEAN
    OBVIOUS
  <2>3. s => \A d \in Muddled : d.op = "checkout"
    BY MuddledAre DEF Same
  <2> HIDE DEF s
  <2>4. /\ new \in Calls
        /\ new.op = op /\ new.id = sent + 1 /\ new.text = t /\ new.cookie = jar
        /\ new.answer = "none" /\ new.sure = s
    BY <1>3, <2>2
  <2> HIDE DEF new
  <2> QED BY <1>1, <1>5, <2>1, <2>3, <2>4, MuddledAre DEF SentAs
<1> QED BY <1>4, <1>5

LEMMA InitTyping == Init => PageTyping
<1> SUFFICES ASSUME Init PROVE PageTyping
    OBVIOUS
<1>a. jar \in Sessions \cup {NoCookie} /\ live \subseteq Sessions /\ sent \in 0..MaxCalls
  BY PageAssumption DEF Init, Sessions
<1>b. calls \subseteq Calls
  <2>1. /\ calls = {[op |-> "me", id |-> 0, text |-> Empty, cookie |-> jar, page |-> Nobody,
                     sure |-> TRUE, answer |-> "none", session |-> NoCookie]}
    BY DEF Init, Call
  <2> QED BY <2>1, <1>a, PageAssumption DEF Calls
<1>1. PageTypeOK
  BY <1>a, <1>b, BlankTyping, WatchedTyping, PageAssumption DEF Init, PageTypeOK
<1>2. CallsInOrder
  BY PageAssumption DEF Init, CallsInOrder, CallFits, Known, Call, Sessions
<1> QED BY <1>1, <1>2 DEF PageTyping

\* Renders, effects and events of the user.
LEMMA PageStepTyping ==
    ASSUME PageTyping,
           \/ Render \/ RunEffects
           \/ (\E t \in Typed : Type(t)) \/ Dismiss \/ SubmitCode \/ SubmitCheckout \/ SignOut
    PROVE  PageTypeOK'
<1> USE PageAssumption
<1>a. PageTypeOK
  BY DEF PageTyping
<1>1. CASE Render
  BY <1>1, <1>a DEF Render, PageTypeOK, refVars, hookVars, apiVars
<1>2. CASE RunEffects
  BY <1>2, <1>a, RunEffectsAre, HookTyping DEF RunEffects, PageTypeOK, apiVars
<1>3. CASE (\E t \in Typed : Type(t)) \/ Dismiss \/ SubmitCode \/ SubmitCheckout
  <2>1. PICK g \in HookState, p \in PageState : Rendered(g, p)
    BY <1>3, <1>a, EventsAre
  <2>2. shown' = p /\ ran' = Watched(p)
    BY <2>1 DEF Rendered
  <2>3. Now' \in HookState
    BY <1>a, <2>1, RenderedAre DEF After
  <2>4. /\ queued' \in PageState /\ prompted' \in Texts /\ suppressed' \in Texts
        /\ requestId' \in Nat /\ lookups' \subseteq Lookups
        /\ shown' \in PageState /\ ran' \in WatchedState
    BY <2>2, <2>3, HookTyping, WatchedTyping
  <2>5. shown.looked \in Texts /\ shown.email \in Texts
    BY <1>a DEF PageTypeOK, PageState
  <2>6. CASE \E t \in Typed : Type(t)
    <3> PICK t \in Typed : Type(t)
      BY <2>6
    <3>1. hushed' \in Texts /\ UNCHANGED <<calls, sent, apiVars, doubt>>
      BY <1>a DEF Type, PageTypeOK
    <3> QED BY <1>a, <2>4, <3>1 DEF PageTypeOK, apiVars
  <2>7. CASE Dismiss
    <3>1. hushed' \in Texts /\ UNCHANGED <<calls, sent, apiVars, doubt>>
      BY <2>5, <2>7 DEF Dismiss
    <3> QED BY <1>a, <2>4, <3>1 DEF PageTypeOK, apiVars
  <2>8. CASE SubmitCode \/ SubmitCheckout
    <3>1. UNCHANGED <<apiVars, doubt, hushed>> /\ calls' \subseteq Calls /\ sent' \in 0..MaxCalls
      BY <1>a, <2>5, <2>8, SendAre DEF SubmitCode, SubmitCheckout, SentAs
    <3> QED BY <1>a, <2>4, <3>1 DEF PageTypeOK, apiVars
  <2> QED BY <1>3, <2>6, <2>7, <2>8
<1>4. CASE SignOut
  <2>1. shown.who \in Texts
    BY <1>4, <1>a DEF SignOut, PageTypeOK, PageState
  <2>2. /\ calls' \subseteq Calls /\ sent' \in 0..MaxCalls
        /\ UNCHANGED <<pageVars, refVars, hookVars, apiVars, doubt, hushed>>
    BY <1>4, <1>a, <2>1, SendAre DEF SignOut, SentAs
  <2> QED BY <1>a, <2>2 DEF PageTypeOK, pageVars, refVars, hookVars, apiVars
<1> QED BY <1>1, <1>2, <1>3, <1>4

LEMMA LookupTyping ==
    ASSUME PageTyping, NEW l \in lookups, LookupStep(l)
    PROVE  PageTypeOK'
<1> USE PageAssumption
<1>1. CASE TimerFires(l)
  BY <1>1 DEF PageTyping, PageTypeOK, TimerFires, Lookups, pageVars, refVars, apiVars
<1>2. CASE LookupAnswered(l)
  BY <1>2 DEF PageTyping, PageTypeOK, PageState, LookupAnswered, Heard, refVars, apiVars
<1>3. CASE LookupFails(l)
  BY <1>3 DEF PageTyping, PageTypeOK, PageState, LookupFails, Heard, refVars, apiVars
<1> QED BY <1>1, <1>2, <1>3 DEF LookupStep

LEMMA AnsweredAre ==
    ASSUME PageTypeOK, NEW c \in calls, NEW text \in {"ok", "refused", "read"},
           NEW s \in Sessions \cup {NoCookie}, Answer(c, text, s)
    PROVE  \E new \in Calls :
               /\ calls' = (calls \ {c}) \cup {new}
               /\ new.op = c.op /\ new.id = c.id /\ new.text = c.text /\ new.cookie = c.cookie
               /\ new.page = c.page /\ new.sure = c.sure
               /\ new.answer = text /\ new.session = s
<1> DEFINE c1 == [c EXCEPT !.answer = text]
           new == [c1 EXCEPT !.session = s]
<1>0. calls' = (calls \ {c}) \cup {new}
  BY DEF Answer
<1>1. c \in Calls
  BY DEF PageTypeOK
<1>2. /\ c1 \in Calls /\ c1.answer = text
      /\ c1.op = c.op /\ c1.id = c.id /\ c1.text = c.text /\ c1.cookie = c.cookie
      /\ c1.page = c.page /\ c1.sure = c.sure
  BY <1>1 DEF Calls
<1> HIDE DEF c1
<1>3. /\ new \in Calls /\ new.answer = text /\ new.session = s
      /\ new.op = c1.op /\ new.id = c1.id /\ new.text = c1.text /\ new.cookie = c1.cookie
      /\ new.page = c1.page /\ new.sure = c1.sure
  BY <1>2 DEF Calls
<1> HIDE DEF new
<1> QED BY <1>0, <1>2, <1>3

\* What a call served is, and what it leaves of the sessions.
LEMMA ServeAre ==
    ASSUME PageTyping, NEW c \in calls, Serve(c)
    PROVE  \E text \in {"ok", "refused"}, s \in Sessions \cup {NoCookie} :
               /\ c.answer = "none" /\ Answer(c, text, s)
               /\ live' \subseteq Sessions
               /\ c.op = "verify" =>
                     text = "ok" /\ s \in Sessions /\ s.by = c.id /\ live' = live \cup {s}
               /\ c.op # "verify" => live' \subseteq live
               /\ c.op = "me" /\ text = "ok" => s = c.cookie /\ s \in Sessions
               /\ c.op = "me" /\ text = "refused" => c.cookie \notin live'
               /\ c.op = "logout" => s = NoCookie
               /\ c.op = "checkout" => ServeCheckout(c)
               /\ c.op # "checkout" => orders' = orders
<1>0. c \in Calls /\ live \subseteq Sessions
  BY DEF PageTyping, PageTypeOK
<1>1. CASE ServeMe(c)
  <2>1. CASE c.cookie \in live
    BY <1>0, <1>1, <2>1 DEF ServeMe
  <2>2. CASE c.cookie \notin live
    BY <1>0, <1>1, <2>2 DEF ServeMe
  <2> QED BY <2>1, <2>2
<1>2. CASE ServeVerify(c)
  <2> DEFINE s == [user |-> Normal[c.text], by |-> c.id]
  <2>1. s \in Sessions /\ s.by = c.id
    BY <1>0, <1>2 DEF ServeVerify, Calls, Sessions
  <2>2. /\ c.op = "verify" /\ c.answer = "none" /\ Answer(c, "ok", s)
        /\ live' = live \cup {s} /\ orders' = orders
    BY <1>2 DEF ServeVerify
  <2> HIDE DEF s
  <2> QED BY <1>0, <2>1, <2>2
<1>3. CASE ServeLogout(c)
  BY <1>0, <1>3 DEF ServeLogout
<1>4. CASE ServeCheckout(c)
  <2>1. c.op = "checkout" /\ c.answer = "none" /\ Answer(c, "ok", NoCookie) /\ live' = live
    BY <1>4 DEF ServeCheckout
  <2> QED BY <1>0, <1>4, <2>1
<1> QED BY <1>1, <1>2, <1>3, <1>4 DEF Serve

LEMMA ServeTyping ==
    ASSUME PageTyping, NEW c \in calls, Serve(c)
    PROVE  PageTypeOK'
<1> USE PageAssumption
<1>0. c \in Calls /\ PageTypeOK /\ UNCHANGED <<pageVars, refVars, hookVars, sent, jar, doubt, hushed>>
  BY DEF PageTyping, PageTypeOK, Serve
<1>1. calls' \subseteq Calls /\ live' \subseteq Sessions
  <2>1. PICK text \in {"ok", "refused"}, s \in Sessions \cup {NoCookie} :
            Answer(c, text, s) /\ live' \subseteq Sessions
    BY ServeAre
  <2> QED BY <1>0, <2>1, AnsweredAre DEF PageTypeOK
<1>2. CASE orders' = orders
  BY <1>0, <1>1, <1>2 DEF PageTypeOK, pageVars, refVars, hookVars
<1>3. CASE ServeCheckout(c)
  <2> DEFINE o == [email |-> Normal[c.text], page |-> c.page, sure |-> c.sure,
                   user |-> UserOf(c.cookie)]
  <2>1. UserOf(c.cookie) \in Accounts \cup {Nobody}
    BY <1>0 DEF Calls, Sessions, UserOf
  <2>2. Normal[c.text] \in Texts /\ c.page \in Accounts \cup {Nobody} /\ c.sure \in BOOLEAN
    BY <1>0 DEF Calls
  <2>3. orders' = orders \cup {o}
    BY <1>3 DEF ServeCheckout
  <2>4. o \in [email : Texts, page : Accounts \cup {Nobody}, sure : BOOLEAN,
               user : Accounts \cup {Nobody}]
    BY <2>1, <2>2
  <2> HIDE DEF o
  <2> QED BY <1>0, <1>1, <2>3, <2>4 DEF PageTypeOK, pageVars, refVars, hookVars
<1>4. c.op # "checkout" => orders' = orders
  BY ServeAre
<1>5. c.op = "checkout" => ServeCheckout(c)
  BY ServeAre
<1> QED BY <1>2, <1>3, <1>4, <1>5

LEMMA HeaderTyping ==
    ASSUME PageTyping, NEW c \in calls, HeaderArrives(c)
    PROVE  PageTypeOK'
<1>1. PageTypeOK /\ c.session \in Sessions \cup {NoCookie}
  BY DEF PageTyping, PageTypeOK, Calls
<1>2. calls' \subseteq Calls
  BY <1>1, AnsweredAre DEF HeaderArrives, PageTypeOK
<1> QED BY <1>1, <1>2 DEF HeaderArrives, PageTypeOK, pageVars, refVars, hookVars

LEMMA AnswerTyping ==
    ASSUME PageTyping, NEW c \in calls,
           \/ MeAnswered(c) \/ MeFails(c)
           \/ CodeAccepted(c) \/ CodeTruncated(c) \/ CodeFails(c)
           \/ SignedOut(c) \/ SignOutFails(c)
           \/ CheckoutStored(c) \/ CheckoutFails(c)
    PROVE  PageTypeOK'
<1> USE PageAssumption
<1>0. c \in Calls /\ c.sure \in BOOLEAN /\ Normal[c.text] \in Texts /\ CallFits(c)
  BY DEF PageTyping, PageTypeOK, Calls, CallsInOrder
<1>a. queued \in PageState /\ PageTypeOK
  BY DEF PageTyping, PageTypeOK
<1>b. ASSUME queued' \in PageState, prompted' \in Texts, suppressed' \in Texts, hushed' \in Texts,
             doubt' \in BOOLEAN, calls' \subseteq calls,
             UNCHANGED <<shown, ran, hookVars, sent, apiVars>>
      PROVE  PageTypeOK'
  BY <1>a, <1>b DEF PageTypeOK, hookVars, apiVars
<1>c. prompted \in Texts /\ suppressed \in Texts /\ hushed \in Texts /\ doubt \in BOOLEAN /\ Empty \in Texts
  BY <1>a DEF PageTypeOK
<1>1. CASE MeAnswered(c)
  <2>1. c.answer = "ok" => c.session.user \in Accounts
    BY <1>0, <1>1 DEF CallFits, MeAnswered, Ends, Sessions
  <2>2. queued' \in PageState
    BY <1>1, <1>a, <2>1 DEF PageState, MeAnswered
  <2> QED BY <1>0, <1>1, <1>b, <1>c, <2>2 DEF MeAnswered, Ends, refVars
<1>2. CASE MeFails(c)
  BY <1>2, <1>a, <1>b, <1>c DEF MeFails, Ends, refVars
<1>3. CASE CodeAccepted(c)
  <2>1. c.session.user \in Accounts /\ c.session.user \in Texts
    BY <1>0, <1>3 DEF CallFits, CodeAccepted, Ends, Sessions
  <2>2. queued' \in PageState
    BY <1>3, <1>a, <2>1 DEF PageState, CodeAccepted
  <2> QED BY <1>0, <1>3, <1>b, <1>c, <2>1, <2>2 DEF CodeAccepted, Ends
<1>4. CASE CodeTruncated(c) \/ CodeFails(c)
  <2>1. queued' \in PageState
    BY <1>4, <1>a DEF PageState, CodeTruncated, CodeFails
  <2> QED BY <1>4, <1>b, <1>c, <2>1 DEF CodeTruncated, CodeFails, Ends, refVars
<1>5. CASE SignedOut(c)
  <2>1. queued' \in PageState
    BY <1>0, <1>5, <1>a DEF PageState, SignedOut, Calls
  <2> QED BY <1>0, <1>5, <1>b, <1>c, <2>1 DEF SignedOut, Ends
<1>6. CASE SignOutFails(c)
  BY <1>6, <1>a, <1>b, <1>c DEF SignOutFails, Ends, refVars
<1>7. CASE CheckoutStored(c)
  <2>1. queued' \in PageState
    BY <1>0, <1>7, <1>a DEF PageState, CheckoutStored
  <2> QED BY <1>0, <1>7, <1>b, <1>c, <2>1 DEF CheckoutStored, Ends
<1>8. CASE CheckoutFails(c)
  <2>1. queued' \in PageState
    BY <1>8, <1>a DEF PageState, CheckoutFails
  <2> QED BY <1>8, <1>b, <1>c, <2>1 DEF CheckoutFails, Ends, refVars
<1> QED BY <1>1, <1>2, <1>3, <1>4, <1>5, <1>6, <1>7, <1>8

LEMMA SessionEndsTyping == ASSUME PageTyping, SessionEnds PROVE PageTypeOK'
<1>1. PageTypeOK /\ sent + 1 \in 0..MaxCalls
  BY PageAssumption DEF PageTyping, PageTypeOK, SessionEnds
<1>2. calls' \subseteq Calls
  BY <1>1, MuddledAre DEF SessionEnds
<1> QED BY <1>1, <1>2 DEF PageTypeOK, SessionEnds, pageVars, refVars, hookVars

-----------------------------------------------------------------------------
(* The order of calls. *)

\* A session stays known while no Verify with its number comes up.
LEMMA KnownKept ==
    ASSUME PageTyping, NEW x \in Sessions \cup {NoCookie}, Known(x),
           sent' = sent \/ sent' = sent + 1,
           \A d \in calls' : d.op = "verify" /\ d.answer = "none" =>
               \/ d.id = sent + 1
               \/ \E c \in calls : c.op = "verify" /\ c.answer = "none" /\ c.id = d.id
    PROVE  Known(x)'
<1>1. x # NoCookie => x.by \in Nat /\ sent \in Nat
  BY DEF Sessions, PageTyping, PageTypeOK
<1> QED BY <1>1 DEF Known

LEMMA SameCalls ==
    ASSUME CallsInOrder, UNCHANGED <<calls, sent, apiVars>>
    PROVE  CallsInOrder'
BY DEF CallsInOrder, CallFits, Known, apiVars

\* Calls that were under way, perhaps no longer sure, and perhaps a new one.
LEMMA NewOrder ==
    ASSUME PageTyping, NEW old \in SUBSET Calls, NEW new \in SUBSET Calls,
           calls' = old \cup new,
           \A d \in old : \E c \in calls : Same(c, d),
           \A d, e \in old : d.id = e.id => d = e,
           \A d, e \in new : d = e,
           \A d \in new : d.id = sent + 1 /\ d.op # "me" /\ d.answer = "none" /\ d.cookie = jar,
           sent' = sent + 1,
           jar' \in {jar, NoCookie}, live' \subseteq live
    PROVE  CallsInOrder'
<1>a. sent \in Nat /\ jar \in Sessions \cup {NoCookie}
  BY DEF PageTyping, PageTypeOK
<1>b. \A c \in calls : c.id \in Nat /\ c.id <= sent /\ c.cookie \in Sessions \cup {NoCookie}
  BY DEF PageTyping, PageTypeOK, CallsInOrder, CallFits, Calls
<1>1. ASSUME NEW x \in Sessions \cup {NoCookie}, Known(x) PROVE Known(x)'
  <2>1. \A d \in calls' : d.op = "verify" /\ d.answer = "none" =>
            \/ d.id = sent + 1
            \/ \E c \in calls : c.op = "verify" /\ c.answer = "none" /\ c.id = d.id
    BY DEF Same
  <2> QED BY <1>1, <2>1, KnownKept
<1>2. Known(jar)'
  <2>1. Known(jar)
    BY DEF PageTyping, CallsInOrder
  <2>2. CASE jar' = jar
    BY <1>a, <1>1, <2>1, <2>2
  <2>3. CASE jar' = NoCookie
    BY <2>3 DEF Known
  <2> QED BY <2>2, <2>3
<1>3. \A d \in calls' : Known(d.cookie)'
  <2>1. \A d \in old : Known(d.cookie)'
    BY <1>b, <1>1 DEF Same, PageTyping, CallsInOrder
  <2>2. \A d \in new : Known(d.cookie)'
    BY <1>a, <1>1 DEF PageTyping, CallsInOrder
  <2> QED BY <2>1, <2>2
<1>4. \A d, e \in calls' : d.id = e.id => d = e
  <2>1. \A d \in old : d.id # sent + 1
    BY <1>a, <1>b DEF Same
  <2> QED BY <2>1
<1>5. \A d \in calls' : CallFits(d)'
  <2>1. \A d \in old : CallFits(d)'
    <3> SUFFICES ASSUME NEW d \in old PROVE CallFits(d)'
      OBVIOUS
    <3>1. PICK c \in calls : Same(c, d)
      OBVIOUS
    <3>2. CallFits(c) /\ c.id \in Nat
      BY <1>b DEF PageTyping, CallsInOrder
    <3> QED BY <1>a, <3>1, <3>2 DEF Same, CallFits
  <2>2. \A d \in new : CallFits(d)'
    BY <1>a DEF CallFits
  <2> QED BY <2>1, <2>2
<1> QED BY <1>2, <1>3, <1>4, <1>5 DEF CallsInOrder

\* An answered call stays what it was but for its answer.
LEMMA AnsweredOrder ==
    ASSUME PageTyping, NEW c \in calls, NEW new \in Calls,
           calls' = (calls \ {c}) \cup {new},
           new.op = c.op /\ new.id = c.id /\ new.cookie = c.cookie /\ new.answer # "none",
           sent' = sent, CallFits(new)',
           \A d \in calls : d.op = "me" /\ d.answer = "refused" /\ d # c => d.cookie \notin live',
           \/ jar' = jar
           \/ jar' = NoCookie
           \/ /\ c.op = "verify" /\ c.answer # "none"
              /\ jar' \in Sessions /\ jar'.by = c.id
    PROVE  CallsInOrder'
<1>a. sent \in Nat /\ jar \in Sessions \cup {NoCookie} /\ c \in Calls
  BY DEF PageTyping, PageTypeOK
<1>b. \A d \in calls : d.cookie \in Sessions \cup {NoCookie} /\ Known(d.cookie) /\ CallFits(d)
  BY DEF PageTyping, PageTypeOK, CallsInOrder, Calls
<1>1. ASSUME NEW x \in Sessions \cup {NoCookie}, Known(x) PROVE Known(x)'
  <2>1. \A d \in calls' : d.op = "verify" /\ d.answer = "none" => d \in calls
    OBVIOUS
  <2> QED BY <1>1, <2>1, KnownKept
<1>2. \A d \in calls' : Known(d.cookie)'
  BY <1>a, <1>b, <1>1
<1>3. \A d, e \in calls' : d.id = e.id => d = e
  BY DEF PageTyping, CallsInOrder
<1>4. \A d \in calls' : CallFits(d)'
  <2>1. \A d \in calls : d # c => CallFits(d)'
    BY <1>b DEF CallFits
  <2> QED BY <2>1
<1>5. Known(jar)'
  <2>1. CASE jar' = jar
    BY <1>a, <1>1, <2>1 DEF PageTyping, CallsInOrder
  <2>2. CASE jar' = NoCookie
    BY <2>2 DEF Known
  <2>3. CASE c.op = "verify" /\ c.answer # "none" /\ jar' \in Sessions /\ jar'.by = c.id
    <3>1. c.id <= sent
      BY <1>b DEF CallFits
    <3>2. \A d \in calls' : d.answer = "none" => d.id # c.id
      BY DEF PageTyping, CallsInOrder
    <3> QED BY <2>3, <3>1, <3>2 DEF Known
  <2> QED BY <2>1, <2>2, <2>3
<1> QED BY <1>2, <1>3, <1>4, <1>5 DEF CallsInOrder

LEMMA ServeOrder ==
    ASSUME PageTyping, NEW c \in calls, Serve(c)
    PROVE  CallsInOrder'
<1>0. /\ c \in Calls /\ calls \subseteq Calls /\ UNCHANGED <<sent, jar>> /\ PageTypeOK
      /\ CallFits(c)
  BY DEF PageTyping, PageTypeOK, Serve, CallsInOrder
<1>1. PICK text \in {"ok", "refused"}, s \in Sessions \cup {NoCookie} :
          /\ c.answer = "none" /\ Answer(c, text, s)
          /\ c.op = "verify" =>
                text = "ok" /\ s \in Sessions /\ s.by = c.id /\ live' = live \cup {s}
          /\ c.op # "verify" => live' \subseteq live
          /\ c.op = "me" /\ text = "ok" => s = c.cookie /\ s \in Sessions
          /\ c.op = "me" /\ text = "refused" => c.cookie \notin live'
          /\ c.op = "logout" => s = NoCookie
  BY ServeAre
<1>2. PICK new \in Calls :
          /\ calls' = (calls \ {c}) \cup {new}
          /\ new.op = c.op /\ new.id = c.id /\ new.cookie = c.cookie
          /\ new.answer = text /\ new.session = s
  BY <1>0, <1>1, AnsweredAre
<1>3. CallFits(new)'
  BY <1>0, <1>1, <1>2 DEF CallFits
<1>4. \A d \in calls : d.op = "me" /\ d.answer = "refused" /\ d # c => d.cookie \notin live'
  <2> SUFFICES ASSUME NEW d \in calls, d.op = "me", d.answer = "refused" PROVE d.cookie \notin live'
    OBVIOUS
  <2>1. d.cookie \notin live /\ Known(d.cookie) /\ d.cookie \in Sessions \cup {NoCookie}
    BY <1>0 DEF PageTyping, CallsInOrder, CallFits, Calls
  <2>2. CASE c.op = "verify"
    <3>1. s \in Sessions /\ s # NoCookie /\ s.by = c.id
      BY <1>1, <2>2, PageAssumption
    <3>2. d.cookie # s
      BY <1>1, <2>1, <2>2, <3>1 DEF Known
    <3> QED BY <1>1, <2>1, <2>2, <3>2
  <2>3. CASE c.op # "verify"
    BY <1>1, <2>1, <2>3
  <2> QED BY <2>2, <2>3
<1> QED BY <1>0, <1>1, <1>2, <1>3, <1>4, AnsweredOrder

LEMMA HeaderOrder ==
    ASSUME PageTyping, NEW c \in calls, HeaderArrives(c)
    PROVE  CallsInOrder'
<1>0. /\ c \in Calls /\ PageTypeOK /\ CallFits(c) /\ UNCHANGED <<sent, live>>
      /\ c.op \in {"verify", "logout"} /\ c.answer = "ok" /\ jar' = c.session
      /\ c.session \in Sessions \cup {NoCookie}
      /\ \A d \in calls : CallFits(d)
  BY DEF PageTyping, PageTypeOK, HeaderArrives, CallsInOrder, Calls
<1>1. PICK new \in Calls :
          /\ calls' = (calls \ {c}) \cup {new}
          /\ new.op = c.op /\ new.id = c.id /\ new.cookie = c.cookie
          /\ new.answer = "read" /\ new.session = c.session
  BY <1>0, AnsweredAre DEF HeaderArrives
<1>2. CallFits(new)'
  BY <1>0, <1>1 DEF CallFits
<1>3. \A d \in calls : d.op = "me" /\ d.answer = "refused" /\ d # c => d.cookie \notin live'
  BY <1>0 DEF CallFits
<1>4. \/ jar' = NoCookie
      \/ c.op = "verify" /\ c.answer # "none" /\ jar' \in Sessions /\ jar'.by = c.id
  BY <1>0 DEF CallFits
<1> QED BY <1>0, <1>1, <1>2, <1>3, <1>4, AnsweredOrder

LEMMA EndsOrder ==
    ASSUME PageTyping, NEW c \in calls, calls' = calls \ {c}, UNCHANGED <<sent, live, jar>>
    PROVE  CallsInOrder'
BY DEF PageTyping, CallsInOrder, Known, CallFits

LEMMA SessionEndsOrder ==
    ASSUME PageTyping, SessionEnds
    PROVE  CallsInOrder'
<1>1. /\ calls' = Muddled \cup {} /\ sent' = sent + 1 /\ jar' \in {jar, NoCookie}
      /\ live' \subseteq live
  BY DEF SessionEnds
<1>2. /\ Muddled \in SUBSET Calls
      /\ \A d \in Muddled : \E c \in calls : Same(c, d)
      /\ \A d, e \in Muddled : d.id = e.id => d = e
  BY MuddledAre DEF PageTyping, CallsInOrder
<1>3. {} \in SUBSET Calls
  OBVIOUS
<1> QED BY <1>1, <1>2, <1>3, NewOrder

LEMMA SendOrder ==
    ASSUME PageTyping, NEW op \in {"verify", "logout", "checkout"}, NEW t \in Texts, Send(op, t),
           UNCHANGED apiVars
    PROVE  CallsInOrder'
<1>0. PageTypeOK /\ (\A c, k \in calls : c.id = k.id => c = k)
  BY DEF PageTyping, CallsInOrder
<1>1. PICK old \in SUBSET Calls, new \in Calls : SentAs(old, new, op, t)
  BY <1>0, SendAre
<1>2. {new} \in SUBSET Calls /\ jar' \in {jar, NoCookie} /\ live' \subseteq live
  BY DEF apiVars
<1> QED BY <1>0, <1>1, <1>2, NewOrder DEF SentAs

\* Steps of the page that reach neither the API nor the cookie.
LEMMA LocalSteps ==
    ASSUME PageTyping,
           \/ Render \/ RunEffects \/ (\E t \in Typed : Type(t)) \/ Dismiss
           \/ \E l \in lookups : LookupStep(l)
    PROVE  UNCHANGED <<calls, sent, apiVars, doubt>> /\ queued'.who = queued.who
<1>a. PageTypeOK /\ queued \in PageState
  BY DEF PageTyping, PageTypeOK
<1>1. CASE Render
  BY <1>1 DEF Render
<1>2. CASE RunEffects
  <2>1. Now'.page.who = Now.page.who
    BY <1>2, <1>a, RunEffectsAre DEF After
  <2> QED BY <1>2, <2>1 DEF RunEffects, Now
<1>3. CASE (\E t \in Typed : Type(t)) \/ Dismiss
  <2>1. PICK g \in HookState, p \in PageState : Rendered(g, p) /\ Event(g, p)
    BY <1>3, <1>a, EventsAre
  <2>2. Now'.page.who = g.page.who
    BY <1>a, <2>1, RenderedAre DEF After
  <2>3. queued'.who = queued.who
    BY <2>1, <2>2 DEF Now, Event
  <2> QED BY <1>3, <2>3 DEF Type, Dismiss
<1>4. CASE \E l \in lookups : LookupStep(l)
  BY <1>4, <1>a DEF LookupStep, TimerFires, LookupAnswered, LookupFails, Heard, PageState, pageVars
<1> QED BY <1>1, <1>2, <1>3, <1>4

\* Submissions and the sign-out button.
LEMMA SendSteps ==
    ASSUME PageTyping, SubmitCode \/ SubmitCheckout \/ SignOut
    PROVE  \E op \in {"verify", "logout", "checkout"}, t \in Texts :
               /\ Send(op, t)
               /\ op = "checkout" => t = shown.email /\ MaySubmit
               /\ queued'.who = queued.who
               /\ UNCHANGED <<apiVars, doubt>>
<1>1. shown \in PageState /\ PageTypeOK
  BY DEF PageTyping, PageTypeOK
<1>2. CASE SubmitCode \/ SubmitCheckout
  <2>1. PICK g \in HookState, p \in PageState : Rendered(g, p) /\ Event(g, p)
    BY <1>1, <1>2, EventsAre
  <2>2. Now'.page.who = g.page.who
    BY <1>1, <2>1, RenderedAre DEF After
  <2>3. queued'.who = queued.who
    BY <2>1, <2>2 DEF Now, Event
  <2>4. shown.looked \in Texts /\ shown.email \in Texts
    BY <1>1 DEF PageState
  <2>5. CASE SubmitCode
    BY <2>3, <2>4, <2>5 DEF SubmitCode
  <2>6. CASE SubmitCheckout
    BY <2>3, <2>4, <2>6 DEF SubmitCheckout
  <2> QED BY <1>2, <2>5, <2>6
<1>3. CASE SignOut
  <2>1. shown.who \in Texts
    BY <1>1, <1>3, PageAssumption DEF SignOut, PageState
  <2> QED BY <1>3, <2>1 DEF SignOut, pageVars
<1> QED BY <1>2, <1>3

\* Steps in which a call ends.
CallEnds(c) ==
    \/ MeAnswered(c) \/ MeFails(c)
    \/ CodeAccepted(c) \/ CodeTruncated(c) \/ CodeFails(c)
    \/ SignedOut(c) \/ SignOutFails(c)
    \/ CheckoutStored(c) \/ CheckoutFails(c)

LEMMA CallEndsAre ==
    ASSUME NEW c \in calls, CallEnds(c)
    PROVE  calls' = calls \ {c} /\ UNCHANGED <<shown, ran, hookVars, sent, apiVars>>
BY DEF CallEnds, MeAnswered, MeFails, CodeAccepted, CodeTruncated, CodeFails,
   SignedOut, SignOutFails, CheckoutStored, CheckoutFails, Ends

LEMMA CallSteps ==
    ASSUME NEW c \in calls, CallStep(c)
    PROVE  Serve(c) \/ HeaderArrives(c) \/ CallEnds(c)
BY DEF CallStep, CallEnds

LEMMA NextTyping == PageTyping /\ [Next]_vars => PageTyping'
<1> SUFFICES ASSUME PageTyping, [Next]_vars PROVE PageTyping'
  OBVIOUS
<1>0. CallsInOrder
  BY DEF PageTyping
<1>1. CASE Render \/ RunEffects \/ (\E t \in Typed : Type(t)) \/ Dismiss
  BY <1>0, <1>1, PageStepTyping, LocalSteps, SameCalls DEF PageTyping
<1>2. CASE SubmitCode \/ SubmitCheckout \/ SignOut
  <2>1. PICK op \in {"verify", "logout", "checkout"}, t \in Texts :
            Send(op, t) /\ UNCHANGED apiVars
    BY <1>2, SendSteps
  <2>2. CallsInOrder'
    BY <2>1, SendOrder
  <2> QED BY <1>2, <2>2, PageStepTyping DEF PageTyping
<1>3. CASE \E l \in lookups : LookupStep(l)
  BY <1>0, <1>3, LookupTyping, LocalSteps, SameCalls DEF PageTyping
<1>4. CASE \E c \in calls : CallStep(c)
  <2> PICK c \in calls : CallStep(c)
    BY <1>4
  <2>1. CASE Serve(c)
    BY <2>1, ServeTyping, ServeOrder DEF PageTyping
  <2>2. CASE HeaderArrives(c)
    BY <2>2, HeaderTyping, HeaderOrder DEF PageTyping
  <2>3. CASE CallEnds(c)
    <3>1. PageTypeOK'
      BY <2>3, AnswerTyping DEF CallEnds
    <3>2. CallsInOrder'
      BY <2>3, CallEndsAre, EndsOrder DEF apiVars
    <3> QED BY <3>1, <3>2 DEF PageTyping
  <2> QED BY <2>1, <2>2, <2>3, CallSteps
<1>5. CASE SessionEnds
  BY <1>5, SessionEndsTyping, SessionEndsOrder DEF PageTyping
<1>6. CASE UNCHANGED vars
  <2>1. PageTypeOK'
    BY <1>6 DEF PageTyping, PageTypeOK, vars, refVars, hookVars, apiVars
  <2> QED BY <1>0, <1>6, <2>1, SameCalls DEF PageTyping, vars
<1> QED BY <1>1, <1>2, <1>3, <1>4, <1>5, <1>6 DEF Next

THEOREM PageTypingHolds == Spec => []PageTyping
BY InitTyping, NextTyping, PTL DEF Spec

\* Every variable of the page and of what it knows of the API keeps its type.
THEOREM PageTypeCorrect == Spec => []PageTypeOK
<1>1. PageTyping => PageTypeOK
  BY DEF PageTyping
<1> QED BY <1>1, PageTypingHolds, PTL

-----------------------------------------------------------------------------
(* Who is signed in. *)

\* A call that is sure to settle who is signed in is the only one that could;
\* what it will tell the page agrees with the cookie.
SureCalls ==
    \A c \in calls : c.op # "checkout" /\ c.sure =>
        /\ \A d \in calls : d.op # "checkout" => d = c
        /\ c.op = "me" => jar = c.cookie /\ queued.who = Nobody
        /\ c.answer = "read" => jar = c.session

LEMMA InitSureCalls == Init => SureCalls
BY DEF Init, SureCalls, Call, blank

LEMMA SureCallsKept == PageTyping /\ SureCalls /\ [Next]_vars => SureCalls'
<1> SUFFICES ASSUME PageTyping, SureCalls, [Next]_vars PROVE SureCalls'
  OBVIOUS
<1>a. PageTypeOK /\ queued \in PageState /\ calls \subseteq Calls
  BY DEF PageTyping, PageTypeOK
<1>1. CASE \/ Render \/ RunEffects \/ (\E t \in Typed : Type(t)) \/ Dismiss
           \/ \E l \in lookups : LookupStep(l)
  BY <1>1, LocalSteps DEF SureCalls, apiVars
<1>2. CASE SubmitCode \/ SubmitCheckout \/ SignOut
  <2>1. PICK op \in {"verify", "logout", "checkout"}, t \in Texts :
            Send(op, t) /\ queued'.who = queued.who /\ UNCHANGED apiVars
    BY <1>2, SendSteps
  <2>2. PICK old \in SUBSET Calls, new \in Calls : SentAs(old, new, op, t)
    BY <1>a, <2>1, SendAre
  <2>3. CASE op = "checkout"
    BY <2>1, <2>2, <2>3 DEF SentAs, SureCalls, apiVars
  <2>4. CASE op # "checkout"
    BY <2>1, <2>2, <2>4 DEF SentAs, SureCalls
  <2> QED BY <2>3, <2>4
<1>3. ASSUME NEW c \in calls, CallStep(c) PROVE SureCalls'
  <2>1. CASE Serve(c)
    <3>1. PICK text \in {"ok", "refused"}, s \in Sessions \cup {NoCookie} : Answer(c, text, s)
      BY <2>1, ServeAre
    <3>2. PICK new \in Calls :
              /\ calls' = (calls \ {c}) \cup {new}
              /\ new.op = c.op /\ new.cookie = c.cookie /\ new.sure = c.sure
              /\ new.answer = text
      BY <1>a, <3>1, AnsweredAre
    <3>3. jar' = jar /\ queued' = queued
      BY <2>1 DEF Serve, pageVars
    <3> QED BY <3>2, <3>3 DEF SureCalls
  <2>2. CASE HeaderArrives(c)
    <3>1. /\ c.op \in {"verify", "logout"} /\ Answer(c, "read", c.session)
          /\ jar' = c.session /\ queued' = queued /\ c.session \in Sessions \cup {NoCookie}
      BY <1>a, <2>2 DEF HeaderArrives, pageVars, Calls
    <3>2. PICK new \in Calls :
              /\ calls' = (calls \ {c}) \cup {new}
              /\ new.op = c.op /\ new.cookie = c.cookie /\ new.sure = c.sure
              /\ new.answer = "read" /\ new.session = c.session
      BY <1>a, <3>1, AnsweredAre
    <3> QED BY <3>1, <3>2 DEF SureCalls
  <2>3. CASE CallEnds(c)
    <3>1. calls' = calls \ {c} /\ jar' = jar
      BY <2>3, CallEndsAre DEF apiVars
    <3>2. CASE c.op = "checkout"
      <4>1. queued'.who = queued.who
        BY <1>a, <2>3, <3>2 DEF CallEnds, MeAnswered, MeFails, CodeAccepted, CodeTruncated,
           CodeFails, SignedOut, SignOutFails, CheckoutStored, CheckoutFails, Ends, PageState
      <4> QED BY <3>1, <4>1 DEF SureCalls
    <3>3. CASE c.op # "checkout"
      <4>1. \A d \in calls' : ~(d.op # "checkout" /\ d.sure)
        BY <3>1, <3>3 DEF SureCalls
      <4> QED BY <4>1 DEF SureCalls
    <3> QED BY <3>2, <3>3
  <2> QED BY <1>3, <2>1, <2>2, <2>3, CallSteps
<1>4. CASE SessionEnds
  <2>1. calls' = Muddled
    BY <1>4 DEF SessionEnds
  <2> QED BY <1>a, <2>1, MuddledAre DEF SureCalls
<1>5. CASE UNCHANGED vars
  BY <1>5 DEF vars, apiVars, SureCalls
<1> QED BY <1>1, <1>2, <1>3, <1>4, <1>5 DEF Next

LEMMA AgreeOnceToldKept ==
    PageTyping /\ SureCalls /\ AgreeOnceTold /\ [Next]_vars => AgreeOnceTold'
<1> SUFFICES ASSUME PageTyping, SureCalls, AgreeOnceTold, [Next]_vars, ~doubt',
                    jar' \in live' \cup {NoCookie}
             PROVE  queued'.who = UserOf(jar')
  BY DEF AgreeOnceTold, UserOf
<1>a. /\ queued \in PageState /\ live \subseteq Sessions /\ NoCookie \notin Sessions
      /\ calls \subseteq Calls /\ jar \in Sessions \cup {NoCookie}
  BY PageAssumption DEF PageTyping, PageTypeOK
<1>b. ASSUME queued'.who = queued.who, UNCHANGED <<doubt, jar>>, live' \subseteq live
      PROVE  queued'.who = UserOf(jar')
  BY <1>b DEF AgreeOnceTold
<1>1. CASE \/ Render \/ RunEffects \/ (\E t \in Typed : Type(t)) \/ Dismiss
           \/ \E l \in lookups : LookupStep(l)
  BY <1>1, <1>b, LocalSteps DEF apiVars
<1>2. CASE SubmitCode \/ SubmitCheckout \/ SignOut
  BY <1>2, <1>b, SendSteps DEF apiVars
<1>3. ASSUME NEW c \in calls, CallStep(c)
      PROVE  queued'.who = UserOf(jar')
  <2>0. CallFits(c) /\ c \in Calls
    BY <1>a DEF PageTyping, CallsInOrder
  <2>1. CASE Serve(c)
    <3>1. UNCHANGED <<queued, doubt, jar>>
      BY <2>1 DEF Serve, pageVars
    <3>2. PICK text \in {"ok", "refused"}, s \in Sessions \cup {NoCookie} :
              /\ c.answer = "none"
              /\ c.op = "verify" => s \in Sessions /\ s.by = c.id /\ live' = live \cup {s}
              /\ c.op # "verify" => live' \subseteq live
      BY <2>1, ServeAre
    <3>3. CASE c.op = "verify"
      <4>1. jar # s
        BY <1>a, <3>2, <3>3 DEF PageTyping, CallsInOrder, Known
      <4> QED BY <3>1, <3>2, <3>3, <4>1 DEF AgreeOnceTold
    <3>4. CASE c.op # "verify"
      BY <1>b, <3>1, <3>2, <3>4
    <3> QED BY <3>3, <3>4
  <2>2. CASE HeaderArrives(c)
    BY <2>2 DEF HeaderArrives
  <2>3. CASE MeAnswered(c)
    <3>1. /\ c.op = "me" /\ c.answer # "none" /\ c.sure /\ jar' = jar /\ live' = live
          /\ queued' = IF c.answer = "ok" THEN [queued EXCEPT !.who = c.session.user] ELSE queued
      BY <2>3 DEF MeAnswered, Ends, apiVars
    <3>2. jar = c.cookie /\ queued.who = Nobody
      BY <3>1 DEF SureCalls
    <3>3. CASE c.answer = "ok"
      <4>1. c.session = jar /\ jar \in Sessions
        BY <2>0, <3>1, <3>2, <3>3 DEF CallFits
      <4>2. queued'.who = c.session.user
        BY <1>a, <3>1, <3>3 DEF PageState
      <4> QED BY <1>a, <3>1, <4>1, <4>2 DEF UserOf
    <3>4. CASE c.answer # "ok"
      <4>1. c.answer = "refused"
        BY <2>0, <3>1, <3>4 DEF CallFits, Calls
      <4>2. jar \notin live
        BY <2>0, <3>1, <3>2, <4>1 DEF CallFits
      <4>3. queued'.who = Nobody
        BY <3>1, <3>2, <3>4
      <4> QED BY <3>1, <4>2, <4>3 DEF UserOf
    <3> QED BY <3>3, <3>4
  <2>4. CASE CodeAccepted(c)
    <3>1. c.op = "verify" /\ c.answer = "read" /\ c.sure /\ jar' = jar
      BY <2>4 DEF CodeAccepted, Ends, apiVars
    <3>2. jar = c.session /\ c.session \in Sessions
      BY <2>0, <3>1 DEF SureCalls, CallFits
    <3>3. queued'.who = c.session.user
      BY <1>a, <2>4 DEF CodeAccepted, PageState
    <3> QED BY <1>a, <3>1, <3>2, <3>3 DEF UserOf
  <2>5. CASE SignedOut(c)
    <3>1. c.op = "logout" /\ c.answer = "read" /\ c.sure /\ jar' = jar
      BY <2>5 DEF SignedOut, Ends, apiVars
    <3>2. jar = NoCookie
      BY <2>0, <3>1 DEF SureCalls, CallFits
    <3>3. queued'.who = Nobody
      BY <1>a, <2>5 DEF SignedOut, PageState
    <3> QED BY <3>1, <3>2, <3>3 DEF UserOf
  <2>6. CASE \/ MeFails(c) \/ CodeTruncated(c) \/ CodeFails(c) \/ SignOutFails(c)
             \/ CheckoutStored(c) \/ CheckoutFails(c)
    <3>1. queued'.who = queued.who /\ UNCHANGED <<doubt, jar, live>>
      BY <2>6, <1>a DEF PageState, MeFails, CodeTruncated, CodeFails, SignOutFails, CheckoutStored,
           CheckoutFails, Ends, apiVars
    <3> QED BY <1>b, <3>1
  <2> QED BY <1>3, <2>1, <2>2, <2>3, <2>4, <2>5, <2>6 DEF CallStep
<1>4. CASE SessionEnds
  BY <1>4 DEF SessionEnds
<1>5. CASE UNCHANGED vars
  BY <1>5, <1>b DEF vars, apiVars
<1> QED BY <1>1, <1>2, <1>3, <1>4, <1>5 DEF Next

THEOREM SureCallsHolds == Spec => []SureCalls
BY InitSureCalls, SureCallsKept, PageTypingHolds, PTL DEF Spec

\* Once one call, overlapped by no other, has settled who is signed in, the page
\* shows the user of the session its calls carry, whatever else is answered late,
\* fails or is sent.
THEOREM AgreeOnceToldHolds == Spec => []AgreeOnceTold
<1>1. Init => AgreeOnceTold
  BY DEF Init, AgreeOnceTold
<1> QED BY <1>1, PageTypingHolds, SureCallsHolds, AgreeOnceToldKept, PTL DEF Spec

-----------------------------------------------------------------------------
(* Whose orders are stored. *)

\* A checkout sent by a page that knew who is signed in names the user the page
\* showed, and so does its cookie, as long as the API does not refuse it.
CheckoutsMatch ==
    \A c \in calls : c.op = "checkout" /\ c.sure =>
        /\ c.page # Nobody => Normal[c.text] = c.page
        /\ c.cookie \in live \cup {NoCookie} => UserOf(c.cookie) = c.page

LEMMA CheckoutsMatchKept ==
    PageTyping /\ AgreeOnceTold /\ CheckoutsMatch /\ [Next]_vars => CheckoutsMatch'
<1> SUFFICES ASSUME PageTyping, AgreeOnceTold, CheckoutsMatch, [Next]_vars PROVE CheckoutsMatch'
  OBVIOUS
<1>0. PageTypeOK /\ calls \subseteq Calls /\ NoCookie \notin Sessions
  BY PageAssumption DEF PageTyping, PageTypeOK
<1>a. ASSUME calls' \subseteq calls, live' \subseteq live
      PROVE  CheckoutsMatch'
  BY <1>a DEF CheckoutsMatch, UserOf
<1>1. CASE \/ Render \/ RunEffects \/ (\E t \in Typed : Type(t)) \/ Dismiss
           \/ \E l \in lookups : LookupStep(l)
  BY <1>1, <1>a, LocalSteps DEF apiVars
<1>2. CASE SubmitCode \/ SubmitCheckout \/ SignOut
  <2>1. PICK op \in {"verify", "logout", "checkout"}, t \in Texts :
            /\ Send(op, t) /\ UNCHANGED apiVars
            /\ op = "checkout" => t = shown.email /\ MaySubmit
    BY <1>2, SendSteps
  <2>2. PICK old \in SUBSET Calls, new \in Calls : SentAs(old, new, op, t)
    BY <1>0, <2>1, SendAre
  <2>3. CASE op = "checkout"
    <3>1. /\ calls' = calls \cup {new} /\ live' = live
          /\ new.text = shown.email /\ new.cookie = jar /\ new.page = shown.who
          /\ new.sure => ~doubt /\ shown.who = queued.who
      BY <2>1, <2>2, <2>3 DEF SentAs, apiVars
    <3>2. new.sure =>
              /\ new.page # Nobody => Normal[new.text] = new.page
              /\ new.cookie \in live \cup {NoCookie} => UserOf(new.cookie) = new.page
      BY <2>1, <2>3, <3>1 DEF AgreeOnceTold, MaySubmit
    <3> QED BY <3>1, <3>2 DEF CheckoutsMatch, UserOf
  <2>4. CASE op # "checkout"
    <3>1. /\ calls' = old \cup {new} /\ live' = live /\ new.op # "checkout"
          /\ \A d \in old : \E c \in calls : Same(c, d)
      BY <2>1, <2>2, <2>4 DEF SentAs, apiVars
    <3> QED BY <3>1 DEF CheckoutsMatch, Same, UserOf
  <2> QED BY <2>3, <2>4
<1>3. ASSUME NEW c \in calls, CallStep(c)
      PROVE  CheckoutsMatch'
  <2>1. ASSUME NEW new \in Calls, calls' = (calls \ {c}) \cup {new},
               new.op = c.op, new.text = c.text, new.cookie = c.cookie,
               new.page = c.page, new.sure = c.sure,
               \A d \in calls : d.cookie \in live' => d.cookie \in live
        PROVE  CheckoutsMatch'
    BY <2>1 DEF CheckoutsMatch, UserOf
  <2>2. CASE Serve(c)
    <3>1. PICK text \in {"ok", "refused"}, s \in Sessions \cup {NoCookie} :
              /\ c.answer = "none" /\ Answer(c, text, s)
              /\ c.op = "verify" => s \in Sessions /\ s.by = c.id /\ live' = live \cup {s}
              /\ c.op # "verify" => live' \subseteq live
      BY <2>2, ServeAre
    <3>2. \A d \in calls : d.cookie \in live' => d.cookie \in live
      <4>1. CASE c.op = "verify"
        <5>1. s # NoCookie /\ \A d \in calls : d.cookie # s
          BY <1>0, <3>1, <4>1 DEF PageTyping, CallsInOrder, Known
        <5> QED BY <3>1, <4>1, <5>1
      <4>2. CASE c.op # "verify"
        BY <3>1, <4>2
      <4> QED BY <4>1, <4>2
    <3>3. PICK new \in Calls :
              /\ calls' = (calls \ {c}) \cup {new}
              /\ new.op = c.op /\ new.text = c.text /\ new.cookie = c.cookie
              /\ new.page = c.page /\ new.sure = c.sure
      BY <1>0, <3>1, AnsweredAre
    <3> QED BY <2>1, <3>2, <3>3
  <2>3. CASE HeaderArrives(c)
    <3>1. Answer(c, "read", c.session) /\ live' = live /\ c.session \in Sessions \cup {NoCookie}
      BY <1>0, <2>3 DEF HeaderArrives, Calls
    <3>2. PICK new \in Calls :
              /\ calls' = (calls \ {c}) \cup {new}
              /\ new.op = c.op /\ new.text = c.text /\ new.cookie = c.cookie
              /\ new.page = c.page /\ new.sure = c.sure
      BY <1>0, <3>1, AnsweredAre
    <3> QED BY <2>1, <3>1, <3>2
  <2>4. CASE CallEnds(c)
    BY <1>a, <2>4, CallEndsAre DEF apiVars
  <2> QED BY <1>3, <2>2, <2>3, <2>4, CallSteps
<1>4. CASE SessionEnds
  <2>1. calls' = Muddled /\ live' \subseteq live /\ \A d \in Muddled : \E c \in calls : Same(c, d)
    BY <1>0, <1>4, MuddledAre DEF SessionEnds
  <2> QED BY <2>1 DEF CheckoutsMatch, Same, UserOf
<1>5. CASE UNCHANGED vars
  BY <1>5, <1>a DEF vars, apiVars
<1> QED BY <1>1, <1>2, <1>3, <1>4, <1>5 DEF Next

LEMMA OrdersKept ==
    PageTyping /\ CheckoutsMatch /\ MemberOrdersMatch /\ [Next]_vars => MemberOrdersMatch'
<1> SUFFICES ASSUME PageTyping, CheckoutsMatch, MemberOrdersMatch, [Next]_vars
             PROVE  MemberOrdersMatch'
  OBVIOUS
<1>1. CASE orders' = orders
  BY <1>1 DEF MemberOrdersMatch
<1>2. ASSUME NEW c \in calls, ServeCheckout(c)
      PROVE  MemberOrdersMatch'
  <2> DEFINE user == UserOf(c.cookie)
             new == [email |-> Normal[c.text], page |-> c.page, sure |-> c.sure, user |-> user]
  <2>1. /\ orders' = orders \cup {new}
        /\ c.op = "checkout" /\ c.cookie \in live \cup {NoCookie}
    BY <1>2 DEF ServeCheckout
  <2>2. c.sure => (c.page # Nobody => Normal[c.text] = c.page) /\ user = c.page
    BY <2>1 DEF CheckoutsMatch
  <2>3. new.sure = c.sure /\ new.page = c.page /\ new.email = Normal[c.text] /\ new.user = user
    OBVIOUS
  <2> HIDE DEF new, user
  <2> QED BY <2>1, <2>2, <2>3 DEF MemberOrdersMatch
<1>3. ASSUME NEW c \in calls, CallStep(c)
      PROVE  MemberOrdersMatch'
  <2>1. CASE Serve(c)
    <3>1. orders' = orders \/ ServeCheckout(c)
      BY <2>1, ServeAre DEF Serve
    <3> QED BY <1>1, <1>2, <3>1
  <2>2. CASE HeaderArrives(c)
    BY <1>1, <2>2 DEF HeaderArrives
  <2>3. CASE CallEnds(c)
    BY <1>1, <2>3, CallEndsAre DEF apiVars
  <2> QED BY <1>3, <2>1, <2>2, <2>3, CallSteps
<1>4. CASE \/ Render \/ RunEffects \/ (\E t \in Typed : Type(t)) \/ Dismiss
           \/ \E l \in lookups : LookupStep(l)
  BY <1>1, <1>4, LocalSteps DEF apiVars
<1>5. CASE SubmitCode \/ SubmitCheckout \/ SignOut
  BY <1>1, <1>5, SendSteps DEF apiVars
<1>6. CASE SessionEnds \/ UNCHANGED vars
  BY <1>1, <1>6 DEF SessionEnds, vars, apiVars
<1> QED BY <1>3, <1>4, <1>5, <1>6 DEF Next

\* A checkout sent by a page that knew who is signed in is stored for the user
\* it showed, under this user's email, or for nobody if it showed nobody.
THEOREM MemberOrdersMatchHolds == Spec => []MemberOrdersMatch
<1>1. Init => CheckoutsMatch /\ MemberOrdersMatch
  BY DEF Init, Call, CheckoutsMatch, MemberOrdersMatch
<1> QED
  BY <1>1, PageTypingHolds, AgreeOnceToldHolds, CheckoutsMatchKept, OrdersKept, PTL DEF Spec

-----------------------------------------------------------------------------
(* What is said of the email. *)

\* Recognition follows what effects have seen: the newest lookup is of the text
\* its effect saw, and status and user are about this text.
FollowedBy(h, seen) ==
    /\ h.page.looked = seen.email
    /\ \A l \in h.lookups :
          /\ l.id <= h.requestId
          /\ WellFormed(l.text)
          /\ l.id = h.requestId => l.text = seen.looked
    /\ h.page.found # Nobody => h.page.found = Normal[seen.looked]
    /\ h.page.status = "registered" => h.page.found # Nobody
    /\ h.page.status = "unregistered" => Normal[seen.looked] \in Addresses \ Accounts
    /\ h.page.status = "checking" => \E l \in h.lookups : l.id = h.requestId

Followed == FollowedBy(Now, ran)

LEMMA InitFollowed == Init => Followed
BY DEF Init, Followed, FollowedBy, Now, Watched, blank

\* Effects keep recognition with what they see.
LEMMA EffectsFollowed ==
    ASSUME NEW h \in HookState, NEW e \in HookState, NEW before \in WatchedState,
           NEW page \in WatchedState, FollowedBy(h, before), After(e, h, before, page)
    PROVE  FollowedBy(e, page)
<1>1. h.requestId \in Nat /\ h.lookups \subseteq Lookups
  BY DEF HookState
<1>2. e.page.looked = page.email
  BY DEF After, FollowedBy
<1>3. CASE page.looked = before.looked
  <2>1. /\ e.page.found = h.page.found /\ e.page.status = h.page.status
        /\ e.requestId = h.requestId /\ e.lookups = h.lookups
    BY <1>3 DEF After
  <2> QED BY <1>2, <1>3, <2>1 DEF FollowedBy
<1>4. CASE page.looked # before.looked
  <2> DEFINE new == [id |-> h.requestId + 1, text |-> page.looked, stage |-> "timer"]
             valid == WellFormed(page.looked)
  <2>1. /\ e.page.found = Nobody
        /\ e.page.status = IF valid THEN "checking" ELSE "idle"
        /\ e.requestId = h.requestId + 1
        /\ e.lookups = {l \in h.lookups : l.stage = "sent"} \cup {l \in {new} : valid}
    BY <1>4 DEF After
  <2>2. \A l \in e.lookups : l \in h.lookups \/ (l = new /\ valid)
    BY <2>1
  <2>3. \A l \in h.lookups : l.id <= h.requestId /\ l.id \in Nat /\ WellFormed(l.text)
    BY <1>1 DEF FollowedBy, Lookups
  <2>4. \A l \in e.lookups :
            /\ l.id <= e.requestId
            /\ WellFormed(l.text)
            /\ l.id = e.requestId => l.text = page.looked
    BY <1>1, <2>1, <2>2, <2>3
  <2>5. e.page.status = "checking" => \E l \in e.lookups : l.id = e.requestId
    <3>1. valid => new \in e.lookups
      BY <2>1
    <3> QED BY <2>1, <3>1
  <2> QED BY <1>2, <2>1, <2>4, <2>5 DEF FollowedBy
<1> QED BY <1>3, <1>4

LEMMA PageFollowed ==
    ASSUME PageTyping, Followed,
           RunEffects \/ (\E t \in Typed : Type(t)) \/ Dismiss \/ SubmitCode \/ SubmitCheckout
    PROVE  Followed'
<1>a. PageTypeOK /\ Now \in HookState
  BY NowTyping DEF PageTyping
<1>1. CASE RunEffects
  <2> DEFINE w == Watched(shown)
  <2>1. /\ After(Now', Now, ran, w) /\ Now' \in HookState
        /\ w \in WatchedState /\ ran \in WatchedState
    BY <1>a, <1>1, RunEffectsAre
  <2>2. ran' = w
    BY <1>1 DEF RunEffects
  <2> HIDE DEF w
  <2>3. FollowedBy(Now', w)
    BY <1>a, <2>1, EffectsFollowed DEF Followed
  <2> QED BY <2>2, <2>3 DEF Followed, FollowedBy
<1>2. CASE (\E t \in Typed : Type(t)) \/ Dismiss \/ SubmitCode \/ SubmitCheckout
  <2>1. PICK g \in HookState, p \in PageState : Rendered(g, p) /\ Event(g, p)
    BY <1>2, <1>a, EventsAre
  <2>2. PICK first \in HookState, w \in WatchedState :
            /\ w = Watched(shown) /\ ran \in WatchedState /\ Watched(p) \in WatchedState
            /\ After(first, g, ran, w)
            /\ After(Now', first, w, Watched(p))
    BY <1>a, <2>1, RenderedAre
  <2>3. FollowedBy(g, ran)
    BY <2>1 DEF Event, Followed, FollowedBy, Now
  <2>4. FollowedBy(first, w)
    BY <2>2, <2>3, EffectsFollowed
  <2>5. Now' \in HookState
    BY <2>2 DEF After
  <2>6. FollowedBy(Now', Watched(p))
    BY <2>2, <2>4, <2>5, EffectsFollowed
  <2>7. ran' = Watched(p)
    BY <2>1 DEF Rendered
  <2> QED BY <2>6, <2>7 DEF Followed, FollowedBy
<1> QED BY <1>1, <1>2

LEMMA LookupFollowed ==
    ASSUME PageTyping, Followed, NEW l \in lookups, LookupStep(l)
    PROVE  Followed'
<1> USE DEF Followed, FollowedBy, Now
<1>1. queued \in PageState /\ requestId \in Nat /\ lookups \subseteq Lookups /\ l \in Lookups
  BY DEF PageTyping, PageTypeOK
<1>2. CASE TimerFires(l)
  <2> DEFINE new == [l EXCEPT !.stage = "sent"]
  <2>1. /\ lookups' = (lookups \ {l}) \cup {new}
        /\ UNCHANGED <<queued, ran, requestId>>
    BY <1>2 DEF TimerFires, pageVars
  <2>2. new.id = l.id /\ new.text = l.text
    BY <1>1 DEF Lookups
  <2> HIDE DEF new
  <2>3. \A k \in lookups : \E j \in lookups' : j.id = k.id
    BY <2>1, <2>2
  <2> QED BY <2>1, <2>2, <2>3 DEF WellFormed
<1>3. CASE LookupAnswered(l) \/ LookupFails(l)
  <2>1. lookups' = lookups \ {l} /\ UNCHANGED <<ran, requestId>>
    BY <1>3 DEF LookupAnswered, LookupFails, Heard
  <2>2. CASE Stale(l)
    <3>1. queued' = queued
      BY <1>3, <2>2 DEF LookupAnswered, LookupFails
    <3> QED BY <2>1, <2>2, <3>1 DEF Stale, WellFormed
  <2>3. CASE ~Stale(l)
    <3>1. WellFormed(l.text) /\ l.text = ran.looked /\ Nobody \notin Accounts
      BY <2>3, PageAssumption DEF Stale
    <3>2. CASE LookupAnswered(l)
      <4> DEFINE n == Normal[l.text]
      <4>1. /\ queued'.found = IF n \in Accounts THEN n ELSE Nobody
            /\ queued'.status = IF n \in Accounts THEN "registered" ELSE "unregistered"
            /\ queued'.looked = queued.looked
        BY <1>1, <2>3, <3>2 DEF LookupAnswered, PageState
      <4> QED BY <2>1, <3>1, <4>1 DEF WellFormed
    <3>3. CASE LookupFails(l)
      <4>1. /\ queued'.found = queued.found /\ queued'.status = "error"
            /\ queued'.looked = queued.looked
        BY <1>1, <2>3, <3>3 DEF LookupFails, PageState
      <4> QED BY <2>1, <3>1, <4>1 DEF WellFormed
    <3> QED BY <1>3, <3>2, <3>3
  <2> QED BY <2>2, <2>3
<1> QED BY <1>2, <1>3 DEF LookupStep

LEMMA CallFollowed ==
    ASSUME PageTyping, Followed, NEW c \in calls, CallStep(c)
    PROVE  Followed'
<1>1. queued \in PageState
  BY DEF PageTyping, PageTypeOK
<1>2. CASE Serve(c) \/ HeaderArrives(c)
  BY <1>2 DEF Serve, HeaderArrives, pageVars, hookVars, Followed, FollowedBy, Now
<1>3. CASE CallEnds(c)
  <2>1. UNCHANGED <<ran, hookVars>>
    BY <1>3, CallEndsAre
  <2>2. /\ queued'.looked = queued.looked /\ queued'.status = queued.status
        /\ queued'.found = queued.found
    BY <1>1, <1>3 DEF CallEnds, MeAnswered, MeFails, CodeAccepted, CodeTruncated, CodeFails,
       SignedOut, SignOutFails, CheckoutStored, CheckoutFails, PageState
  <2> QED BY <2>1, <2>2 DEF hookVars, Followed, FollowedBy, Now
<1> QED BY <1>2, <1>3, CallSteps

LEMMA NextFollowed == PageTyping /\ Followed /\ [Next]_vars => Followed'
<1> SUFFICES ASSUME PageTyping, Followed, [Next]_vars PROVE Followed'
  OBVIOUS
<1>1. CASE RunEffects \/ (\E t \in Typed : Type(t)) \/ Dismiss \/ SubmitCode \/ SubmitCheckout
  BY <1>1, PageFollowed
<1>2. CASE \E l \in lookups : LookupStep(l)
  BY <1>2, LookupFollowed
<1>3. CASE \E c \in calls : CallStep(c)
  BY <1>3, CallFollowed
<1>4. CASE Render \/ SignOut \/ SessionEnds \/ UNCHANGED vars
  <2>1. UNCHANGED <<queued, ran, hookVars>>
    BY <1>4 DEF Render, SignOut, SessionEnds, vars, pageVars
  <2> QED BY <2>1 DEF hookVars, Followed, FollowedBy, Now
<1> QED BY <1>1, <1>2, <1>3, <1>4 DEF Next

THEOREM FollowedHolds == Spec => []Followed
BY InitFollowed, NextFollowed, PageTypingHolds, PTL DEF Spec

\* Whatever the order of the answers, what a settled page says of the email is
\* said of the text in the field.
THEOREM RecognitionIsCurrentHolds == Spec => []RecognitionIsCurrent
<1>1. Followed => RecognitionIsCurrent
  BY DEF Followed, FollowedBy, Now, RecognitionIsCurrent, Settled, Watched
<1> QED BY <1>1, FollowedHolds, PTL

\* A settled page that says it is checking has a lookup of the text in the
\* field under way.
THEOREM CheckingIsUnderWayHolds == Spec => []CheckingIsUnderWay
<1>1. Followed => CheckingIsUnderWay
  BY DEF Followed, FollowedBy, Now, CheckingIsUnderWay, Settled, Stale, Watched
<1> QED BY <1>1, FollowedHolds, PTL

-----------------------------------------------------------------------------
(* No prompt twice. *)

\* The hushed email is suppressed.
Hushed == hushed # Empty => suppressed = hushed

\* Each step keeps it so, and opens the dialog for no email that is suppressed
\* after the step.
LEMMA NextHushed ==
    PageTyping /\ Hushed /\ [Next]_vars =>
        /\ Hushed'
        /\ Opens => suppressed' # Normal[shown.looked]
<1> SUFFICES ASSUME PageTyping, Hushed, [Next]_vars
             PROVE  Hushed' /\ (Opens => suppressed' # Normal[shown.looked])
  OBVIOUS
<1>a. PageTypeOK /\ queued \in PageState /\ shown \in PageState
  BY DEF PageTyping, PageTypeOK
<1>b. ASSUME UNCHANGED shown, queued'.dialog => queued.dialog
      PROVE  ~Opens
  BY <1>b DEF Opens
<1>1. CASE RunEffects
  <2>1. After(Now', Now, ran, Watched(shown))
    BY <1>a, <1>1, RunEffectsAre
  <2>2. /\ suppressed' = suppressed
        /\ queued'.dialog <=> queued.dialog \/ Asks(Now, ran, Watched(shown))
    BY <2>1 DEF After, Now
  <2>3. Asks(Now, ran, Watched(shown)) => suppressed # Normal[shown.looked]
    BY DEF Asks, Now, Watched
  <2>4. hushed' = hushed /\ shown' = shown
    BY <1>1 DEF RunEffects
  <2> QED BY <1>b, <2>2, <2>3, <2>4 DEF Hushed
<1>2. CASE (\E t \in Typed : Type(t)) \/ Dismiss \/ SubmitCode \/ SubmitCheckout
  <2>1. PICK g \in HookState, p \in PageState : Rendered(g, p) /\ Event(g, p)
    BY <1>2, <1>a, EventsAre
  <2>2. PICK first \in HookState, w \in WatchedState :
            /\ w = Watched(shown)
            /\ After(first, g, ran, w)
            /\ After(Now', first, w, Watched(p))
    BY <1>a, <2>1, RenderedAre
  <2>3. /\ first.suppressed = g.suppressed
        /\ first.page.dialog <=> g.page.dialog \/ Asks(g, ran, w)
    BY <2>2 DEF After
  <2>4. /\ suppressed' = g.suppressed
        /\ queued'.dialog <=> first.page.dialog \/ Asks(first, w, Watched(p))
    BY <2>2, <2>3 DEF After, Now
  <2>5. Asks(g, ran, w) => g.suppressed # Normal[shown.looked]
    BY <2>2 DEF Asks, Watched
  <2>6. Asks(first, w, Watched(p)) => g.suppressed # Normal[shown.looked]
    BY <2>1, <2>3 DEF Asks, Watched, Event
  <2>7. Hushed'
    BY <2>1, <2>4 DEF Event, Hushed
  <2>8. ASSUME ~Asks(g, ran, w), ~Asks(first, w, Watched(p)) PROVE ~Opens
    <3>1. queued'.dialog <=> g.page.dialog
      BY <2>3, <2>4, <2>8
    <3>2. shown' = p
      BY <2>1 DEF Rendered
    <3> QED BY <2>1, <3>1, <3>2 DEF Event, Opens
  <2> QED BY <2>4, <2>5, <2>6, <2>7, <2>8
<1>3. CASE Render
  BY <1>3 DEF Render, refVars, Hushed, Opens
<1>4. CASE SignOut \/ SessionEnds \/ UNCHANGED vars
  <2>1. UNCHANGED <<queued, shown, suppressed, hushed>>
    BY <1>4 DEF SignOut, SessionEnds, vars, pageVars, refVars
  <2> QED BY <1>b, <2>1 DEF Hushed
<1>5. CASE \E l \in lookups : LookupStep(l)
  <2>1. UNCHANGED <<shown, suppressed, hushed>> /\ queued'.dialog = queued.dialog
    BY <1>a, <1>5 DEF LookupStep, TimerFires, LookupAnswered, LookupFails, Heard, PageState,
       pageVars, refVars
  <2> QED BY <1>b, <2>1 DEF Hushed
<1>6. CASE \E c \in calls : CallStep(c)
  <2> PICK c \in calls : CallStep(c)
    BY <1>6
  <2>1. CASE Serve(c) \/ HeaderArrives(c)
    <3>1. UNCHANGED <<queued, shown, suppressed, hushed>>
      BY <2>1 DEF Serve, HeaderArrives, pageVars, refVars
    <3> QED BY <1>b, <3>1 DEF Hushed
  <2>2. CASE CallEnds(c)
    <3>1. shown' = shown
      BY <2>2, CallEndsAre
    <3>2. queued'.dialog => queued.dialog
      BY <1>a, <2>2 DEF CallEnds, MeAnswered, MeFails, CodeAccepted, CodeTruncated, CodeFails,
         SignedOut, SignOutFails, CheckoutStored, CheckoutFails, PageState
    <3>3. Hushed'
      BY <2>2 DEF Hushed, CallEnds, MeAnswered, MeFails, CodeAccepted, CodeTruncated, CodeFails,
         SignedOut, SignOutFails, CheckoutStored, CheckoutFails, refVars
    <3> QED BY <1>b, <3>1, <3>2, <3>3
  <2> QED BY <2>1, <2>2, CallSteps
<1> QED BY <1>1, <1>2, <1>3, <1>4, <1>5, <1>6 DEF Next

\* No effect or answer that is still to come opens the dialog for the email last
\* dismissed, submitted or signed in with, until the user enters another one or
\* signs out.
THEOREM HushedStaysHolds == Spec => HushedStays
<1>1. Init => Hushed
  BY DEF Init, Hushed
<1>2. PageTyping /\ Hushed /\ [Next]_vars => Hushed'
  BY NextHushed
<1>3. PageTyping /\ Hushed /\ [Next]_vars =>
          [Opens => hushed' = Empty \/ hushed' # Normal[shown.looked]]_vars
  BY NextHushed DEF Hushed
<1> QED BY <1>1, <1>2, <1>3, PageTypingHolds, PTL DEF Spec, HushedStays
=============================================================================
