--------------------------- MODULE SessionsProofs ---------------------------
(***************************************************************************)
(* Proofs about module Sessions for any browsers, any number of calls      *)
(* under way together and any number of pairs.                             *)
(*                                                                         *)
(* What is proved follows from one inductive invariant, Inv.  Its idea: a  *)
(* login belongs to one browser, and in a browser that is not rough one    *)
(* call at a time carries the one live pair of that login from the cookies *)
(* to the API and its successor back.                                      *)
(***************************************************************************)
EXTENDS Sessions, TLAPS

Busy(c) == call[c] # Idle
Early == {"sent", "unauthorised"} \cup Refreshing

\* The pairs a browser has in its cookies or in calls under way.
Holds(b, p) ==
    /\ p # NoPair
    /\ \/ p = jar[b]
       \/ \E c \in Call : Busy(c) /\ call[c].browser = b /\ p \in {call[c].with, call[c].new}

\* Logins are pairs that were issued, and only those can have ended.
LoginsAreIssued ==
    /\ \A p \in 1..issued : login[p] \in 1..issued
    /\ ended \subseteq 1..issued

\* A call has a new pair from its issue on, for the 15 minutes the access
\* token lasts; only calls that carry a pair refresh, and no login does.
Sound(c) ==
    /\ call[c].at \in Early => call[c].new = NoPair
    /\ call[c].at \in Early \ {"sent"} => call[c].kind \in {"request", "bare", "change"}
                                          /\ call[c].with # NoPair
    /\ call[c].kind = "login" => call[c].with = NoPair
    /\ call[c].at = "issued" => call[c].new # NoPair
    /\ call[c].new # NoPair => call[c].new > lapsed
CallsAreSound == \A c \in Call : Busy(c) => Sound(c)

\* What is being refreshed was not ended before.
RefreshesAreOpen ==
    \A c \in Call : Busy(c) /\ call[c].at \in Refreshing =>
        login[call[c].with] \notin ended \ overtaken

\* A login belongs to one browser.
SessionsAreApart ==
    \A a, b \in Browser : \A p, q \in Pair :
        Holds(a, p) /\ Holds(b, q) /\ login[p] = login[q] => a = b

\* The pair of a login under way is nowhere else, has no successor, and is
\* revoked only by a change of password.
LoginsAreFresh ==
    \A c \in Call : Busy(c) /\ call[c].kind = "login" /\ call[c].new # NoPair =>
        /\ login[call[c].new] = call[c].new
        /\ \A q \in 1..issued : login[q] = call[c].new => q = call[c].new
        /\ \A b \in Browser : jar[b] # call[c].new
        /\ \A d \in Call : Busy(d) => call[d].with # call[c].new
                                      /\ (call[d].new = call[c].new => d = c)
        /\ call[c].new \in revoked => call[c].new \in ended

\* In a browser that is not rough calls do not overlap,
OneCall(b) == \A c, d \in Under(b) : c = d

\* a call carries the cookies' pair until it is answered,
CarriesCookies(b) ==
    \A c \in Under(b) :
        /\ call[c].with \in {NoPair, jar[b]}
        /\ call[c].at \in Early /\ call[c].kind # "login" => call[c].with = jar[b]

\* once it has spent that pair it brings back a successor,
BringsSuccessor(b) ==
    \A c \in Under(b) :
        call[c].kind # "login" /\ (call[c].at = "revoked" \/ call[c].new # NoPair) =>
            /\ jar[b] # NoPair /\ jar[b] \in revoked
            /\ call[c].new # NoPair => login[call[c].new] = login[jar[b]]

\* which is live unless the session has ended,
NewIsLive(b) ==
    \A c \in Under(b) :
        call[c].new # NoPair /\ call[c].new \in revoked => login[call[c].new] \in ended

\* and it is refused only when the session is over.
RefusalIsTrue(b) ==
    \A c \in Under(b) :
        call[c].at = "401" /\ call[c].kind \in Clearing =>
            jar[b] = NoPair \/ Over(jar[b])

\* No pair of the cookies' session is live but theirs and its successor,
OneLive(b) ==
    jar[b] # NoPair => \A q \in 1..issued :
        q \notin revoked /\ login[q] = login[jar[b]] =>
            q = jar[b] \/ \E c \in Under(b) : q = call[c].new

\* and as long as the session has not ended, one of the two is, unless the
\* refresh broke off in between and its answer will clear the cookies.
Clears(kind, stage) == stage = "denied" /\ kind \in Clearing
SpentIsReplaced(b) ==
    jar[b] # NoPair /\ jar[b] \in revoked /\ login[jar[b]] \notin ended =>
        \E c \in Under(b) :
            /\ call[c].kind # "login"
            /\ call[c].at = "revoked" \/ call[c].new # NoPair \/ Clears(call[c].kind, call[c].at)

Smooth(b) ==
    /\ OneCall(b) /\ CarriesCookies(b) /\ BringsSuccessor(b) /\ NewIsLive(b)
    /\ RefusalIsTrue(b) /\ OneLive(b) /\ SpentIsReplaced(b)

SmoothBrowsers == \A b \in Browser \ rough : Smooth(b)

Inv ==
    /\ TypeOK
    /\ LoginsAreIssued
    /\ CallsAreSound
    /\ SessionsStayEnded
    /\ RefreshesAreOpen
    /\ SessionsAreApart
    /\ LoginsAreFresh
    /\ SmoothBrowsers

-----------------------------------------------------------------------------
\* The progress of call c changes to these values, that of no other call.
Becomes(c, stage, with, new) ==
    /\ call' \in [Call -> Progress]
    /\ call'[c] = [at |-> stage, kind |-> call[c].kind, browser |-> call[c].browser,
                   with |-> with, new |-> new]
    /\ \A d \in Call \ {c} : call'[d] = call[d]

LEMMA BusyCall ==
    ASSUME TypeOK, NEW c \in Call, Busy(c)
    PROVE  /\ call[c] = [at |-> call[c].at, kind |-> call[c].kind, browser |-> call[c].browser,
                         with |-> call[c].with, new |-> call[c].new]
           /\ call[c].at \in Stage /\ call[c].kind \in Kind /\ call[c].browser \in Browser
           /\ call[c].with \in 0..issued /\ call[c].new \in 0..issued
<1>1. call[c] \in [at: Stage, kind: Kind, browser: Browser, with: 0..MaxPair, new: 0..MaxPair]
  BY DEF TypeOK, Progress, Busy
<1>2. call[c].with <= issued /\ call[c].new <= issued
  BY DEF TypeOK, Busy
<1> QED
  BY <1>1, <1>2, SessionsAssumption DEF TypeOK

LEMMA StageMeansBusy ==
    ASSUME NEW c \in Call, call[c].at \in Stage, TypeOK
    PROVE  Busy(c)
BY DEF Busy, Idle, Stage, Waiting, Answered, Refreshing

LEMMA Moves ==
    ASSUME TypeOK, NEW c \in Call, Busy(c), NEW stage \in Stage, Move(c, stage)
    PROVE  Becomes(c, stage, call[c].with, call[c].new)
<1> DEFINE next == [at |-> stage, kind |-> call[c].kind, browser |-> call[c].browser,
                    with |-> call[c].with, new |-> call[c].new]
<1>0. call[c] = [at |-> call[c].at, kind |-> call[c].kind, browser |-> call[c].browser,
                 with |-> call[c].with, new |-> call[c].new]
  BY BusyCall
<1>1. [call[c] EXCEPT !.at = stage] = next
  BY <1>0
<1>2. next \in Progress
  BY BusyCall, SessionsAssumption DEF Progress, TypeOK
<1> HIDE DEF next
<1>3. call' = [call EXCEPT ![c] = next]
  BY <1>1 DEF Move
<1>4. call'[c] = next /\ call' \in [Call -> Progress] /\ \A d \in Call \ {c} : call'[d] = call[d]
  BY <1>3, <1>2 DEF TypeOK
<1> QED
  BY <1>4 DEF Becomes, next

LEMMA Answers ==
    ASSUME TypeOK, NEW c \in Call, Busy(c), NEW stage \in Stage, Answer(c, stage)
    PROVE  Becomes(c, stage, NoPair, call[c].new)
<1> DEFINE next == [at |-> stage, kind |-> call[c].kind, browser |-> call[c].browser,
                    with |-> NoPair, new |-> call[c].new]
<1>0. call[c] = [at |-> call[c].at, kind |-> call[c].kind, browser |-> call[c].browser,
                 with |-> call[c].with, new |-> call[c].new]
  BY BusyCall
<1>2. next \in Progress
  BY BusyCall, SessionsAssumption DEF Progress, TypeOK, NoPair
<1> HIDE DEF next
<1>3. call' = [call EXCEPT ![c] = next]
  <2> DEFINE mid == [call EXCEPT ![c].at = stage]
             half == [at |-> stage, kind |-> call[c].kind, browser |-> call[c].browser,
                      with |-> call[c].with, new |-> call[c].new]
  <2>0. [call[c] EXCEPT !.at = stage] = half
    BY <1>0
  <2>1. mid = [call EXCEPT ![c] = half] /\ mid[c] = half
    BY <2>0 DEF TypeOK
  <2>2. call' = [mid EXCEPT ![c] = [half EXCEPT !.with = NoPair]]
    BY <2>1 DEF Answer
  <2>3. [half EXCEPT !.with = NoPair] = next
    BY DEF next
  <2> HIDE DEF half
  <2>4. call' = [[call EXCEPT ![c] = half] EXCEPT ![c] = next]
    BY <2>1, <2>2, <2>3
  <2> QED
    BY <2>4 DEF TypeOK
<1>4. call'[c] = next /\ call' \in [Call -> Progress] /\ \A d \in Call \ {c} : call'[d] = call[d]
  BY <1>3, <1>2 DEF TypeOK
<1> QED
  BY <1>4 DEF Becomes, next

LEMMA Issues ==
    ASSUME TypeOK, NEW c \in Call, Busy(c), NEW stage \in Stage, NEW p \in 0..issued,
           Issue(c, stage, p)
    PROVE  Becomes(c, stage, call[c].with, issued + 1)
<1> DEFINE next == [at |-> stage, kind |-> call[c].kind, browser |-> call[c].browser,
                    with |-> call[c].with, new |-> issued + 1]
<1>0. call[c] = [at |-> call[c].at, kind |-> call[c].kind, browser |-> call[c].browser,
                 with |-> call[c].with, new |-> call[c].new]
  BY BusyCall
<1>2. next \in Progress
  BY BusyCall, SessionsAssumption DEF Progress, TypeOK, Issue
<1> HIDE DEF next
<1>3. call' = [call EXCEPT ![c] = next]
  <2> DEFINE mid == [call EXCEPT ![c].at = stage]
             half == [at |-> stage, kind |-> call[c].kind, browser |-> call[c].browser,
                      with |-> call[c].with, new |-> call[c].new]
  <2>0. [call[c] EXCEPT !.at = stage] = half
    BY <1>0
  <2>1. mid = [call EXCEPT ![c] = half] /\ mid[c] = half
    BY <2>0 DEF TypeOK
  <2>2. call' = [mid EXCEPT ![c] = [half EXCEPT !.new = issued + 1]]
    BY <2>1 DEF Issue
  <2>3. [half EXCEPT !.new = issued + 1] = next
    BY DEF next
  <2> HIDE DEF half
  <2>4. call' = [[call EXCEPT ![c] = half] EXCEPT ![c] = next]
    BY <2>1, <2>2, <2>3
  <2> QED
    BY <2>4 DEF TypeOK
<1>4. call'[c] = next /\ call' \in [Call -> Progress] /\ \A d \in Call \ {c} : call'[d] = call[d]
  BY <1>3, <1>2 DEF TypeOK
<1> QED
  BY <1>4 DEF Becomes, next

\* What a step on one call does to the terms the invariant is made of.
LEMMA AfterStep ==
    ASSUME TypeOK, NEW c \in Call, Busy(c), NEW stage \in Stage, NEW with, NEW new,
           Becomes(c, stage, with, new)
    PROVE  /\ \A d \in Call : Busy(d)' <=> Busy(d)
           /\ \A d \in Call : call'[d].kind = call[d].kind /\ call'[d].browser = call[d].browser
           /\ \A d \in Call \ {c} : call'[d] = call[d]
           /\ call'[c].at = stage /\ call'[c].with = with /\ call'[c].new = new
           /\ \A b : Under(b)' = Under(b)
           /\ call' \in [Call -> Progress]
<1>1. call'[c].at = stage /\ call'[c].with = with /\ call'[c].new = new
      /\ call'[c].kind = call[c].kind /\ call'[c].browser = call[c].browser
  BY DEF Becomes
<1>2. Busy(c)'
  BY DEF Becomes, Busy, Idle
<1>3. \A d \in Call \ {c} : call'[d] = call[d]
  BY DEF Becomes
<1>4. \A d \in Call : Busy(d)' <=> Busy(d)
  BY <1>2, <1>3 DEF Busy
<1>5. \A d \in Call : call'[d].kind = call[d].kind /\ call'[d].browser = call[d].browser
  BY <1>1, <1>3
<1>6. \A b : Under(b)' = Under(b)
  BY <1>4, <1>5 DEF Under, Busy
<1> QED
  BY <1>1, <1>3, <1>4, <1>5, <1>6 DEF Becomes

-----------------------------------------------------------------------------
(* The actions, by what they do to call c. *)

\* A step towards the answer that changes no token and no cookie.
Advances(c, stage, with) ==
    /\ Busy(c) /\ Becomes(c, stage, with, call[c].new)
    /\ stage \in {"unauthorised", "checked", "changed", "done", "401", "denied"}
    /\ call[c].at \in Waiting
    /\ call[c].at \notin {"sent", "unauthorised", "issued"} => stage \in {"done", "denied"} /\ with = NoPair
    /\ call[c].at = "revoked" => stage = "denied" /\ call[c].kind \in Clearing
    /\ with \in {NoPair, call[c].with}
    /\ stage \in {"unauthorised", "checked"} =>
        /\ with = call[c].with /\ call[c].at \in Early
        /\ call[c].kind \in {"request", "bare", "change"}
        /\ call[c].at = "sent" => with # NoPair
    /\ stage = "checked" => Refreshable(with)
    /\ stage = "401" => \/ call[c].kind = "login"
                        \/ call[c].at = "sent" /\ call[c].with = NoPair
                        \/ call[c].at = "issued" /\ ~Accepts(Carried(c))
                        \/ call[c].at = "unauthorised" /\ ~Refreshable(call[c].with)
    /\ UNCHANGED <<tokens, clock, jar, rough>>

\* A new pair p, for a login of its own or in place of the pair of call c.
Obtains(c, stage, from) ==
    /\ Busy(c) /\ Becomes(c, stage, call[c].with, issued + 1)
    /\ issued < MaxPair /\ issued' = issued + 1
    /\ login' = [login EXCEPT ![issued + 1] = from]
    /\ UNCHANGED <<revoked, ended, overtaken, clock, jar, rough>>

\* Call c is no longer under way.
Ends(c) ==
    /\ Busy(c) /\ call[c].at \in Answered
    /\ call' \in [Call -> Progress] /\ call'[c] = Idle
    /\ \A d \in Call \ {c} : call'[d] = call[d]
    /\ UNCHANGED <<tokens, clock>>

Spends(c) ==
    /\ Busy(c) /\ call[c].at = "checked" /\ Becomes(c, "revoked", call[c].with, call[c].new)
    /\ revoked' = revoked \cup {call[c].with}
    /\ UNCHANGED <<issued, login, ended, overtaken, clock, jar, rough>>

Rotates(c) == call[c].at = "revoked" /\ Obtains(c, "issued", login[call[c].with])

LogsIn(c) == call[c].at = "sent" /\ call[c].kind = "login" /\ Obtains(c, "done", issued + 1)

EndsAll(c) ==
    /\ Busy(c) /\ call[c].at = "changed" /\ Becomes(c, "done", NoPair, call[c].new)
    /\ revoked' = 1..issued
    /\ ended' = ended \cup {login[p] : p \in 1..issued}
    /\ overtaken' = overtaken \cup {SessionOf(d) : d \in {e \in Call : call[e].at \in Refreshing}}
    /\ UNCHANGED <<issued, login, clock, jar, rough>>

LogsOut(c) ==
    /\ Busy(c) /\ call[c].at = "sent" /\ call[c].kind = "logout"
    /\ Becomes(c, "done", NoPair, call[c].new)
    /\ revoked' = revoked \cup ({call[c].with} \ {NoPair})
    /\ ended' = IF call[c].with # NoPair /\ call[c].browser \notin rough
                THEN ended \cup {SessionOf(c)} ELSE ended
    /\ UNCHANGED <<issued, login, overtaken, clock, jar, rough>>

Breaks(c) ==
    /\ Busy(c) /\ \E stage \in {"done", "denied"} : Becomes(c, stage, NoPair, NoPair)
    /\ rough' = rough \cup {call[c].browser}
    /\ UNCHANGED <<tokens, clock, jar>>

Arrives(c) ==
    /\ Ends(c)
    /\ jar' = [jar EXCEPT ![call[c].browser] = CookiesAfter(c)]
    /\ rough' = IF Smoothed(c) THEN rough \ {call[c].browser} ELSE rough

IsLost(c) == Ends(c) /\ rough' = rough \cup {call[c].browser} /\ UNCHANGED jar

\* Nothing happens but that time passes or the account is deactivated.
TimePasses ==
    /\ UNCHANGED <<tokens, jar, call, rough>>
    /\ lapsed' \in 0..issued /\ expired' \in expired..lapsed' /\ lapsed <= lapsed'
    /\ active' \in BOOLEAN /\ (active' => active)
    /\ \A c \in Call : Busy(c) /\ call[c].new > lapsed => call[c].new > lapsed'

LEMMA RefreshersCarry ==
    ASSUME TypeOK, CallsAreSound, NEW c \in Call, call[c].at \in Early \ {"sent"}
    PROVE  /\ Busy(c) /\ call[c].with \in 1..issued /\ call[c].new = NoPair
           /\ call[c].kind \in {"request", "bare", "change"}
<1>1. Busy(c)
  BY StageMeansBusy DEF Stage, Waiting, Answered, Early, Refreshing
<1>2. Sound(c) /\ call[c].with \in 0..issued /\ issued \in Nat
  BY <1>1, BusyCall DEF CallsAreSound, TypeOK
<1> QED
  BY <1>1, <1>2 DEF Sound, NoPair

LEMMA Attempts ==
    ASSUME TypeOK, NEW c \in Call, Attempt(c)
    PROVE  \E stage \in Stage, with \in 0..issued : Advances(c, stage, with)
<1>1. Busy(c)
  BY StageMeansBusy DEF Attempt, Stage, Waiting, Answered
<1>2. call[c].with \in 0..issued /\ NoPair \in 0..issued
  BY <1>1, BusyCall DEF NoPair, TypeOK
<1>3. CASE Accepts(Carried(c)) /\ Answer(c, "done")
  <2>1. Becomes(c, "done", NoPair, call[c].new)
    BY <1>1, <1>3, Answers DEF Stage, Waiting, Answered
  <2> QED
    BY <1>1, <1>2, <1>3, <2>1 DEF Attempt, Advances, Stage, Waiting, Answered
<1>4. CASE Accepts(Carried(c)) /\ call[c].kind = "change" /\ Move(c, "changed")
  <2>1. Becomes(c, "changed", call[c].with, call[c].new)
    BY <1>1, <1>4, Moves DEF Stage, Waiting, Answered
  <2> QED
    BY <1>1, <1>2, <1>4, <2>1 DEF Attempt, Advances, Stage, Waiting, Answered
<1>5. CASE ~Accepts(Carried(c)) /\ call[c].at = "sent" /\ call[c].with # NoPair
  <2>1. Becomes(c, "unauthorised", call[c].with, call[c].new)
    BY <1>1, <1>5, Moves DEF Attempt, Stage, Waiting, Answered
  <2> QED
    BY <1>1, <1>2, <1>5, <2>1 DEF Attempt, Advances, Stage, Waiting, Answered, Early
<1>6. CASE ~Accepts(Carried(c)) /\ ~(call[c].at = "sent" /\ call[c].with # NoPair)
  <2>1. Becomes(c, "401", NoPair, call[c].new)
    BY <1>1, <1>6, Answers DEF Attempt, Stage, Waiting, Answered
  <2> QED
    BY <1>1, <1>2, <1>6, <2>1 DEF Attempt, Advances, Stage, Waiting, Answered
<1> QED
  BY <1>3, <1>4, <1>5, <1>6 DEF Attempt

LEMMA ReadsRefresh ==
    ASSUME TypeOK, NEW c \in Call, RefreshRead(c), CallsAreSound
    PROVE  \E stage \in Stage, with \in 0..issued : Advances(c, stage, with)
<1>1. Busy(c)
  BY StageMeansBusy DEF RefreshRead, Stage, Waiting, Answered
<1>2. call[c].with \in 0..issued /\ NoPair \in 0..issued
  BY <1>1, BusyCall DEF NoPair, TypeOK
<1>3. CASE Refreshable(call[c].with)
  <2>1. Becomes(c, "checked", call[c].with, call[c].new)
    BY <1>1, <1>3, Moves DEF RefreshRead, Stage, Waiting, Answered, Refreshing
  <2>2. call[c].kind \in {"request", "bare", "change"}
    BY <1>1 DEF CallsAreSound, Sound, RefreshRead, Early
  <2> QED
    BY <1>1, <1>2, <1>3, <2>1, <2>2 DEF RefreshRead, Advances, Stage, Waiting, Answered, Refreshing, Early
<1>4. CASE ~Refreshable(call[c].with)
  <2>1. Becomes(c, "401", NoPair, call[c].new)
    BY <1>1, <1>4, Answers DEF RefreshRead, Stage, Waiting, Answered
  <2> QED
    BY <1>1, <1>2, <1>4, <2>1 DEF RefreshRead, Advances, Stage, Waiting, Answered
<1> QED
  BY <1>3, <1>4

LEMMA Sends ==
    ASSUME TypeOK, NEW c \in Call, NEW b \in Browser, NEW kind \in Kind, Send(c, b, kind)
    PROVE  /\ ~Busy(c) /\ Busy(c)'
           /\ call'[c].at = "sent" /\ call'[c].kind = kind /\ call'[c].browser = b
           /\ call'[c].with \in {NoPair, jar[b]} /\ call'[c].new = NoPair
           /\ kind = "login" => call'[c].with = NoPair
           /\ kind # "login" => call'[c].with = jar[b]
           /\ \A d \in Call \ {c} : call'[d] = call[d] /\ (Busy(d)' <=> Busy(d))
           /\ call' \in [Call -> Progress]
           /\ Under(b)' = Under(b) \cup {c} /\ \A a \in Browser \ {b} : Under(a)' = Under(a)
           /\ b \notin rough' => Under(b) = {}
           /\ rough \subseteq rough' /\ rough' \subseteq rough \cup {b}
           /\ UNCHANGED <<tokens, clock, jar>>
<1> DEFINE next == [at |-> "sent", kind |-> kind, browser |-> b,
                    with |-> IF kind = "login" THEN NoPair ELSE jar[b], new |-> NoPair]
<1>1. call' = [call EXCEPT ![c] = next] /\ call[c] = Idle
  BY DEF Send
<1>2. next.with \in {NoPair, jar[b]} /\ jar[b] \in 0..MaxPair /\ NoPair \in 0..MaxPair
  BY SessionsAssumption DEF TypeOK, NoPair
<1>3. next \in Progress /\ next # Idle
  BY <1>2 DEF Progress, Stage, Waiting, Answered, Idle
<1>4. next.at = "sent" /\ next.kind = kind /\ next.browser = b /\ next.new = NoPair
      /\ (kind = "login" => next.with = NoPair) /\ (kind # "login" => next.with = jar[b])
  OBVIOUS
<1> HIDE DEF next
<1>5. call'[c] = next /\ call' \in [Call -> Progress] /\ \A d \in Call \ {c} : call'[d] = call[d]
  BY <1>1, <1>3 DEF TypeOK
<1>6. ~Busy(c) /\ Busy(c)' /\ \A d \in Call \ {c} : call'[d] = call[d] /\ (Busy(d)' <=> Busy(d))
  BY <1>1, <1>3, <1>5 DEF Busy
<1>7. Under(b)' = Under(b) \cup {c}
  BY <1>4, <1>5, <1>6 DEF Under, Busy
<1>8. \A a \in Browser \ {b} : Under(a)' = Under(a)
  BY <1>4, <1>5, <1>6 DEF Under, Busy
<1>9. (b \notin rough' => Under(b) = {}) /\ rough \subseteq rough' /\ rough' \subseteq rough \cup {b}
  BY DEF Send
<1> QED
  BY <1>2, <1>4, <1>5, <1>6, <1>7, <1>8, <1>9 DEF Send

LEMMA Leaves ==
    ASSUME TypeOK, NEW c \in Call, Busy(c), call' = [call EXCEPT ![c] = Idle]
    PROVE  /\ call' \in [Call -> Progress] /\ call'[c] = Idle
           /\ \A d \in Call \ {c} : call'[d] = call[d]
BY DEF TypeOK, Progress

LEMMA Failures ==
    ASSUME TypeOK, NEW c \in Call, Fail(c)
    PROVE  Breaks(c)
<1>1. Busy(c)
  BY StageMeansBusy DEF Fail, Stage
<1> DEFINE stage == "done"
           first == [at |-> stage, kind |-> call[c].kind, browser |-> call[c].browser,
                     with |-> call[c].with, new |-> call[c].new]
           half == [at |-> stage, kind |-> call[c].kind, browser |-> call[c].browser,
                    with |-> NoPair, new |-> call[c].new]
           next == [at |-> stage, kind |-> call[c].kind, browser |-> call[c].browser,
                    with |-> NoPair, new |-> NoPair]
           one == [call EXCEPT ![c] = first]
           two == [one EXCEPT ![c] = half]
<1>2. call[c] = [at |-> call[c].at, kind |-> call[c].kind, browser |-> call[c].browser,
                 with |-> call[c].with, new |-> call[c].new]
  BY <1>1, BusyCall
<1>3. [call[c] EXCEPT !.at = stage] = first
  BY <1>2
<1>4. [first EXCEPT !.with = NoPair] = half /\ [half EXCEPT !.new = NoPair] = next
  OBVIOUS
<1>5. stage \in {"done", "denied"} /\ next \in Progress
  <2>1. stage \in {"done", "denied"}
    OBVIOUS
  <2>2. call[c].kind \in Kind /\ call[c].browser \in Browser
    BY <1>1, BusyCall
  <2>3. NoPair \in 0..MaxPair
    BY SessionsAssumption DEF NoPair
  <2> HIDE DEF stage
  <2> QED
    BY <2>1, <2>2, <2>3 DEF Progress, Stage, Waiting, Answered
<1> HIDE DEF first, half, next
<1>6. [call EXCEPT ![c].at = stage] = one /\ one[c] = first /\ DOMAIN one = Call
  BY <1>3 DEF TypeOK
<1>7. [one EXCEPT ![c].with = NoPair] = two /\ two[c] = half /\ DOMAIN two = Call
  BY <1>4, <1>6
<1>8. call' = [two EXCEPT ![c] = next]
  <2>1. call' = [[[call EXCEPT ![c].at = stage] EXCEPT ![c].with = NoPair] EXCEPT ![c].new = NoPair]
    BY DEF Fail
  <2>2. call' = [two EXCEPT ![c].new = NoPair]
    BY <2>1, <1>6, <1>7
  <2> QED
    BY <2>2, <1>7, <1>4
<1>9. call'[c] = next /\ call' \in [Call -> Progress] /\ \A d \in Call \ {c} : call'[d] = call[d]
  BY <1>8, <1>7, <1>5 DEF TypeOK
<1>10. Becomes(c, stage, NoPair, NoPair)
  BY <1>9 DEF Becomes, next
<1> HIDE DEF stage
<1> QED
  BY <1>1, <1>5, <1>10 DEF Fail, Breaks

\* A call turned down goes on to its answer; where a bare route's refresh has
\* spent the token before, it breaks.
LEMMA Refusals ==
    ASSUME TypeOK, NEW c \in Call, TurnDown(c), CallsAreSound
    PROVE  Advances(c, "denied", NoPair) \/ Advances(c, "done", NoPair) \/ Breaks(c)
<1> DEFINE stage == IF call[c].at \in Refreshing \cup {"unauthorised"} THEN "denied" ELSE "done"
<1>1. Busy(c) /\ call[c].at \in Waiting
  BY StageMeansBusy DEF TurnDown, Stage
<1>2. Becomes(c, stage, NoPair, call[c].new)
  BY <1>1, Answers DEF TurnDown, Stage, Answered
<1>3. CASE call[c].at = "revoked" /\ call[c].kind = "bare"
  <2>1. call[c].new = NoPair /\ stage = "denied"
    BY <1>3, RefreshersCarry DEF Early, Refreshing
  <2>2. rough' = rough \cup {call[c].browser} /\ UNCHANGED <<tokens, clock, jar>>
    BY <1>3 DEF TurnDown
  <2> QED
    BY <1>1, <1>2, <2>1, <2>2 DEF Breaks
<1>4. CASE ~(call[c].at = "revoked" /\ call[c].kind = "bare")
  <2>1. UNCHANGED <<tokens, clock, jar, rough>>
    BY <1>4 DEF TurnDown
  <2>2. call[c].at = "revoked" => stage = "denied" /\ call[c].kind \in Clearing
    BY <1>4, RefreshersCarry DEF Early, Refreshing, Clearing
  <2>3. Advances(c, stage, NoPair)
    BY <1>1, <1>2, <2>1, <2>2 DEF Advances
  <2> QED
    BY <2>3
<1> QED
  BY <1>3, <1>4

\* Every step is one of these.
Cases ==
    \/ \E c \in Call, b \in Browser, kind \in Kind : Send(c, b, kind)
    \/ \E c \in Call, stage \in Stage, with \in 0..issued : Advances(c, stage, with)
    \/ \E c \in Call :
          \/ Spends(c) \/ Rotates(c) \/ LogsIn(c) \/ EndsAll(c) \/ LogsOut(c)
          \/ Breaks(c) \/ Arrives(c) \/ IsLost(c)
    \/ TimePasses

LEMMA StepCases ==
    ASSUME TypeOK, CallsAreSound, [Next]_vars
    PROVE  Cases
<1>1. CASE \E c \in Call, b \in Browser, kind \in Kind : Send(c, b, kind)
  BY <1>1 DEF Cases
<1>2. ASSUME NEW c \in Call, Attempt(c) PROVE Cases
  BY <1>2, Attempts DEF Cases
<1>3. ASSUME NEW c \in Call, RefreshRead(c) PROVE Cases
  BY <1>3, ReadsRefresh DEF Cases
<1>4. ASSUME NEW c \in Call, RefreshRevoke(c) PROVE Cases
  <2>1. Busy(c)
    BY <1>4, StageMeansBusy DEF RefreshRevoke, Stage, Waiting, Answered, Refreshing
  <2>2. Becomes(c, "revoked", call[c].with, call[c].new)
    BY <1>4, <2>1, Moves DEF RefreshRevoke, Stage, Waiting, Answered, Refreshing
  <2> QED
    BY <1>4, <2>1, <2>2 DEF RefreshRevoke, Spends, Cases
<1>5. ASSUME NEW c \in Call, RefreshIssue(c) PROVE Cases
  <2>1. Busy(c)
    BY <1>5, StageMeansBusy DEF RefreshIssue, Stage, Waiting, Answered, Refreshing
  <2>2. call[c].with # NoPair /\ call[c].with \in 0..issued
    BY <1>5, <2>1, BusyCall DEF RefreshIssue, CallsAreSound, Sound, Early, Refreshing
  <2>3. Becomes(c, "issued", call[c].with, issued + 1)
    BY <1>5, <2>1, <2>2, Issues DEF RefreshIssue, Stage, Waiting, Answered
  <2> QED
    BY <1>5, <2>1, <2>2, <2>3 DEF RefreshIssue, Issue, Obtains, Rotates, Cases
<1>6. ASSUME NEW c \in Call, RevokeAll(c) PROVE Cases
  <2>1. Busy(c)
    BY <1>6, StageMeansBusy DEF RevokeAll, Stage, Waiting, Answered
  <2>2. Becomes(c, "done", NoPair, call[c].new)
    BY <1>6, <2>1, Answers DEF RevokeAll, Stage, Waiting, Answered
  <2> QED
    BY <1>6, <2>1, <2>2 DEF RevokeAll, EndsAll, Cases
<1>7. ASSUME NEW c \in Call, Revoke(c) PROVE Cases
  <2>1. Busy(c)
    BY <1>7, StageMeansBusy DEF Revoke, Stage, Waiting, Answered
  <2>2. Becomes(c, "done", NoPair, call[c].new)
    BY <1>7, <2>1, Answers DEF Revoke, Stage, Waiting, Answered
  <2> QED
    BY <1>7, <2>1, <2>2 DEF Revoke, LogsOut, Cases
<1>8. ASSUME NEW c \in Call, Login(c) PROVE Cases
  <2>1. Busy(c)
    BY <1>8, StageMeansBusy DEF Login, Stage, Waiting, Answered
  <2>2. NoPair \in 0..issued
    BY DEF TypeOK, NoPair
  <2>3. CASE active /\ Issue(c, "done", NoPair)
    <3>1. Becomes(c, "done", call[c].with, issued + 1)
      BY <2>1, <2>2, <2>3, Issues DEF Stage, Waiting, Answered
    <3> QED
      BY <1>8, <2>1, <2>3, <3>1 DEF Login, Issue, Obtains, LogsIn, Cases
  <2>4. CASE Answer(c, "401") /\ UNCHANGED <<issued, login>>
    <3>1. Becomes(c, "401", NoPair, call[c].new)
      BY <2>1, <2>4, Answers DEF Stage, Waiting, Answered
    <3>2. Advances(c, "401", NoPair)
      BY <1>8, <2>1, <2>4, <3>1 DEF Login, Advances, Waiting, tokens, clock
    <3> QED
      BY <2>2, <3>2 DEF Cases, Stage, Waiting, Answered
  <2> QED
    BY <1>8, <2>3, <2>4 DEF Login
<1>9. ASSUME NEW c \in Call, Fail(c) PROVE Cases
  BY <1>9, Failures DEF Cases
<1>16. ASSUME NEW c \in Call, TurnDown(c) PROVE Cases
  <2>1. NoPair \in 0..issued
    BY DEF TypeOK, NoPair
  <2> QED
    BY <1>16, <2>1, Refusals DEF Cases, Stage, Answered
<1>10. ASSUME NEW c \in Call, Deliver(c) PROVE Cases
  <2>1. Busy(c)
    BY <1>10, StageMeansBusy DEF Deliver, Stage, Waiting, Answered
  <2> QED
    BY <1>10, <2>1, Leaves DEF Deliver, Ends, Arrives, Cases
<1>11. ASSUME NEW c \in Call, Lose(c) PROVE Cases
  <2>1. Busy(c)
    BY <1>11, StageMeansBusy DEF Lose, Stage, Waiting, Answered
  <2> QED
    BY <1>11, <2>1, Leaves DEF Lose, Ends, IsLost, Cases
<1>12. CASE Lapse
  <2>1. ASSUME NEW c \in Call, Busy(c), call[c].new > lapsed PROVE call[c].new > lapsed'
    BY <2>1, <1>12, BusyCall DEF Lapse, TypeOK, Busy
  <2> QED
    BY <1>12, <2>1 DEF Lapse, TimePasses, TypeOK, Cases
<1>13. CASE Expire
  BY <1>13 DEF Expire, TimePasses, TypeOK, Cases
<1>14. CASE Suspend
  <2>1. lapsed \in 0..issued /\ expired \in 0..lapsed /\ lapsed <= lapsed
    BY DEF TypeOK
  <2>2. UNCHANGED <<tokens, jar, call, rough, lapsed, expired>>
    BY <1>14 DEF Suspend, tokens
  <2>3. active' \in BOOLEAN /\ (active' => active)
    BY <1>14 DEF Suspend
  <2>4. lapsed' \in 0..issued /\ expired' \in expired..lapsed' /\ lapsed <= lapsed'
    BY <2>1, <2>2
  <2> QED
    BY <2>2, <2>3, <2>4 DEF TimePasses, Cases
<1>15. CASE UNCHANGED vars
  <2>1. lapsed \in 0..issued /\ expired \in 0..lapsed /\ active \in BOOLEAN
    BY DEF TypeOK
  <2>2. UNCHANGED <<tokens, jar, call, rough, lapsed, expired, active>>
    BY <1>15 DEF vars, history, tokens
  <2> QED
    BY <2>1, <2>2 DEF TimePasses, Cases
<1> QED
  BY <1>1, <1>2, <1>3, <1>4, <1>5, <1>6, <1>7, <1>8, <1>9, <1>10, <1>11, <1>12, <1>13, <1>14, <1>15, <1>16
     DEF Next

-----------------------------------------------------------------------------
(* Types. *)

LEMMA CallsTyped ==
    ASSUME TypeOK, NEW c \in Call, NEW stage, NEW with \in 0..issued', NEW new \in 0..issued',
           Becomes(c, stage, with, new), issued' \in 0..MaxPair, issued <= issued'
    PROVE  /\ call' \in [Call -> Progress]
           /\ \A d \in Call : call'[d] # Idle => call'[d].with <= issued' /\ call'[d].new <= issued'
<1>1. call'[c].with = with /\ call'[c].new = new /\ \A d \in Call \ {c} : call'[d] = call[d]
  BY DEF Becomes
<1>2. ASSUME NEW d \in Call \ {c}, call'[d] # Idle
      PROVE  call'[d].with <= issued' /\ call'[d].new <= issued'
  <2>1. call[d].with \in 0..issued /\ call[d].new \in 0..issued
    BY <1>1, <1>2, BusyCall DEF Busy
  <2> QED
    BY <1>1, <2>1 DEF TypeOK
<1> QED
  BY <1>1, <1>2 DEF Becomes

LEMMA TypesKept ==
    ASSUME TypeOK, LoginsAreIssued, CallsAreSound, Cases
    PROVE  TypeOK'
<1> USE DEF TypeOK
<1>1. ASSUME NEW c \in Call, NEW b \in Browser, NEW kind \in Kind, Send(c, b, kind)
      PROVE  TypeOK'
  <2>1. call' \in [Call -> Progress] /\ UNCHANGED <<tokens, clock, jar>> /\ rough' \subseteq rough \cup {b}
    BY <1>1, Sends
  <2>2. call'[c].with \in {NoPair, jar[b]} /\ call'[c].new = NoPair
        /\ \A d \in Call \ {c} : call'[d] = call[d]
    BY <1>1, Sends
  <2>3. \A d \in Call : call'[d] # Idle => call'[d].with <= issued /\ call'[d].new <= issued
    BY <2>2 DEF NoPair
  <2> QED
    BY <2>1, <2>3 DEF tokens, clock
<1>2. ASSUME NEW c \in Call, NEW stage \in Stage, NEW with \in 0..issued, Advances(c, stage, with)
      PROVE  TypeOK'
  <2>1. Busy(c) /\ Becomes(c, stage, with, call[c].new) /\ UNCHANGED <<tokens, clock, jar, rough>>
    BY <1>2 DEF Advances
  <2>2. call[c].new \in 0..issued
    BY <2>1, BusyCall
  <2> QED
    BY <2>1, <2>2, CallsTyped DEF tokens, clock
<1>3. ASSUME NEW c \in Call, Spends(c)
      PROVE  TypeOK'
  <2>1. call[c].with \in 1..issued /\ call[c].new \in 0..issued
    BY <1>3, BusyCall DEF Spends, CallsAreSound, Sound, Early, Refreshing, NoPair
  <2>2. call' \in [Call -> Progress]
        /\ \A d \in Call : call'[d] # Idle => call'[d].with <= issued' /\ call'[d].new <= issued'
    BY <1>3, <2>1, CallsTyped DEF Spends
  <2> QED
    BY <1>3, <2>1, <2>2 DEF Spends, clock
<1>4. ASSUME NEW c \in Call, NEW stage \in Stage, NEW from \in 1..(issued + 1), Obtains(c, stage, from)
      PROVE  TypeOK'
  <2>1. call[c].with \in 0..issued
    BY <1>4, BusyCall DEF Obtains
  <2>2. issued' \in 0..MaxPair /\ issued' = issued + 1
    BY <1>4, SessionsAssumption DEF Obtains
  <2>3. call' \in [Call -> Progress]
        /\ \A d \in Call : call'[d] # Idle => call'[d].with <= issued' /\ call'[d].new <= issued'
    <3>1. Becomes(c, stage, call[c].with, issued')
      BY <1>4, <2>2 DEF Obtains
    <3>2. issued' \in 0..issued' /\ call[c].with \in 0..issued' /\ issued <= issued'
      BY <2>1, <2>2
    <3> QED
      BY <2>2, <3>1, <3>2, CallsTyped
  <2>4. login' \in [Pair -> 0..MaxPair]
    <3>1. from \in 0..MaxPair
      BY <2>2, SessionsAssumption
    <3> QED
      BY <1>4, <3>1 DEF Obtains
  <2>5. jar' \in [Browser -> 0..issued'] /\ lapsed' \in 0..issued' /\ revoked' \subseteq 1..issued'
    BY <1>4, <2>2 DEF Obtains, clock
  <2> QED
    BY <1>4, <2>2, <2>3, <2>4, <2>5 DEF Obtains, clock
<1>5. ASSUME NEW c \in Call, EndsAll(c)
      PROVE  TypeOK'
  <2>1. call[c].new \in 0..issued /\ NoPair \in 0..issued
    BY <1>5, BusyCall DEF EndsAll, NoPair
  <2>2. call' \in [Call -> Progress]
        /\ \A d \in Call : call'[d] # Idle => call'[d].with <= issued' /\ call'[d].new <= issued'
    BY <1>5, <2>1, CallsTyped DEF EndsAll
  <2>3. \A p \in 1..issued : login[p] \in Pair
    BY SessionsAssumption DEF LoginsAreIssued, Pair
  <2>4. ASSUME NEW d \in Call, call[d].at \in Refreshing
        PROVE  call[d].with \in 1..issued
    <3>1. Busy(d)
      BY <2>4, StageMeansBusy DEF Stage, Waiting, Answered
    <3> QED
      BY <2>4, <3>1, BusyCall DEF CallsAreSound, Sound, Early, Refreshing, NoPair
  <2>5. ended' \subseteq Pair /\ overtaken' \subseteq ended'
    BY <1>5, <2>3, <2>4 DEF EndsAll, SessionOf
  <2> QED
    BY <1>5, <2>2, <2>5 DEF EndsAll, clock
<1>6. ASSUME NEW c \in Call, LogsOut(c)
      PROVE  TypeOK'
  <2>1. call[c].new \in 0..issued /\ NoPair \in 0..issued /\ call[c].with \in 0..issued
    BY <1>6, BusyCall DEF LogsOut, NoPair
  <2>2. call' \in [Call -> Progress]
        /\ \A d \in Call : call'[d] # Idle => call'[d].with <= issued' /\ call'[d].new <= issued'
    <3>1. Becomes(c, "done", NoPair, call[c].new) /\ issued' = issued
      BY <1>6 DEF LogsOut
    <3>2. NoPair \in 0..issued' /\ call[c].new \in 0..issued' /\ issued' \in 0..MaxPair
          /\ issued <= issued'
      BY <2>1, <3>1
    <3> QED
      BY <3>1, <3>2, CallsTyped
  <2>3. call[c].with # NoPair => SessionOf(c) \in Pair
    BY <2>1, SessionsAssumption DEF LoginsAreIssued, SessionOf, Pair, NoPair
  <2>4. revoked' \subseteq 1..issued
    <3>1. {call[c].with} \ {NoPair} \subseteq 1..issued
      BY <2>1 DEF NoPair
    <3> QED
      BY <1>6, <3>1 DEF LogsOut
  <2> QED
    BY <1>6, <2>2, <2>3, <2>4 DEF LogsOut, clock
<1>7. ASSUME NEW c \in Call, Breaks(c)
      PROVE  TypeOK'
  <2>1. PICK stage \in {"done", "denied"} : Becomes(c, stage, NoPair, NoPair)
    BY <1>7 DEF Breaks
  <2>2. NoPair \in 0..issued /\ call[c].browser \in Browser
    BY <1>7, BusyCall DEF Breaks, NoPair
  <2>3. UNCHANGED <<tokens, clock, jar>> /\ rough' = rough \cup {call[c].browser}
    BY <1>7 DEF Breaks
  <2>4. call' \in [Call -> Progress]
        /\ \A d \in Call : call'[d] # Idle => call'[d].with <= issued' /\ call'[d].new <= issued'
    <3>1. issued' = issued
      BY <2>3 DEF tokens
    <3> QED
      BY <1>7, <2>1, <2>2, <3>1, CallsTyped
  <2> QED
    BY <2>2, <2>3, <2>4 DEF tokens, clock
<1>8. ASSUME NEW c \in Call, Ends(c), jar' \in [Browser -> 0..issued], rough' \subseteq Browser
      PROVE  TypeOK'
  <2>1. \A d \in Call : call'[d] # Idle => call'[d].with <= issued /\ call'[d].new <= issued
    BY <1>8 DEF Ends
  <2> QED
    BY <1>8, <2>1 DEF Ends, tokens, clock
<1>9. ASSUME NEW c \in Call, Arrives(c)
      PROVE  TypeOK'
  <2>1. call[c].browser \in Browser /\ call[c].new \in 0..issued /\ NoPair \in 0..issued
    BY <1>9, BusyCall DEF Arrives, Ends, NoPair
  <2>2. CookiesAfter(c) \in 0..issued
    BY <2>1 DEF CookiesAfter
  <2>3. jar' \in [Browser -> 0..issued] /\ rough' \subseteq Browser
    BY <1>9, <2>2 DEF Arrives
  <2> QED
    BY <1>8, <1>9, <2>3 DEF Arrives
<1>10. ASSUME NEW c \in Call, IsLost(c)
       PROVE  TypeOK'
  <2>1. call[c].browser \in Browser
    BY <1>10, BusyCall DEF IsLost, Ends
  <2> QED
    BY <1>8, <1>10, <2>1 DEF IsLost
<1>11. CASE TimePasses
  BY <1>11 DEF TimePasses, tokens
<1>12. ASSUME NEW c \in Call, Rotates(c)
       PROVE  TypeOK'
  <2>1. call[c].with \in 1..issued
    BY <1>12, BusyCall DEF Rotates, Obtains, CallsAreSound, Sound, Early, Refreshing, NoPair
  <2>2. login[call[c].with] \in 1..(issued + 1)
    BY <2>1 DEF LoginsAreIssued
  <2> QED
    BY <1>4, <1>12, <2>2 DEF Rotates, Stage, Waiting, Answered
<1>13. ASSUME NEW c \in Call, LogsIn(c)
       PROVE  TypeOK'
  BY <1>4, <1>13 DEF LogsIn, Stage, Waiting, Answered
<1> QED
  BY <1>1, <1>2, <1>3, <1>5, <1>6, <1>7, <1>9, <1>10, <1>11, <1>12, <1>13 DEF Cases

-----------------------------------------------------------------------------
(* Calls and logins. *)

LEMMA LoginsKept ==
    ASSUME TypeOK, LoginsAreIssued, CallsAreSound, Cases
    PROVE  LoginsAreIssued'
<1>0. ASSUME UNCHANGED tokens PROVE LoginsAreIssued'
  BY <1>0 DEF tokens, LoginsAreIssued
<1>1. ASSUME NEW c \in Call, Spends(c) PROVE LoginsAreIssued'
  BY <1>1 DEF Spends, LoginsAreIssued
<1>2. ASSUME NEW c \in Call, NEW stage, NEW from \in 1..(issued + 1), Obtains(c, stage, from)
      PROVE  LoginsAreIssued'
  <2>1. issued' = issued + 1 /\ issued + 1 \in Pair
    BY <1>2, SessionsAssumption DEF Obtains, TypeOK, Pair
  <2>2. login'[issued + 1] = from /\ \A p \in 1..issued : login'[p] = login[p]
    BY <1>2, <2>1 DEF Obtains, TypeOK, Pair
  <2>3. \A p \in 1..issued' : login'[p] \in 1..issued'
    BY <2>1, <2>2 DEF LoginsAreIssued, TypeOK
  <2> QED
    BY <1>2, <2>1, <2>3 DEF Obtains, LoginsAreIssued, TypeOK
<1>3. ASSUME NEW c \in Call, EndsAll(c) PROVE LoginsAreIssued'
  BY <1>3 DEF EndsAll, LoginsAreIssued
<1>4. ASSUME NEW c \in Call, LogsOut(c) PROVE LoginsAreIssued'
  <2>1. call[c].with # NoPair => SessionOf(c) \in 1..issued
    BY <1>4, BusyCall DEF LogsOut, LoginsAreIssued, SessionOf, NoPair, TypeOK
  <2> QED
    BY <1>4, <2>1 DEF LogsOut, LoginsAreIssued
<1>5. ASSUME NEW c \in Call, Rotates(c) PROVE LoginsAreIssued'
  <2>1. call[c].with \in 1..issued
    BY <1>5, RefreshersCarry DEF Rotates, Early, Refreshing
  <2>2. login[call[c].with] \in 1..(issued + 1)
    BY <2>1 DEF LoginsAreIssued, TypeOK
  <2> QED
    BY <1>2, <1>5, <2>2 DEF Rotates
<1>6. ASSUME NEW c \in Call, LogsIn(c) PROVE LoginsAreIssued'
  <2>1. issued + 1 \in 1..(issued + 1)
    BY DEF TypeOK
  <2> QED
    BY <1>2, <1>6, <2>1 DEF LogsIn
<1>7. ASSUME NEW c \in Call, NEW b \in Browser, NEW kind \in Kind, Send(c, b, kind)
      PROVE  UNCHANGED tokens
  BY <1>7 DEF Send
<1> QED
  BY <1>0, <1>1, <1>3, <1>4, <1>5, <1>6, <1>7 DEF Cases, Advances, Breaks, Arrives, IsLost, Ends, TimePasses

LEMMA SoundKept ==
    ASSUME TypeOK, CallsAreSound, Cases
    PROVE  CallsAreSound'
<1>1. ASSUME NEW c \in Call, \A d \in Call \ {c} : call'[d] = call[d], lapsed' = lapsed,
             Busy(c)' => Sound(c)'
      PROVE  CallsAreSound'
  BY <1>1 DEF CallsAreSound, Sound, Busy
<1>2. ASSUME NEW c \in Call, NEW b \in Browser, NEW kind \in Kind, Send(c, b, kind)
      PROVE  CallsAreSound'
  <2>1. Sound(c)' /\ \A d \in Call \ {c} : call'[d] = call[d]
    BY <1>2, Sends DEF Sound
  <2> QED
    BY <1>1, <1>2, <2>1 DEF Send, clock
<1>3. ASSUME NEW c \in Call, NEW stage, NEW with, NEW new, Busy(c), Becomes(c, stage, with, new),
             lapsed' = lapsed,
             stage \in Early => new = NoPair,
             stage \in Early \ {"sent"} => call[c].kind \in {"request", "bare", "change"} /\ with # NoPair,
             call[c].kind = "login" => with = NoPair,
             stage = "issued" => new # NoPair,
             new # NoPair => new > lapsed
      PROVE  CallsAreSound'
  <2>1. call'[c].at = stage /\ call'[c].with = with /\ call'[c].new = new /\ call'[c].kind = call[c].kind
        /\ \A d \in Call \ {c} : call'[d] = call[d]
    BY <1>3 DEF Becomes
  <2>2. Sound(c)'
    BY <1>3, <2>1 DEF Sound
  <2> QED
    BY <1>1, <1>3, <2>1, <2>2
<1>4. ASSUME NEW c \in Call, NEW stage \in Stage, NEW with \in 0..issued, Advances(c, stage, with)
      PROVE  CallsAreSound'
  <2>1. Sound(c)
    BY <1>4 DEF Advances, CallsAreSound
  <2>2. stage \in Early => call[c].new = NoPair
    BY <1>4, <2>1 DEF Advances, Sound, Early, Refreshing
  <2>3. stage \in Early \ {"sent"} => call[c].kind \in {"request", "bare", "change"} /\ with # NoPair
    BY <1>4, <2>1 DEF Advances, Sound, Early, Refreshing
  <2>4. (call[c].kind = "login" => with = NoPair) /\ (call[c].new # NoPair => call[c].new > lapsed)
    BY <1>4, <2>1 DEF Advances, Sound
  <2> QED
    BY <1>3, <1>4, <2>2, <2>3, <2>4 DEF Advances, clock
<1>5. ASSUME NEW c \in Call, Spends(c)
      PROVE  CallsAreSound'
  <2>1. Sound(c)
    BY <1>5 DEF Spends, CallsAreSound
  <2>2. call[c].new = NoPair /\ call[c].kind \in {"request", "bare", "change"} /\ call[c].with # NoPair
    BY <1>5, <2>1 DEF Spends, Sound, Early, Refreshing
  <2> QED
    BY <1>3, <1>5, <2>2 DEF Spends, clock
<1>6. ASSUME NEW c \in Call, NEW stage \in {"issued", "done"}, NEW from, Obtains(c, stage, from)
      PROVE  CallsAreSound'
  <2>1. Sound(c)
    BY <1>6 DEF Obtains, CallsAreSound
  <2>2. issued + 1 > lapsed /\ issued + 1 # NoPair
    BY DEF TypeOK, NoPair
  <2> QED
    BY <1>3, <1>6, <2>1, <2>2 DEF Obtains, Sound, Early, Refreshing, clock
<1>7. ASSUME NEW c \in Call, Busy(c), Becomes(c, "done", NoPair, call[c].new), lapsed' = lapsed
      PROVE  CallsAreSound'
  <2>1. Sound(c)
    BY <1>7 DEF CallsAreSound
  <2> QED
    BY <1>3, <1>7, <2>1 DEF Sound, Early, Refreshing
<1>8. ASSUME NEW c \in Call, Breaks(c)
      PROVE  CallsAreSound'
  <2>1. PICK stage \in {"done", "denied"} : Becomes(c, stage, NoPair, NoPair)
    BY <1>8 DEF Breaks
  <2> QED
    BY <1>3, <1>8, <2>1 DEF Breaks, Early, Refreshing, clock
<1>9. ASSUME NEW c \in Call, Ends(c)
      PROVE  CallsAreSound'
  BY <1>1, <1>9 DEF Ends, Busy, clock
<1>10. CASE TimePasses
  BY <1>10 DEF TimePasses, CallsAreSound, Sound, Busy
<1>11. \A c \in Call : Rotates(c) \/ LogsIn(c) \/ EndsAll(c) \/ LogsOut(c) => CallsAreSound'
  BY <1>6, <1>7 DEF Rotates, LogsIn, EndsAll, LogsOut, clock
<1> QED
  BY <1>2, <1>4, <1>5, <1>8, <1>9, <1>10, <1>11 DEF Cases, Arrives, IsLost

-----------------------------------------------------------------------------
(* Browsers and their sessions. *)

\* Pairs in cookies and calls are issued ones.
LEMMA HeldIsIssued ==
    ASSUME TypeOK, NEW b \in Browser, NEW p, Holds(b, p)
    PROVE  p \in 1..issued
<1>1. CASE p = jar[b]
  BY <1>1 DEF Holds, TypeOK, NoPair
<1>2. CASE \E c \in Call : Busy(c) /\ call[c].browser = b /\ p \in {call[c].with, call[c].new}
  BY <1>2, BusyCall DEF Holds, TypeOK, NoPair
<1> QED
  BY <1>1, <1>2 DEF Holds

LEMMA CallHolds ==
    ASSUME NEW c \in Call, Busy(c)
    PROVE  /\ call[c].with # NoPair => Holds(call[c].browser, call[c].with)
           /\ call[c].new # NoPair => Holds(call[c].browser, call[c].new)
BY DEF Holds

\* After a step on call c a browser holds what it held, or the call's new pair.
LEMMA HeldAfterStep ==
    ASSUME TypeOK, NEW c \in Call, Busy(c), NEW stage \in Stage, NEW with \in {NoPair, call[c].with},
           NEW new, Becomes(c, stage, with, new), UNCHANGED jar,
           NEW b \in Browser, NEW p, Holds(b, p)'
    PROVE  Holds(b, p) \/ (b = call[c].browser /\ p = new)
<1>1. /\ \A d \in Call : Busy(d)' <=> Busy(d)
      /\ \A d \in Call : call'[d].browser = call[d].browser
      /\ \A d \in Call \ {c} : call'[d] = call[d]
      /\ call'[c].with = with /\ call'[c].new = new
  BY AfterStep
<1> QED
  BY <1>1 DEF Holds

LEMMA ApartKept ==
    ASSUME TypeOK, LoginsAreIssued, CallsAreSound, SessionsAreApart, Cases
    PROVE  SessionsAreApart'
<1>1. ASSUME UNCHANGED login,
             \A b \in Browser : \A p \in Pair : Holds(b, p)' => Holds(b, p)
      PROVE  SessionsAreApart'
  <2> SUFFICES ASSUME NEW a \in Browser, NEW b \in Browser, NEW p \in Pair, NEW q \in Pair,
                      Holds(a, p)', Holds(b, q)', login'[p] = login'[q]
               PROVE  a = b
    BY DEF SessionsAreApart
  <2>1. Holds(a, p) /\ Holds(b, q) /\ login[p] = login[q]
    BY <1>1
  <2> QED
    BY <2>1 DEF SessionsAreApart
<1>2. ASSUME NEW c \in Call, NEW b \in Browser, NEW kind \in Kind, Send(c, b, kind)
      PROVE  SessionsAreApart'
  <2>1. \A a \in Browser : \A p \in Pair : Holds(a, p)' => Holds(a, p)
    BY <1>2, Sends DEF Holds, Busy
  <2> QED
    BY <1>1, <1>2, <2>1 DEF Send, tokens
<1>3. ASSUME NEW c \in Call, Busy(c), NEW stage \in Stage, NEW with \in {NoPair, call[c].with},
             NEW new \in {NoPair, call[c].new}, Becomes(c, stage, with, new), UNCHANGED <<jar, login>>
      PROVE  SessionsAreApart'
  <2>1. ASSUME NEW b \in Browser, NEW p \in Pair, Holds(b, p)'
        PROVE  Holds(b, p)
    <3>1. Holds(b, p) \/ (b = call[c].browser /\ p = new)
      BY <1>3, <2>1, HeldAfterStep
    <3>2. p # NoPair
      BY DEF Pair, NoPair
    <3> QED
      BY <1>3, <3>1, <3>2, CallHolds
  <2> QED
    BY <1>1, <1>3, <2>1
<1>4. ASSUME NEW c \in Call, NEW stage \in Stage, NEW with \in 0..issued, Advances(c, stage, with)
      PROVE  SessionsAreApart'
  BY <1>3, <1>4 DEF Advances, tokens
<1>5. ASSUME NEW c \in Call, Spends(c) \/ EndsAll(c) \/ LogsOut(c)
      PROVE  SessionsAreApart'
  BY <1>3, <1>5 DEF Spends, EndsAll, LogsOut, Stage, Waiting, Answered, Refreshing
<1>6. ASSUME NEW c \in Call, Breaks(c)
      PROVE  SessionsAreApart'
  BY <1>3, <1>6 DEF Breaks, Stage, Waiting, Answered, tokens
<1>7. ASSUME NEW c \in Call, Rotates(c) \/ LogsIn(c)
      PROVE  SessionsAreApart'
  <2> DEFINE n == issued + 1
             home == call[c].browser
             Old(b, p) == Holds(b, p) /\ p \in 1..issued /\ login'[p] = login[p]
  <2>1. Busy(c) /\ UNCHANGED jar /\ n \in Pair
    BY <1>7, SessionsAssumption DEF Rotates, LogsIn, Obtains, TypeOK, Pair
  <2>2. \E stage \in Stage : Becomes(c, stage, call[c].with, n)
    BY <1>7 DEF Rotates, LogsIn, Obtains, Stage, Waiting, Answered
  <2>3. \A p \in 1..issued : login'[p] = login[p]
    <3>1. \A p \in 1..issued : p \in Pair /\ p # n
      BY SessionsAssumption DEF TypeOK, Pair
    <3>2. login \in [Pair -> 0..MaxPair] /\ \E from : login' = [login EXCEPT ![n] = from]
      BY <1>7 DEF Rotates, LogsIn, Obtains, TypeOK
    <3> HIDE DEF n
    <3> QED
      BY <3>1, <3>2
  <2>4. ASSUME NEW b \in Browser, NEW p \in Pair, Holds(b, p)'
        PROVE  Old(b, p) \/ (b = home /\ p = n)
    <3>1. Holds(b, p) \/ (b = home /\ p = n)
      BY <2>1, <2>2, <2>4, HeldAfterStep
    <3> QED
      BY <2>3, <3>1, HeldIsIssued
  <2>5. ASSUME NEW b \in Browser, NEW p \in Pair, Old(b, p), login'[p] = login'[n]
        PROVE  b = home
    <3>1. CASE Rotates(c)
      <4>1. call[c].with \in 1..issued
        BY <3>1, RefreshersCarry DEF Rotates, Early, Refreshing
      <4>2. login'[n] = login[call[c].with]
        BY <3>1, <2>1 DEF Rotates, Obtains, TypeOK
      <4>3. Holds(home, call[c].with)
        BY <2>1, <4>1, CallHolds DEF NoPair
      <4>4. call[c].with \in Pair /\ home \in Browser
        BY <2>1, <4>1, BusyCall, SessionsAssumption DEF TypeOK, Pair
      <4> QED
        BY <2>5, <4>2, <4>3, <4>4 DEF SessionsAreApart
    <3>2. CASE LogsIn(c)
      <4>1. login'[n] = n
        BY <3>2, <2>1 DEF LogsIn, Obtains, TypeOK
      <4>2. login[p] \in 1..issued /\ login'[p] = login[p] /\ issued \in Nat
        <5>1. p \in 1..issued /\ login'[p] = login[p]
          BY <2>5
        <5>2. issued \in Nat
          BY SessionsAssumption DEF TypeOK
        <5> QED
          BY <5>1, <5>2 DEF LoginsAreIssued
      <4>3. login[p] = issued + 1
        BY <2>5, <4>1, <4>2
      <4> QED
        BY <4>2, <4>3
    <3> QED
      BY <1>7, <3>1, <3>2
  <2>6. ASSUME NEW a \in Browser, NEW b \in Browser, NEW p \in Pair, NEW q \in Pair,
               Holds(a, p)', Holds(b, q)', login'[p] = login'[q]
        PROVE  a = b
    <3>1. (Old(a, p) \/ (a = home /\ p = n)) /\ (Old(b, q) \/ (b = home /\ q = n))
      BY <2>4, <2>6
    <3>2. CASE Old(a, p) /\ Old(b, q)
      BY <2>6, <3>2 DEF SessionsAreApart
    <3> HIDE DEF Old, n, home
    <3> QED
      BY <2>5, <2>6, <3>1, <3>2
  <2> QED
    BY <2>6 DEF SessionsAreApart
<1>8. ASSUME NEW c \in Call, Arrives(c) \/ IsLost(c)
      PROVE  SessionsAreApart'
  <2>1. Ends(c) /\ UNCHANGED login
    BY <1>8 DEF Arrives, IsLost, Ends, tokens
  <2>2. \A d \in Call : Busy(d)' => Busy(d) /\ call'[d] = call[d]
    BY <2>1 DEF Ends, Busy
  <2>3. ASSUME NEW b \in Browser, jar'[b] # NoPair
        PROVE  Holds(b, jar'[b])
    <3>1. CASE jar'[b] = jar[b]
      BY <2>3, <3>1 DEF Holds
    <3>2. CASE jar'[b] # jar[b]
      <4>1. Arrives(c) /\ b = call[c].browser /\ jar'[b] = CookiesAfter(c)
        BY <1>8, <3>2 DEF Arrives, IsLost, TypeOK
      <4>2. jar'[b] = call[c].new
        BY <2>3, <3>2, <4>1 DEF CookiesAfter
      <4> QED
        BY <2>1, <2>3, <4>1, <4>2, CallHolds DEF Ends
    <3> QED
      BY <3>1, <3>2
  <2>4. \A b \in Browser : \A p \in Pair : Holds(b, p)' => Holds(b, p)
    BY <2>2, <2>3 DEF Holds
  <2> QED
    BY <1>1, <2>1, <2>4
<1>9. CASE TimePasses
  <2>1. \A b \in Browser : \A p \in Pair : Holds(b, p)' => Holds(b, p)
    BY <1>9 DEF TimePasses, Holds, Busy
  <2> QED
    BY <1>1, <1>9, <2>1 DEF TimePasses, tokens
<1> QED
  BY <1>2, <1>4, <1>5, <1>6, <1>7, <1>8, <1>9 DEF Cases

\* A new pair belongs to a login that is open.
LEMMA NewLogin ==
    ASSUME TypeOK, LoginsAreIssued, CallsAreSound, NEW c \in Call, Rotates(c) \/ LogsIn(c)
    PROVE  /\ Busy(c) /\ issued' = issued + 1 /\ issued + 1 \in Pair /\ issued \in Nat
           /\ UNCHANGED <<revoked, ended, overtaken, clock, jar, rough>>
           /\ \A p \in 1..issued : login'[p] = login[p] /\ p \in Pair
           /\ Rotates(c) => login'[issued + 1] = login[call[c].with]
           /\ LogsIn(c) => login'[issued + 1] = issued + 1
<1> DEFINE n == issued + 1
<1>1. Busy(c) /\ issued' = n /\ UNCHANGED <<revoked, ended, overtaken, clock, jar, rough>>
  BY DEF Rotates, LogsIn, Obtains
<1>2. n \in Pair /\ issued \in Nat
  BY SessionsAssumption DEF Rotates, LogsIn, Obtains, TypeOK, Pair
<1>3. login \in [Pair -> 0..MaxPair]
  BY DEF TypeOK
<1>4. \A p \in 1..issued : p \in Pair /\ p # n
  BY <1>2, SessionsAssumption DEF Pair
<1>5. (Rotates(c) => login' = [login EXCEPT ![n] = login[call[c].with]])
      /\ (LogsIn(c) => login' = [login EXCEPT ![n] = n])
  BY DEF Rotates, LogsIn, Obtains
<1> HIDE DEF n
<1>6. \A p \in 1..issued : login'[p] = login[p]
  BY <1>3, <1>4, <1>5
<1>7. (Rotates(c) => login'[n] = login[call[c].with]) /\ (LogsIn(c) => login'[n] = n)
  BY <1>2, <1>3, <1>5
<1> QED
  BY <1>1, <1>2, <1>4, <1>6, <1>7 DEF n

\* In a smooth browser nothing else of the session of a logout is under way.
LEMMA LogoutIsAlone ==
    ASSUME TypeOK, LoginsAreIssued, CallsAreSound, SessionsAreApart, SmoothBrowsers,
           NEW c \in Call, LogsOut(c), call[c].with # NoPair, call[c].browser \notin rough
    PROVE  /\ call[c].with \in 1..issued /\ call[c].with \in Pair /\ call[c].with = jar[call[c].browser]
           /\ \A q \in 1..issued : q \notin revoked /\ login[q] = SessionOf(c) => q = call[c].with
           /\ \A d \in Call : Busy(d) /\ call[d].with \in 1..issued /\ login[call[d].with] = SessionOf(c)
                => d = c
<1> DEFINE home == call[c].browser
<1>1. Busy(c) /\ home \in Browser /\ call[c].with \in 1..issued /\ call[c].new = NoPair /\ c \in Under(home)
  <2>1. Busy(c) /\ call[c].at = "sent"
    BY DEF LogsOut
  <2>2. Sound(c) /\ call[c].with \in 0..issued /\ home \in Browser /\ issued \in Nat
    BY <2>1, BusyCall, SessionsAssumption DEF CallsAreSound, TypeOK
  <2> QED
    BY <2>1, <2>2 DEF Sound, Early, NoPair, Under, Busy
<1>2. Smooth(home)
  BY <1>1 DEF SmoothBrowsers
<1>3. call[c].with = jar[home]
  BY <1>1, <1>2 DEF Smooth, CarriesCookies
<1>4. \A d \in Under(home) : d = c
  BY <1>1, <1>2 DEF Smooth, OneCall
<1>5. call[c].with \in Pair /\ \A p \in 1..issued : p \in Pair /\ p # NoPair
  BY <1>1, SessionsAssumption DEF TypeOK, Pair, NoPair
<1>6. \A q \in 1..issued : q \notin revoked /\ login[q] = SessionOf(c) => q = call[c].with
  BY <1>1, <1>2, <1>3, <1>4, <1>5 DEF Smooth, OneLive, SessionOf
<1>7. ASSUME NEW d \in Call, Busy(d), call[d].with \in 1..issued, login[call[d].with] = SessionOf(c)
      PROVE  d = c
  <2>1. Holds(home, call[c].with) /\ Holds(call[d].browser, call[d].with) /\ call[d].browser \in Browser
    BY <1>1, <1>5, <1>7, CallHolds, BusyCall
  <2>2. call[d].browser = home
    BY <1>1, <1>5, <1>7, <2>1 DEF SessionsAreApart, SessionOf
  <2> QED
    BY <1>4, <1>7, <2>2 DEF Under, Busy
<1> QED
  BY <1>1, <1>3, <1>5, <1>6, <1>7

LEMMA EndedKept ==
    ASSUME TypeOK, LoginsAreIssued, CallsAreSound, SessionsStayEnded, RefreshesAreOpen,
           SessionsAreApart, SmoothBrowsers, Cases
    PROVE  SessionsStayEnded'
<1>1. ASSUME UNCHANGED <<issued, login, ended, overtaken>>, revoked \subseteq revoked'
      PROVE  SessionsStayEnded'
  BY <1>1 DEF SessionsStayEnded, Live
<1>2. ASSUME NEW c \in Call, Rotates(c) \/ LogsIn(c)
      PROVE  SessionsStayEnded'
  <2>1. login'[issued + 1] \notin ended \ overtaken
    <3>1. CASE Rotates(c)
      <4>1. Busy(c) /\ call[c].at \in Refreshing
        BY <3>1, NewLogin DEF Rotates, Refreshing
      <4> QED
        BY <3>1, <4>1, NewLogin DEF RefreshesAreOpen
    <3>2. CASE LogsIn(c)
      BY <3>2, NewLogin DEF LoginsAreIssued
    <3> QED
      BY <1>2, <3>1, <3>2
  <2>2. ASSUME NEW p \in Pair, Live(p)'
        PROVE  login'[p] \notin ended' \ overtaken'
    <3>1. p \in 1..(issued + 1) /\ p \notin revoked /\ ended' = ended /\ overtaken' = overtaken
          /\ issued \in Nat
      BY <1>2, <2>2, NewLogin DEF Live
    <3>2. CASE p = issued + 1
      BY <2>1, <3>1, <3>2
    <3>3. CASE p \in 1..issued
      BY <1>2, <3>1, <3>3, NewLogin DEF SessionsStayEnded, Live
    <3> QED
      BY <3>1, <3>2, <3>3
  <2> QED
    BY <2>2 DEF SessionsStayEnded
<1>3. ASSUME NEW c \in Call, EndsAll(c)
      PROVE  SessionsStayEnded'
  BY <1>3 DEF EndsAll, SessionsStayEnded, Live
<1>4. ASSUME NEW c \in Call, LogsOut(c)
      PROVE  SessionsStayEnded'
  <2>1. CASE ended' = ended
    BY <1>1, <1>4, <2>1 DEF LogsOut
  <2>2. CASE ended' # ended
    <3>1. call[c].with # NoPair /\ call[c].browser \notin rough
          /\ ended' = ended \cup {SessionOf(c)} /\ revoked' = revoked \cup {call[c].with}
          /\ UNCHANGED <<issued, login, overtaken>>
      BY <1>4, <2>2 DEF LogsOut
    <3>2. \A q \in 1..issued : q \notin revoked' => login[q] # SessionOf(c)
      BY <1>4, <3>1, LogoutIsAlone
    <3> QED
      BY <3>1, <3>2 DEF SessionsStayEnded, Live
  <2> QED
    BY <2>1, <2>2
<1>5. \A c \in Call : Spends(c) => SessionsStayEnded'
  BY <1>1 DEF Spends
<1>6. UNCHANGED tokens => SessionsStayEnded'
  BY <1>1 DEF tokens
<1> QED
  BY <1>2, <1>3, <1>4, <1>5, <1>6
     DEF Cases, Send, Advances, Breaks, Arrives, IsLost, Ends, TimePasses

LEMMA OpenKept ==
    ASSUME TypeOK, LoginsAreIssued, CallsAreSound, SessionsStayEnded, RefreshesAreOpen,
           SessionsAreApart, SmoothBrowsers, Cases
    PROVE  RefreshesAreOpen'
<1> DEFINE Open(d) == login[call[d].with] \notin ended \ overtaken
<1>0. \A d \in Call : Busy(d) /\ call[d].at \in Refreshing => Open(d) /\ call[d].with \in 1..issued
  BY RefreshersCarry DEF RefreshesAreOpen, Early, Refreshing
<1>1. ASSUME NEW c \in Call, \A d \in Call \ {c} : call'[d] = call[d],
             UNCHANGED <<login, ended, overtaken>>,
             Busy(c)' /\ call'[c].at \in Refreshing => login[call'[c].with] \notin ended \ overtaken
      PROVE  RefreshesAreOpen'
  BY <1>1 DEF RefreshesAreOpen, Busy
<1>2. ASSUME NEW c \in Call, NEW b \in Browser, NEW kind \in Kind, Send(c, b, kind)
      PROVE  RefreshesAreOpen'
  <2>1. call'[c].at = "sent" /\ \A d \in Call \ {c} : call'[d] = call[d]
    BY <1>2, Sends
  <2> QED
    BY <1>1, <1>2, <2>1 DEF Send, tokens, Refreshing
<1>3. ASSUME NEW c \in Call, NEW stage \in Stage, NEW with \in 0..issued, Advances(c, stage, with)
      PROVE  RefreshesAreOpen'
  <2>1. call'[c].at = stage /\ call'[c].with = with /\ \A d \in Call \ {c} : call'[d] = call[d]
    BY <1>3 DEF Advances, Becomes
  <2>2. ASSUME stage = "checked"
        PROVE  login[with] \notin ended \ overtaken
    <3>1. with # NoPair /\ with \notin revoked
      <4>1. call[c].at \in {"sent", "unauthorised"} /\ with = call[c].with
        BY <1>3, <2>2 DEF Advances, Early, Refreshing
      <4>2. with # NoPair
        BY <1>3, <2>2, <4>1, RefreshersCarry DEF Advances, Early, NoPair
      <4> QED
        BY <1>3, <2>2, <4>2 DEF Advances, Refreshable
    <3>2. with \in 1..issued /\ with \in Pair
      BY <3>1, SessionsAssumption DEF NoPair, TypeOK, Pair
    <3> QED
      BY <3>1, <3>2 DEF SessionsStayEnded, Live
  <2> QED
    BY <1>1, <1>3, <2>1, <2>2 DEF Advances, tokens, Refreshing
<1>4. ASSUME NEW c \in Call, Spends(c)
      PROVE  RefreshesAreOpen'
  <2>1. call'[c].with = call[c].with /\ (\A d \in Call \ {c} : call'[d] = call[d])
        /\ Busy(c) /\ call[c].at \in Refreshing
    BY <1>4 DEF Spends, Becomes, Refreshing
  <2> QED
    BY <1>0, <1>1, <1>4, <2>1 DEF Spends
<1>5. ASSUME NEW c \in Call, Rotates(c) \/ LogsIn(c)
      PROVE  RefreshesAreOpen'
  <2>1. call'[c].at \notin Refreshing /\ \A d \in Call \ {c} : call'[d] = call[d]
    BY <1>5 DEF Rotates, LogsIn, Obtains, Becomes, Refreshing
  <2>2. \A p \in 1..issued : login'[p] = login[p]
    BY <1>5, NewLogin
  <2>3. ended' = ended /\ overtaken' = overtaken
    BY <1>5, NewLogin
  <2> QED
    BY <1>0, <2>1, <2>2, <2>3 DEF RefreshesAreOpen, Busy
<1>6. ASSUME NEW c \in Call, EndsAll(c)
      PROVE  RefreshesAreOpen'
  <2>1. call'[c].at \notin Refreshing /\ \A d \in Call \ {c} : call'[d] = call[d]
    BY <1>6 DEF EndsAll, Becomes, Refreshing
  <2>2. \A d \in Call : call[d].at \in Refreshing => login[call[d].with] \in overtaken'
    BY <1>6 DEF EndsAll, SessionOf
  <2> QED
    BY <1>6, <2>1, <2>2 DEF RefreshesAreOpen, EndsAll
<1>7. ASSUME NEW c \in Call, LogsOut(c)
      PROVE  RefreshesAreOpen'
  <2>1. call'[c].at \notin Refreshing /\ \A d \in Call \ {c} : call'[d] = call[d]
    BY <1>7 DEF LogsOut, Becomes, Refreshing
  <2>2. CASE ended' = ended
    BY <1>1, <1>7, <2>1, <2>2 DEF LogsOut
  <2>3. CASE ended' # ended
    <3>1. call[c].with # NoPair /\ call[c].browser \notin rough
          /\ ended' = ended \cup {SessionOf(c)} /\ UNCHANGED <<login, overtaken>>
      BY <1>7, <2>3 DEF LogsOut
    <3>2. \A d \in Call \ {c} : Busy(d) /\ call[d].at \in Refreshing => login[call[d].with] # SessionOf(c)
      BY <1>0, <1>7, <3>1, LogoutIsAlone
    <3> QED
      BY <1>0, <2>1, <3>1, <3>2 DEF RefreshesAreOpen, Busy
  <2> QED
    BY <2>2, <2>3
<1>8. ASSUME NEW c \in Call, Breaks(c)
      PROVE  RefreshesAreOpen'
  <2>1. call'[c].at \notin Refreshing /\ \A d \in Call \ {c} : call'[d] = call[d]
    BY <1>8 DEF Breaks, Becomes, Refreshing
  <2> QED
    BY <1>1, <1>8, <2>1 DEF Breaks, tokens
<1>9. ASSUME NEW c \in Call, Ends(c)
      PROVE  RefreshesAreOpen'
  BY <1>1, <1>9 DEF Ends, Busy, tokens
<1>10. CASE TimePasses
  BY <1>10 DEF TimePasses, RefreshesAreOpen, Busy, tokens
<1> QED
  BY <1>2, <1>3, <1>4, <1>5, <1>6, <1>7, <1>8, <1>9, <1>10 DEF Cases, Arrives, IsLost

\* A call that refreshes or logs out shares no pair with a login under way.
LEMMA FreshKept ==
    ASSUME TypeOK, LoginsAreIssued, CallsAreSound, LoginsAreFresh, Cases
    PROVE  LoginsAreFresh'
<1> DEFINE Pending(d) == Busy(d) /\ call[d].kind = "login" /\ call[d].new # NoPair
           n(d) == call[d].new
<1>0. \A d \in Call : Busy(d) => call[d].with \in 0..issued /\ n(d) \in 0..issued /\ issued \in Nat
  BY BusyCall, SessionsAssumption DEF TypeOK
<1>1. ASSUME \A d \in Call : Busy(d)' => \/ call'[d].with = NoPair /\ call'[d].new = NoPair
                                         \/ /\ Busy(d) /\ call'[d].kind = call[d].kind
                                            /\ call'[d].with \in {NoPair, call[d].with}
                                            /\ call'[d].new \in {NoPair, call[d].new},
             \A d \in Call : Pending(d) =>
                 (\A b \in Browser : jar'[b] # n(d) \/ jar'[b] = jar[b] \/ ~Busy(d)'),
             UNCHANGED <<issued, login>>,
             ended \subseteq ended',
             \A d \in Call : Pending(d) /\ n(d) \in revoked' => n(d) \in revoked \/ n(d) \in ended'
      PROVE  LoginsAreFresh'
  <2> SUFFICES ASSUME NEW d \in Call, Busy(d)', call'[d].kind = "login", call'[d].new # NoPair
               PROVE  /\ login[n(d)] = n(d) /\ call'[d].new = n(d)
                      /\ \A q \in 1..issued : login[q] = n(d) => q = n(d)
                      /\ \A b \in Browser : jar'[b] # n(d)
                      /\ \A e \in Call : Busy(e)' => call'[e].with # n(d)
                                                     /\ (call'[e].new = n(d) => e = d)
                      /\ n(d) \in revoked' => n(d) \in ended'
    BY <1>1 DEF LoginsAreFresh
  <2>1. Pending(d) /\ call'[d].new = n(d)
    BY <1>1
  <2>2. login[n(d)] = n(d) /\ (\A q \in 1..issued : login[q] = n(d) => q = n(d))
        /\ (\A b \in Browser : jar[b] # n(d)) /\ (n(d) \in revoked => n(d) \in ended)
        /\ (\A e \in Call : Busy(e) => call[e].with # n(d) /\ (call[e].new = n(d) => e = d))
    BY <2>1 DEF LoginsAreFresh
  <2>3. \A b \in Browser : jar'[b] # n(d)
    BY <1>1, <2>1, <2>2
  <2>4. \A e \in Call : Busy(e)' => call'[e].with # n(d) /\ (call'[e].new = n(d) => e = d)
    BY <1>1, <2>1, <2>2
  <2>5. n(d) \in revoked' => n(d) \in ended'
    BY <1>1, <2>1, <2>2
  <2> QED
    BY <2>1, <2>2, <2>3, <2>4, <2>5
<1>2. ASSUME NEW c \in Call, NEW b \in Browser, NEW kind \in Kind, Send(c, b, kind)
      PROVE  LoginsAreFresh'
  <2>1. /\ call'[c].with \in {NoPair, jar[b]} /\ call'[c].new = NoPair
        /\ \A d \in Call \ {c} : call'[d] = call[d] /\ (Busy(d)' <=> Busy(d))
        /\ UNCHANGED <<tokens, clock, jar>>
    BY <1>2, Sends
  <2> SUFFICES ASSUME NEW d \in Call, Busy(d)', call'[d].kind = "login", call'[d].new # NoPair
               PROVE  /\ login[n(d)] = n(d) /\ call'[d].new = n(d)
                      /\ \A q \in 1..issued : login[q] = n(d) => q = n(d)
                      /\ \A a \in Browser : jar[a] # n(d)
                      /\ \A e \in Call : Busy(e)' => call'[e].with # n(d)
                                                     /\ (call'[e].new = n(d) => e = d)
                      /\ n(d) \in revoked => n(d) \in ended
    BY <2>1 DEF LoginsAreFresh, tokens
  <2>2. d # c /\ Pending(d) /\ call'[d].new = n(d)
    BY <2>1
  <2>3. login[n(d)] = n(d) /\ (\A q \in 1..issued : login[q] = n(d) => q = n(d))
        /\ (\A a \in Browser : jar[a] # n(d)) /\ (n(d) \in revoked => n(d) \in ended)
        /\ (\A e \in Call : Busy(e) => call[e].with # n(d) /\ (call[e].new = n(d) => e = d))
    BY <2>2 DEF LoginsAreFresh
  <2>4. \A e \in Call : Busy(e)' => call'[e].with # n(d) /\ (call'[e].new = n(d) => e = d)
    BY <2>1, <2>2, <2>3
  <2> QED
    BY <2>2, <2>3, <2>4
<1>3. ASSUME NEW c \in Call, Busy(c), NEW stage \in Stage, NEW with \in {NoPair, call[c].with},
             NEW new \in {NoPair, call[c].new}, Becomes(c, stage, with, new),
             UNCHANGED <<jar, issued, login>>, ended \subseteq ended',
             \A d \in Call : Pending(d) /\ n(d) \in revoked' => n(d) \in revoked \/ n(d) \in ended'
      PROVE  LoginsAreFresh'
  <2>1. /\ \A d \in Call : Busy(d)' <=> Busy(d)
        /\ \A d \in Call : call'[d].kind = call[d].kind
        /\ \A d \in Call \ {c} : call'[d] = call[d]
        /\ call'[c].with = with /\ call'[c].new = new
    BY <1>3, AfterStep
  <2>2. \A d \in Call : Busy(d)' => /\ Busy(d) /\ call'[d].kind = call[d].kind
                                    /\ call'[d].with \in {NoPair, call[d].with}
                                    /\ call'[d].new \in {NoPair, call[d].new}
    BY <1>3, <2>1
  <2> HIDE DEF Pending, n
  <2> QED
    BY <1>1, <1>3, <2>2
<1>4. ASSUME NEW c \in Call, NEW stage \in Stage, NEW with \in 0..issued, Advances(c, stage, with)
      PROVE  LoginsAreFresh'
  BY <1>3, <1>4 DEF Advances, tokens
<1>5. ASSUME NEW c \in Call, Spends(c)
      PROVE  LoginsAreFresh'
  <2>1. \A d \in Call : Pending(d) => call[c].with # n(d)
    BY <1>5 DEF Spends, LoginsAreFresh
  <2> QED
    BY <1>3, <1>5, <2>1 DEF Spends, Stage, Waiting, Answered, Refreshing
<1>6. ASSUME NEW c \in Call, LogsOut(c)
      PROVE  LoginsAreFresh'
  <2>1. \A d \in Call : Pending(d) => call[c].with # n(d)
    BY <1>6 DEF LogsOut, LoginsAreFresh
  <2>2. ended \subseteq ended' /\ revoked' \subseteq revoked \cup {call[c].with}
    BY <1>6 DEF LogsOut
  <2> QED
    BY <1>3, <1>6, <2>1, <2>2 DEF LogsOut, Stage, Waiting, Answered
<1>7. ASSUME NEW c \in Call, EndsAll(c)
      PROVE  LoginsAreFresh'
  <2>1. \A d \in Call : Pending(d) => n(d) \in 1..issued /\ login[n(d)] = n(d)
    BY <1>0 DEF LoginsAreFresh, NoPair
  <2>2. \A d \in Call : Pending(d) => n(d) \in ended'
    BY <1>7, <2>1 DEF EndsAll
  <2> QED
    BY <1>3, <1>7, <2>2 DEF EndsAll, Stage, Waiting, Answered
<1>8. ASSUME NEW c \in Call, Breaks(c)
      PROVE  LoginsAreFresh'
  BY <1>3, <1>8 DEF Breaks, Stage, Waiting, Answered, tokens
<1>9. ASSUME NEW c \in Call, Ends(c),
             \A b \in Browser : jar'[b] \in {NoPair, n(c)} \/ jar'[b] = jar[b]
      PROVE  LoginsAreFresh'
  <2>1. \A d \in Call : Busy(d)' => Busy(d) /\ call'[d] = call[d] /\ d # c
    BY <1>9 DEF Ends, Busy
  <2>2. UNCHANGED <<issued, login, revoked, ended>>
    BY <1>9 DEF Ends, tokens
  <2>3. ASSUME NEW d \in Call, Pending(d), NEW b \in Browser
        PROVE  jar'[b] # n(d) \/ jar'[b] = jar[b] \/ ~Busy(d)'
    <3>1. CASE d = c
      BY <2>1, <3>1
    <3>2. CASE d # c
      <4>1. n(c) # n(d)
        BY <1>9, <2>3, <3>2 DEF LoginsAreFresh, Ends
      <4> QED
        BY <1>9, <2>3, <4>1
    <3> QED
      BY <3>1, <3>2
  <2> HIDE DEF Pending, n
  <2> QED
    BY <1>1, <2>1, <2>2, <2>3
<1>10. ASSUME NEW c \in Call, Arrives(c)
       PROVE  LoginsAreFresh'
  <2>1. \A b \in Browser : jar'[b] \in {NoPair, n(c)} \/ jar'[b] = jar[b]
    <3>1. CookiesAfter(c) \in {NoPair, n(c), jar[call[c].browser]}
      BY DEF CookiesAfter
    <3>2. jar \in [Browser -> 0..issued] /\ jar' = [jar EXCEPT ![call[c].browser] = CookiesAfter(c)]
      BY <1>10 DEF Arrives, TypeOK
    <3> HIDE DEF n
    <3> QED
      BY <3>1, <3>2
  <2> QED
    BY <1>9, <1>10, <2>1 DEF Arrives
<1>11. ASSUME NEW c \in Call, IsLost(c)
       PROVE  LoginsAreFresh'
  BY <1>9, <1>11 DEF IsLost
<1>12. CASE TimePasses
  BY <1>12 DEF TimePasses, LoginsAreFresh, Busy, tokens
<1>13. ASSUME NEW c \in Call, Rotates(c) \/ LogsIn(c)
       PROVE  LoginsAreFresh'
  <2> DEFINE new == issued + 1
  <2>1. /\ \A d \in Call : Busy(d)' <=> Busy(d)
        /\ \A d \in Call : call'[d].kind = call[d].kind
        /\ \A d \in Call \ {c} : call'[d] = call[d]
        /\ call'[c].with = call[c].with /\ call'[c].new = new
    <3>1. \E stage \in Stage : Becomes(c, stage, call[c].with, new) /\ Busy(c)
      BY <1>13 DEF Rotates, LogsIn, Obtains, Stage, Waiting, Answered
    <3> QED
      BY <3>1, AfterStep
  <2>2. /\ Busy(c) /\ issued' = new /\ UNCHANGED <<revoked, ended, jar>> /\ issued \in Nat
        /\ \A p \in 1..issued : login'[p] = login[p]
        /\ Rotates(c) => login'[new] = login[call[c].with]
        /\ LogsIn(c) => login'[new] = new
    BY <1>13, NewLogin
  <2>3. /\ \A b \in Browser : jar[b] \in 0..issued
        /\ \A p \in 1..issued : login[p] \in 1..issued
        /\ revoked \subseteq 1..issued
    BY DEF TypeOK, LoginsAreIssued
  <2>4. new \notin 0..issued /\ \A q \in 1..issued' : q \in 1..issued \/ q = new
    BY <2>2
  <2>5. ASSUME NEW d \in Call, d # c, Pending(d)
        PROVE  /\ login'[n(d)] = n(d) /\ n(d) \in 1..issued
               /\ \A q \in 1..issued' : login'[q] = n(d) => q = n(d)
    <3>1. login[n(d)] = n(d) /\ (\A q \in 1..issued : login[q] = n(d) => q = n(d))
          /\ call[c].with # n(d) /\ n(d) \in 1..issued
      BY <1>0, <2>2, <2>5 DEF LoginsAreFresh, NoPair
    <3>2. login'[new] # n(d)
      <4>1. CASE Rotates(c)
        <5>1. call[c].with \in 1..issued
          BY <4>1, RefreshersCarry DEF Rotates, Early, Refreshing
        <5> QED
          BY <2>2, <3>1, <4>1, <5>1
      <4>2. CASE LogsIn(c)
        BY <2>2, <2>4, <3>1, <4>2
      <4> QED
        BY <1>13, <4>1, <4>2
    <3> HIDE DEF new, n
    <3> QED
      BY <2>2, <2>4, <3>1, <3>2
  <2>6. ASSUME NEW d \in Call, d # c, Busy(d)', call'[d].kind = "login", call'[d].new # NoPair
        PROVE  /\ login'[call'[d].new] = call'[d].new
               /\ \A q \in 1..issued' : login'[q] = call'[d].new => q = call'[d].new
               /\ \A b \in Browser : jar'[b] # call'[d].new
               /\ \A e \in Call : Busy(e)' => call'[e].with # call'[d].new
                                              /\ (call'[e].new = call'[d].new => e = d)
               /\ call'[d].new \in revoked' => call'[d].new \in ended'
    <3>1. Pending(d) /\ call'[d].new = n(d)
      BY <2>1, <2>6
    <3>2. (\A b \in Browser : jar[b] # n(d)) /\ (n(d) \in revoked => n(d) \in ended)
          /\ (\A e \in Call : Busy(e) => call[e].with # n(d) /\ (call[e].new = n(d) => e = d))
      BY <3>1 DEF LoginsAreFresh
    <3>3. n(d) # new
      BY <2>4, <2>5, <2>6, <3>1
    <3>4. \A e \in Call : Busy(e)' => call'[e].with # n(d) /\ (call'[e].new = n(d) => e = d)
      BY <2>1, <3>2, <3>3
    <3> HIDE DEF n, new
    <3> QED
      BY <2>2, <2>5, <2>6, <3>1, <3>2, <3>4
  <2>7. ASSUME LogsIn(c)
        PROVE  /\ login'[new] = new
               /\ \A q \in 1..issued' : login'[q] = new => q = new
               /\ \A b \in Browser : jar'[b] # new
               /\ \A e \in Call : Busy(e)' => call'[e].with # new /\ (call'[e].new = new => e = c)
               /\ new \notin revoked'
    <3>1. \A e \in Call : Busy(e)' => call'[e].with # new /\ (call'[e].new = new => e = c)
      BY <1>0, <2>1, <2>4
    <3>2. \A q \in 1..issued : login'[q] # new
      BY <2>2, <2>3, <2>4
    <3> HIDE DEF new
    <3> QED
      BY <2>2, <2>3, <2>4, <2>7, <3>1, <3>2
  <2>8. Rotates(c) => call'[c].kind # "login"
    BY <2>1, RefreshersCarry DEF Rotates, Early, Refreshing
  <2> SUFFICES ASSUME NEW d \in Call, Busy(d)', call'[d].kind = "login", call'[d].new # NoPair
               PROVE  /\ login'[call'[d].new] = call'[d].new
                      /\ \A q \in 1..issued' : login'[q] = call'[d].new => q = call'[d].new
                      /\ \A b \in Browser : jar'[b] # call'[d].new
                      /\ \A e \in Call : Busy(e)' => call'[e].with # call'[d].new
                                                     /\ (call'[e].new = call'[d].new => e = d)
                      /\ call'[d].new \in revoked' => call'[d].new \in ended'
    BY DEF LoginsAreFresh
  <2>9. CASE d = c
    <3>1. LogsIn(c) /\ call'[d].new = new
      BY <1>13, <2>1, <2>8, <2>9
    <3> HIDE DEF new
    <3> QED
      BY <2>7, <2>9, <3>1
  <2>10. CASE d # c
    BY <2>6, <2>10
  <2> QED
    BY <2>9, <2>10
<1> QED
  BY <1>2, <1>4, <1>5, <1>6, <1>7, <1>8, <1>10, <1>11, <1>12, <1>13 DEF Cases

-----------------------------------------------------------------------------
(* Smooth browsers. *)

\* A session that is over stays so.
LEMMA OverStays ==
    ASSUME TypeOK, NEW p \in 1..issued, Over(p), expired' \in Nat, expired <= expired',
           ended \subseteq ended', active' => active, login'[p] = login[p]
    PROVE  Over(p)'
<1>1. CASE p <= expired
  <2>1. p <= expired'
    BY <1>1, SessionsAssumption DEF TypeOK
  <2> QED
    BY <2>1 DEF Over
<1>2. CASE login[p] \in ended
  BY <1>2 DEF Over
<1>3. CASE ~active
  BY <1>3 DEF Over
<1> QED
  BY <1>1, <1>2, <1>3 DEF Over

\* A browser whose cookies and calls a step leaves alone stays smooth.
LEMMA Elsewhere ==
    ASSUME TypeOK, NEW b \in Browser, Smooth(b),
           Under(b)' = Under(b), \A d \in Under(b) : call'[d] = call[d], jar'[b] = jar[b],
           revoked \subseteq revoked', ended \subseteq ended',
           expired' \in Nat, expired <= expired', active' => active,
           \A p \in 1..issued : login'[p] = login[p],
           \A q \in 1..issued' : q \in 1..issued \/ (jar[b] # NoPair => login'[q] # login[jar[b]]),
           \A d \in Under(b) : call[d].new # NoPair /\ call[d].new \in revoked' =>
                call[d].new \in revoked \/ login[call[d].new] \in ended',
           jar[b] \in revoked' => jar[b] \in revoked \/ login[jar[b]] \in ended'
    PROVE  Smooth(b)'
<1>1. jar[b] \in 0..issued /\ (jar[b] # NoPair => jar[b] \in 1..issued)
  BY SessionsAssumption DEF TypeOK, NoPair
<1>2. \A d \in Under(b) : call[d].new # NoPair => call[d].new \in 1..issued
  BY BusyCall, SessionsAssumption DEF Under, Busy, TypeOK, NoPair
<1>3. OneCall(b)' /\ CarriesCookies(b)'
  BY DEF Smooth, OneCall, CarriesCookies
<1>4. BringsSuccessor(b)'
  BY <1>1, <1>2 DEF Smooth, BringsSuccessor
<1>5. NewIsLive(b)'
  BY <1>2 DEF Smooth, NewIsLive
<1>6. RefusalIsTrue(b)'
  BY <1>1, OverStays DEF Smooth, RefusalIsTrue
<1>7. OneLive(b)'
  BY <1>1 DEF Smooth, OneLive
<1>8. SpentIsReplaced(b)'
  BY <1>1 DEF Smooth, SpentIsReplaced
<1> QED
  BY <1>3, <1>4, <1>5, <1>6, <1>7, <1>8 DEF Smooth

\* What a smooth browser says of its only call.
LEMMA AtHome ==
    ASSUME TypeOK, SmoothBrowsers, NEW c \in Call, Busy(c),
           NEW b \in Browser \ rough, b = call[c].browser
    PROVE  /\ Under(b) = {c} /\ (jar[b] # NoPair => jar[b] \in 1..issued)
           /\ call[c].with \in {NoPair, jar[b]}
           /\ call[c].at \in Early /\ call[c].kind # "login" => call[c].with = jar[b]
           /\ call[c].kind # "login" /\ (call[c].at = "revoked" \/ call[c].new # NoPair) =>
                /\ jar[b] # NoPair /\ jar[b] \in revoked
                /\ call[c].new # NoPair => login[call[c].new] = login[jar[b]]
           /\ call[c].new # NoPair /\ call[c].new \in revoked => login[call[c].new] \in ended
           /\ call[c].at = "401" /\ call[c].kind \in Clearing =>
                jar[b] = NoPair \/ Over(jar[b])
           /\ jar[b] # NoPair => \A q \in 1..issued :
                q \notin revoked /\ login[q] = login[jar[b]] => q = jar[b] \/ q = call[c].new
           /\ jar[b] # NoPair /\ jar[b] \in revoked /\ login[jar[b]] \notin ended =>
                call[c].kind # "login" /\ (call[c].at = "revoked" \/ call[c].new # NoPair \/ Clears(call[c].kind, call[c].at))
<1>1. Smooth(b)
  BY DEF SmoothBrowsers
<1>2. c \in Under(b)
  BY DEF Under, Busy
<1>3. Under(b) = {c}
  BY <1>1, <1>2 DEF Smooth, OneCall
<1>4. jar[b] # NoPair => jar[b] \in 1..issued
  BY SessionsAssumption DEF TypeOK, NoPair
<1>5. /\ call[c].with \in {NoPair, jar[b]}
      /\ call[c].at \in Early /\ call[c].kind # "login" => call[c].with = jar[b]
  BY <1>1, <1>2 DEF Smooth, CarriesCookies
<1>6. call[c].kind # "login" /\ (call[c].at = "revoked" \/ call[c].new # NoPair) =>
                /\ jar[b] # NoPair /\ jar[b] \in revoked
                /\ call[c].new # NoPair => login[call[c].new] = login[jar[b]]
  BY <1>1, <1>2 DEF Smooth, BringsSuccessor
<1>7. call[c].new # NoPair /\ call[c].new \in revoked => login[call[c].new] \in ended
  BY <1>1, <1>2 DEF Smooth, NewIsLive
<1>8. call[c].at = "401" /\ call[c].kind \in Clearing => jar[b] = NoPair \/ Over(jar[b])
  BY <1>1, <1>2 DEF Smooth, RefusalIsTrue
<1>9. jar[b] # NoPair => \A q \in 1..issued :
                q \notin revoked /\ login[q] = login[jar[b]] => q = jar[b] \/ q = call[c].new
  BY <1>1, <1>3 DEF Smooth, OneLive
<1>10. jar[b] # NoPair /\ jar[b] \in revoked /\ login[jar[b]] \notin ended =>
                call[c].kind # "login" /\ (call[c].at = "revoked" \/ call[c].new # NoPair \/ Clears(call[c].kind, call[c].at))
  BY <1>1, <1>3 DEF Smooth, SpentIsReplaced
<1> QED
  BY <1>3, <1>4, <1>5, <1>6, <1>7, <1>8, <1>9, <1>10

\* The same of its only call after a step: that makes the browser smooth.
LEMMA HomeStaysSmooth ==
    ASSUME NEW c \in Call, NEW b \in Browser, NEW stage, NEW with, NEW new, NEW cookies,
           Under(b)' = {c}, jar'[b] = cookies,
           call'[c].at = stage, call'[c].with = with, call'[c].new = new, call'[c].kind = call[c].kind,
           with \in {NoPair, cookies},
           stage \in Early /\ call[c].kind # "login" => with = cookies,
           call[c].kind # "login" /\ (stage = "revoked" \/ new # NoPair) =>
                /\ cookies # NoPair /\ cookies \in revoked'
                /\ new # NoPair => login'[new] = login'[cookies],
           new # NoPair /\ new \in revoked' => login'[new] \in ended',
           stage = "401" /\ call[c].kind \in Clearing =>
                cookies = NoPair \/ cookies <= expired' \/ login'[cookies] \in ended' \/ ~active',
           cookies # NoPair => \A q \in 1..issued' :
                q \notin revoked' /\ login'[q] = login'[cookies] => q = cookies \/ q = new,
           cookies # NoPair /\ cookies \in revoked' /\ login'[cookies] \notin ended' =>
                call[c].kind # "login" /\ (stage = "revoked" \/ new # NoPair \/ Clears(call[c].kind, stage))
    PROVE  Smooth(b)'
<1>1. OneCall(b)' /\ CarriesCookies(b)'
  BY DEF OneCall, CarriesCookies
<1>2. BringsSuccessor(b)' /\ NewIsLive(b)'
  BY DEF BringsSuccessor, NewIsLive
<1>3. RefusalIsTrue(b)'
  BY DEF RefusalIsTrue, Over
<1>4. OneLive(b)' /\ SpentIsReplaced(b)'
  BY DEF OneLive, SpentIsReplaced
<1> QED
  BY <1>1, <1>2, <1>3, <1>4 DEF Smooth

\* A call spends or revokes pairs of its own browser only.
LEMMA SpentAtHome ==
    ASSUME TypeOK, SessionsAreApart, NEW c \in Call, Busy(c),
           NEW b \in Browser, NEW p, Holds(b, p), p = call[c].with
    PROVE  b = call[c].browser
<1>1. p \in Pair /\ call[c].browser \in Browser
  BY HeldIsIssued, BusyCall, SessionsAssumption DEF TypeOK, Pair
<1>2. Holds(call[c].browser, p)
  BY CallHolds DEF Holds
<1> QED
  BY <1>1, <1>2 DEF SessionsAreApart

\* A step on a call of another browser leaves a browser smooth.
LEMMA StepElsewhere ==
    ASSUME Inv, NEW c \in Call, Busy(c), NEW stage \in Stage, NEW with, NEW new,
           Becomes(c, stage, with, new), NEW b \in Browser \ rough, b # call[c].browser,
           UNCHANGED <<jar, clock, issued, login>>, NoPair \notin revoked',
           revoked \subseteq revoked', revoked' \subseteq revoked \cup {call[c].with}, ended \subseteq ended'
    PROVE  Smooth(b)'
<1>1. TypeOK /\ SessionsAreApart /\ Smooth(b)
  BY DEF Inv, SmoothBrowsers
<1>2. Under(b)' = Under(b) /\ \A d \in Call \ {c} : call'[d] = call[d]
  BY <1>1, AfterStep
<1>3. \A d \in Under(b) : call'[d] = call[d] /\ d \in Call /\ Busy(d) /\ call[d].browser = b
  BY <1>2 DEF Under, Busy
<1>4. expired' \in Nat /\ expired <= expired' /\ (active' => active)
  BY <1>1, SessionsAssumption DEF TypeOK, clock
<1>5. ASSUME NEW d \in Under(b), call[d].new # NoPair
      PROVE  call[d].new # call[c].with
  <2>1. Holds(b, call[d].new)
    BY <1>3, <1>5, CallHolds
  <2> QED
    BY <1>1, <2>1, SpentAtHome
<1>6. jar[b] \in revoked' => jar[b] \in revoked
  <2>1. jar[b] # NoPair => Holds(b, jar[b])
    BY DEF Holds
  <2> QED
    BY <1>1, <2>1, SpentAtHome
<1>7. UNCHANGED <<jar, issued, login>>
  OBVIOUS
<1> QED
  BY <1>1, <1>2, <1>3, <1>4, <1>5, <1>6, <1>7, Elsewhere

LEMMA SmoothAfterSend ==
    ASSUME Inv, NEW c \in Call, NEW a \in Browser, NEW kind \in Kind, Send(c, a, kind),
           NEW b \in Browser \ rough'
    PROVE  Smooth(b)'
<1>1. TypeOK
  BY DEF Inv
<1>2. /\ call'[c].at = "sent" /\ call'[c].kind = kind /\ call'[c].browser = a
      /\ call'[c].with \in {NoPair, jar[a]} /\ call'[c].new = NoPair
      /\ kind # "login" => call'[c].with = jar[a]
      /\ \A d \in Call \ {c} : call'[d] = call[d]
      /\ Under(a)' = Under(a) \cup {c} /\ \A e \in Browser \ {a} : Under(e)' = Under(e)
      /\ a \notin rough' => Under(a) = {}
      /\ rough \subseteq rough' /\ rough' \subseteq rough \cup {a}
      /\ ~Busy(c)
  BY <1>1, Sends
<1>3. UNCHANGED <<tokens, clock, jar>>
  BY <1>1, Sends
<1>4. Smooth(b) /\ expired' \in Nat /\ expired <= expired'
  BY <1>1, <1>2, <1>3, SessionsAssumption DEF Inv, SmoothBrowsers, TypeOK, clock
<1>5. CASE b # a
  <2>1. \A d \in Under(b) : call'[d] = call[d]
    BY <1>2 DEF Under, Busy
  <2> QED
    BY <1>1, <1>2, <1>3, <1>4, <1>5, <2>1, Elsewhere DEF tokens, clock
<1>6. CASE b = a
  <2>1. Under(b)' = {c} /\ Under(b) = {}
    BY <1>2, <1>6
  <2>2. OneCall(b)' /\ CarriesCookies(b)'
    BY <1>2, <1>3, <1>6, <2>1 DEF OneCall, CarriesCookies
  <2>3. BringsSuccessor(b)' /\ NewIsLive(b)' /\ RefusalIsTrue(b)'
    BY <1>2, <1>6, <2>1 DEF BringsSuccessor, NewIsLive, RefusalIsTrue
  <2>4. OneLive(b)' /\ SpentIsReplaced(b)'
    BY <1>2, <1>3, <1>4, <1>6, <2>1 DEF Smooth, OneLive, SpentIsReplaced, tokens
  <2> QED
    BY <2>2, <2>3, <2>4 DEF Smooth
<1> QED
  BY <1>5, <1>6

LEMMA SmoothAfterAdvance ==
    ASSUME Inv, NEW c \in Call, NEW stage \in Stage, NEW with \in 0..issued, Advances(c, stage, with),
           NEW b \in Browser \ rough
    PROVE  Smooth(b)'
<1>1. TypeOK /\ SmoothBrowsers /\ Sound(c) /\ Busy(c) /\ Becomes(c, stage, with, call[c].new)
      /\ UNCHANGED <<tokens, clock, jar, rough>>
  BY DEF Inv, CallsAreSound, Advances
<1>2. UNCHANGED <<issued, revoked, login, ended, expired, active, jar>>
  BY <1>1 DEF tokens, clock
<1>3. CASE b # call[c].browser
  <2>1. NoPair \notin revoked
    BY <1>1 DEF TypeOK, NoPair
  <2> QED
    BY <1>1, <1>2, <1>3, <2>1, StepElsewhere
<1>4. CASE b = call[c].browser
  <2>1. /\ Under(b)' = Under(b)
        /\ call'[c].at = stage /\ call'[c].with = with /\ call'[c].new = call[c].new
        /\ call'[c].kind = call[c].kind
    BY <1>1, AfterStep
  <2>2. Under(b) = {c} /\ call[c].with \in {NoPair, jar[b]} /\ (jar[b] # NoPair => jar[b] \in 1..issued)
    BY <1>1, <1>4, AtHome
  <2>3. stage \in Early => with = call[c].with /\ call[c].at \in Early /\ call[c].new = NoPair
    BY <1>1 DEF Advances, Sound, Early, Refreshing
  <2>4. stage \in Early /\ call[c].kind # "login" => with = jar[b]
    BY <1>1, <1>4, <2>3, AtHome
  <2>5. /\ stage # "revoked" /\ with \in {NoPair, jar[b]}
        /\ call[c].at = "revoked" => Clears(call[c].kind, stage)
        /\ ~Clears(call[c].kind, call[c].at)
    BY <2>2 DEF Advances, Clears, Waiting, Refreshing
  <2>6. ASSUME stage = "401", call[c].kind \in Clearing, jar[b] # NoPair
        PROVE  jar[b] <= expired \/ login[jar[b]] \in ended \/ ~active
    <3>1. CASE call[c].at = "sent" /\ call[c].with = NoPair
      BY <1>1, <1>4, <2>6, <3>1, AtHome DEF Early, Clearing
    <3>2. CASE call[c].at = "issued" /\ ~Accepts(Carried(c))
      BY <1>1, <3>2 DEF Sound, Accepts, Carried
    <3>3. CASE call[c].at = "unauthorised" /\ ~Refreshable(call[c].with)
      <4>1. call[c].with = jar[b] /\ call[c].new = NoPair
        BY <1>1, <1>4, <2>6, <3>3, AtHome DEF Sound, Early, Clearing
      <4>2. jar[b] \in revoked => login[jar[b]] \in ended
        BY <1>1, <1>4, <2>6, <3>3, <4>1, AtHome DEF Clears
      <4>3. expired \in Int /\ jar[b] \in Int
        BY <1>1, <2>2, <2>6, SessionsAssumption DEF TypeOK
      <4>4. ~(jar[b] > expired) => jar[b] <= expired
        BY <4>3
      <4> QED
        BY <3>3, <4>1, <4>2, <4>4 DEF Refreshable
    <3> QED
      BY <2>6, <3>1, <3>2, <3>3 DEF Advances, Clearing
  <2>7. /\ call[c].kind # "login" /\ (stage = "revoked" \/ call[c].new # NoPair) =>
                /\ jar[b] # NoPair /\ jar[b] \in revoked
                /\ call[c].new # NoPair => login[call[c].new] = login[jar[b]]
        /\ call[c].new # NoPair /\ call[c].new \in revoked => login[call[c].new] \in ended
        /\ jar[b] # NoPair => \A q \in 1..issued :
                q \notin revoked /\ login[q] = login[jar[b]] => q = jar[b] \/ q = call[c].new
        /\ jar[b] # NoPair /\ jar[b] \in revoked /\ login[jar[b]] \notin ended =>
                call[c].kind # "login" /\ (stage = "revoked" \/ call[c].new # NoPair \/ Clears(call[c].kind, stage))
    BY <1>1, <1>4, <2>5, AtHome
  <2> QED
    BY <1>2, <2>1, <2>2, <2>4, <2>5, <2>6, <2>7, HomeStaysSmooth
<1> QED
  BY <1>3, <1>4

LEMMA SmoothAfterSpend ==
    ASSUME Inv, NEW c \in Call, Spends(c), NEW b \in Browser \ rough
    PROVE  Smooth(b)'
<1>1. /\ TypeOK /\ CallsAreSound /\ SmoothBrowsers /\ Busy(c) /\ Becomes(c, "revoked", call[c].with, call[c].new)
      /\ call[c].at = "checked" /\ revoked' = revoked \cup {call[c].with}
      /\ UNCHANGED <<issued, login, ended, clock, jar>>
  BY DEF Inv, Spends
<1>2. call[c].with \in 1..issued /\ call[c].new = NoPair /\ call[c].kind # "login"
  BY <1>1, RefreshersCarry DEF Early, Refreshing
<1>3. CASE b # call[c].browser
  <2>1. NoPair \notin revoked'
    BY <1>1, <1>2 DEF TypeOK, NoPair
  <2> QED
    BY <1>1, <1>3, <2>1, StepElsewhere DEF Stage, Waiting, Answered, Refreshing
<1>4. CASE b = call[c].browser
  <2>1. /\ Under(b)' = Under(b)
        /\ call'[c].at = "revoked" /\ call'[c].with = call[c].with /\ call'[c].new = NoPair
        /\ call'[c].kind = call[c].kind
    BY <1>1, <1>2, AfterStep DEF Stage, Waiting, Answered, Refreshing
  <2>2. Under(b) = {c} /\ call[c].with = jar[b] /\ jar[b] # NoPair
    BY <1>1, <1>2, <1>4, AtHome DEF Early, Refreshing, NoPair
  <2>3. \A q \in 1..issued : q \notin revoked' /\ login[q] = login[jar[b]] => q = jar[b]
    BY <1>1, <1>2, <1>4, <2>2, AtHome DEF NoPair
  <2> QED
    BY <1>1, <1>2, <2>1, <2>2, <2>3, HomeStaysSmooth
<1> QED
  BY <1>3, <1>4

LEMMA SmoothAfterIssue ==
    ASSUME Inv, NEW c \in Call, Rotates(c) \/ LogsIn(c), NEW b \in Browser \ rough
    PROVE  Smooth(b)'
<1> DEFINE new == issued + 1
<1>1. TypeOK /\ LoginsAreIssued /\ CallsAreSound /\ SessionsAreApart /\ SmoothBrowsers /\ Smooth(b)
  BY DEF Inv, SmoothBrowsers
<1>2. /\ Busy(c) /\ issued' = new /\ new \in Pair /\ issued \in Nat
      /\ UNCHANGED <<revoked, ended, clock, jar>>
      /\ \A p \in 1..issued : login'[p] = login[p] /\ p \in Pair
      /\ Rotates(c) => login'[new] = login[call[c].with]
      /\ LogsIn(c) => login'[new] = new
  BY <1>1, NewLogin
<1>3. UNCHANGED <<expired, active>> /\ expired \in Nat
  BY <1>1, <1>2, SessionsAssumption DEF clock, TypeOK
<1>4. PICK stage \in {"issued", "done"} :
        Becomes(c, stage, call[c].with, new) /\ (Rotates(c) => stage = "issued") /\ (LogsIn(c) => stage = "done")
  <2>1. CASE Rotates(c)
    BY <2>1 DEF Rotates, Obtains, LogsIn
  <2>2. CASE LogsIn(c)
    BY <2>2 DEF Rotates, Obtains, LogsIn
  <2> QED
    BY <2>1, <2>2
<1>5. /\ Under(b)' = Under(b)
      /\ call'[c].at = stage /\ call'[c].with = call[c].with /\ call'[c].new = new
      /\ call'[c].kind = call[c].kind
      /\ \A d \in Call \ {c} : call'[d] = call[d]
  BY <1>1, <1>2, <1>4, AfterStep DEF Stage, Waiting, Answered, Refreshing
<1>6. jar[b] # NoPair => jar[b] \in 1..issued /\ login[jar[b]] \in 1..issued
  BY <1>1, SessionsAssumption DEF TypeOK, LoginsAreIssued, NoPair
<1>7. new \notin revoked /\ new \notin 1..issued /\ new # NoPair /\ \A q \in 1..issued' : q \in 1..issued \/ q = new
  BY <1>1, <1>2 DEF TypeOK, NoPair
<1>8. CASE b # call[c].browser
  <2>1. \A d \in Under(b) : call'[d] = call[d]
    BY <1>5, <1>8 DEF Under
  <2>2. ASSUME jar[b] # NoPair
        PROVE  login'[new] # login[jar[b]]
    <3>1. CASE LogsIn(c)
      BY <1>2, <1>6, <1>7, <2>2, <3>1
    <3>2. CASE Rotates(c)
      <4>1. call[c].with \in 1..issued
        BY <1>1, <3>2, RefreshersCarry DEF Rotates, Early, Refreshing
      <4>2. Holds(call[c].browser, call[c].with) /\ Holds(b, jar[b]) /\ call[c].browser \in Browser
        <5>1. call[c].with # NoPair /\ Holds(b, jar[b])
          BY <2>2, <4>1 DEF Holds, NoPair
        <5> QED
          BY <1>1, <1>2, <5>1, CallHolds, BusyCall
      <4> QED
        BY <1>1, <1>2, <1>6, <1>8, <2>2, <3>2, <4>1, <4>2 DEF SessionsAreApart
    <3> QED
      BY <3>1, <3>2
  <2> HIDE DEF new
  <2> QED
    BY <1>1, <1>2, <1>3, <1>5, <1>7, <2>1, <2>2, Elsewhere
<1>9. CASE b = call[c].browser /\ Rotates(c)
  <2>1. call[c].at = "revoked" /\ call[c].new = NoPair /\ call[c].kind # "login" /\ call[c].with \in 1..issued
    BY <1>1, <1>9, RefreshersCarry DEF Rotates, Early, Refreshing
  <2>2. /\ Under(b) = {c} /\ call[c].with = jar[b] /\ jar[b] # NoPair /\ jar[b] \in revoked
        /\ \A q \in 1..issued : q \notin revoked /\ login[q] = login[jar[b]] => q = jar[b] \/ q = NoPair
    BY <1>1, <1>2, <1>9, <2>1, AtHome DEF Early, Refreshing
  <2>3. login'[new] = login'[jar[b]]
    BY <1>2, <1>9, <2>1, <2>2
  <2>4. \A q \in 1..issued' : q \notin revoked' /\ login'[q] = login'[jar[b]] => q = jar[b] \/ q = new
    BY <1>2, <1>6, <1>7, <2>2 DEF NoPair
  <2> HIDE DEF new
  <2> QED
    BY <1>2, <1>4, <1>5, <1>7, <1>9, <2>1, <2>2, <2>3, <2>4, HomeStaysSmooth
<1>10. CASE b = call[c].browser /\ LogsIn(c)
  <2>1. call[c].kind = "login" /\ call[c].with = NoPair /\ call[c].new = NoPair
    BY <1>1, <1>2, <1>10 DEF LogsIn, CallsAreSound, Sound, Early
  <2>2. /\ Under(b) = {c}
        /\ jar[b] # NoPair => \A q \in 1..issued :
             q \notin revoked /\ login[q] = login[jar[b]] => q = jar[b] \/ q = NoPair
        /\ ~(jar[b] # NoPair /\ jar[b] \in revoked /\ login[jar[b]] \notin ended)
    BY <1>1, <1>2, <1>10, <2>1, AtHome
  <2>3. jar[b] # NoPair => \A q \in 1..issued' :
          q \notin revoked' /\ login'[q] = login'[jar[b]] => q = jar[b] \/ q = new
    BY <1>2, <1>6, <1>7, <2>2 DEF NoPair
  <2>4. ~(jar[b] # NoPair /\ jar[b] \in revoked' /\ login'[jar[b]] \notin ended')
    BY <1>2, <1>6, <2>2
  <2> HIDE DEF new
  <2> QED
    BY <1>2, <1>4, <1>5, <1>7, <1>10, <2>1, <2>2, <2>3, <2>4, HomeStaysSmooth
<1> QED
  BY <1>8, <1>9, <1>10

LEMMA SmoothAfterEndOfAll ==
    ASSUME Inv, NEW c \in Call, EndsAll(c), NEW b \in Browser \ rough
    PROVE  Smooth(b)'
<1>1. /\ TypeOK /\ SmoothBrowsers /\ Smooth(b) /\ Busy(c) /\ Becomes(c, "done", NoPair, call[c].new)
      /\ revoked' = 1..issued /\ ended' = ended \cup {login[p] : p \in 1..issued}
      /\ UNCHANGED <<issued, login, clock, jar>>
  BY DEF Inv, SmoothBrowsers, EndsAll
<1>2. UNCHANGED <<expired, active>> /\ expired \in Nat /\ revoked \subseteq revoked'
  BY <1>1, SessionsAssumption DEF clock, TypeOK
<1>3. \A p \in 1..issued : login[p] \in ended'
  BY <1>1
<1>4. jar[b] # NoPair => jar[b] \in 1..issued
  BY <1>1, SessionsAssumption DEF TypeOK, NoPair
<1>5. /\ Under(b)' = Under(b)
      /\ call'[c].at = "done" /\ call'[c].with = NoPair /\ call'[c].new = call[c].new
      /\ call'[c].kind = call[c].kind
      /\ \A d \in Call \ {c} : call'[d] = call[d]
  <2>1. "done" \in Stage
    BY DEF Stage, Answered
  <2> QED
    BY <1>1, <2>1, AfterStep
<1>6. CASE b # call[c].browser
  <2>1. \A d \in Under(b) : call'[d] = call[d]
    BY <1>5, <1>6 DEF Under
  <2>2. \A d \in Under(b) : call[d].new \in revoked' => login[call[d].new] \in ended'
    BY <1>1, <1>3
  <2>3. jar[b] \in revoked' => login[jar[b]] \in ended'
    BY <1>1, <1>3
  <2>4. ended \subseteq ended'
    BY <1>1
  <2> QED
    BY <1>1, <1>2, <1>5, <2>1, <2>2, <2>3, <2>4, Elsewhere
<1>7. CASE b = call[c].browser
  <2>1. Under(b) = {c}
    BY <1>1, <1>7, AtHome
  <2>2. call[c].kind # "login" /\ call[c].new # NoPair =>
          jar[b] # NoPair /\ jar[b] \in revoked' /\ login[call[c].new] = login[jar[b]]
    BY <1>1, <1>4, <1>7, AtHome
  <2>3. call[c].new \in revoked' => login[call[c].new] \in ended'
    BY <1>1, <1>3
  <2>4. jar[b] \in revoked' => login[jar[b]] \in ended'
    BY <1>1, <1>3
  <2>5. \A q \in 1..issued' : q \in revoked'
    BY <1>1
  <2> QED
    BY <1>1, <1>5, <2>1, <2>2, <2>3, <2>4, <2>5, HomeStaysSmooth DEF Early, Refreshing
<1> QED
  BY <1>6, <1>7

LEMMA SmoothAfterLogout ==
    ASSUME Inv, NEW c \in Call, LogsOut(c), NEW b \in Browser \ rough
    PROVE  Smooth(b)'
<1>1. /\ TypeOK /\ SmoothBrowsers /\ Sound(c) /\ Busy(c) /\ Becomes(c, "done", NoPair, call[c].new)
      /\ call[c].at = "sent" /\ call[c].kind = "logout"
      /\ revoked' = revoked \cup ({call[c].with} \ {NoPair}) /\ ended \subseteq ended'
      /\ UNCHANGED <<issued, login, clock, jar>>
  BY DEF Inv, CallsAreSound, LogsOut
<1>2. CASE b # call[c].browser
  <2>1. NoPair \notin revoked'
    BY <1>1 DEF TypeOK, NoPair
  <2> QED
    BY <1>1, <1>2, <2>1, StepElsewhere DEF Stage, Waiting, Answered
<1>3. CASE b = call[c].browser
  <2>1. /\ Under(b)' = Under(b)
        /\ call'[c].at = "done" /\ call'[c].with = NoPair /\ call'[c].new = NoPair
        /\ call'[c].kind = call[c].kind
    BY <1>1, AfterStep DEF Stage, Waiting, Answered, Sound, Early
  <2>2. Under(b) = {c} /\ call[c].with = jar[b] /\ (jar[b] # NoPair => jar[b] \in 1..issued)
    BY <1>1, <1>3, AtHome DEF Early
  <2>3. jar[b] # NoPair => login[jar[b]] \in ended'
    BY <1>3, <2>2 DEF LogsOut, SessionOf
  <2>4. jar[b] # NoPair => \A q \in 1..issued :
          q \notin revoked /\ login[q] = login[jar[b]] => q = jar[b] \/ q = NoPair
    BY <1>1, <1>3, AtHome DEF Sound, Early
  <2>5. jar[b] # NoPair => \A q \in 1..issued' :
          q \notin revoked' /\ login'[q] = login'[jar[b]] => q = jar[b] \/ q = NoPair
    BY <1>1, <2>4
  <2> QED
    BY <1>1, <2>1, <2>2, <2>3, <2>5, HomeStaysSmooth DEF Early, Refreshing
<1> QED
  BY <1>2, <1>3

LEMMA SmoothAfterBreak ==
    ASSUME Inv, NEW c \in Call, Breaks(c), NEW b \in Browser \ rough'
    PROVE  Smooth(b)'
<1>1. PICK stage \in {"done", "denied"} : Becomes(c, stage, NoPair, NoPair)
  BY DEF Breaks
<1>2. /\ TypeOK /\ Busy(c) /\ rough' = rough \cup {call[c].browser}
      /\ UNCHANGED <<revoked, ended, issued, login, clock, jar>>
  BY DEF Inv, Breaks, tokens
<1>3. b \in Browser \ rough /\ b # call[c].browser
  BY <1>2
<1>4. NoPair \notin revoked'
  BY <1>2 DEF TypeOK, NoPair
<1>5. stage \in Stage
  BY DEF Stage, Waiting, Answered
<1> QED
  BY <1>1, <1>2, <1>3, <1>4, <1>5, StepElsewhere

\* A call of another browser that is over leaves a browser smooth.
LEMMA EndElsewhere ==
    ASSUME Inv, NEW c \in Call, Ends(c), NEW b \in Browser \ rough, b # call[c].browser, jar'[b] = jar[b]
    PROVE  Smooth(b)'
<1>1. TypeOK /\ Smooth(b) /\ UNCHANGED <<issued, revoked, login, ended, expired, active>>
  BY DEF Inv, SmoothBrowsers, Ends, tokens, clock
<1>2. /\ Busy(c) /\ call'[c] = Idle /\ \A d \in Call \ {c} : call'[d] = call[d]
  BY DEF Ends
<1>3. Under(b)' = Under(b) /\ \A d \in Under(b) : call'[d] = call[d]
  BY <1>2 DEF Under, Busy
<1>4. expired' \in Nat /\ expired <= expired'
  BY <1>1, SessionsAssumption DEF TypeOK
<1>5. \A q \in 1..issued' : q \in 1..issued
  BY <1>1
<1> QED
  BY <1>1, <1>3, <1>4, <1>5, Elsewhere

LEMMA SmoothAfterArrival ==
    ASSUME Inv, NEW c \in Call, Arrives(c), NEW b \in Browser \ rough'
    PROVE  Smooth(b)'
<1>1. /\ TypeOK /\ CallsAreSound /\ LoginsAreFresh /\ SmoothBrowsers /\ Ends(c) /\ Busy(c)
      /\ UNCHANGED <<issued, revoked, login, ended>>
      /\ call[c].at \in Answered
  BY DEF Inv, Arrives, Ends, tokens
<1>2. call[c].browser \in Browser /\ jar'[call[c].browser] = CookiesAfter(c)
      /\ \A a \in Browser \ {call[c].browser} : jar'[a] = jar[a]
  BY <1>1, BusyCall DEF Arrives, TypeOK
<1>3. CASE b # call[c].browser
  BY <1>1, <1>2, <1>3, EndElsewhere DEF Arrives
<1>4. CASE b = call[c].browser
  <2>1. Under(b) = {c}
    BY <1>1, <1>4, AtHome DEF Arrives, Smoothed
  <2>2. Under(b)' = {}
    BY <1>1, <1>4, <2>1 DEF Under, Ends
  <2>3. ASSUME jar'[b] # NoPair
        PROVE  /\ \A q \in 1..issued : q \notin revoked /\ login[q] = login[jar'[b]] => q = jar'[b]
               /\ jar'[b] \in revoked => login[jar'[b]] \in ended
    <3>1. CASE call[c].kind = "login" /\ call[c].new # NoPair
      <4>1. jar'[b] = call[c].new
        BY <1>2, <1>4, <2>3, <3>1 DEF CookiesAfter
      <4> QED
        BY <1>1, <3>1, <4>1 DEF LoginsAreFresh
    <3>2. CASE ~(call[c].kind = "login" /\ call[c].new # NoPair)
      <4>1. b \in Browser \ rough
        BY <3>2 DEF Arrives, Smoothed
      <4>2. CASE call[c].new = NoPair
        <5>1. jar'[b] = jar[b]
          BY <1>2, <1>4, <2>3, <4>2 DEF CookiesAfter
        <5>2. ~Clears(call[c].kind, call[c].at) /\ call[c].at # "revoked"
          BY <1>1, <1>2, <1>4, <2>3 DEF CookiesAfter, Clears, Answered
        <5> QED
          BY <1>1, <1>4, <2>3, <4>1, <4>2, <5>1, <5>2, AtHome DEF NoPair
      <4>3. CASE call[c].new # NoPair
        <5>1. jar'[b] = call[c].new
          BY <1>2, <1>4, <2>3, <4>3 DEF CookiesAfter
        <5> QED
          BY <1>1, <1>4, <3>2, <4>1, <4>3, <5>1, AtHome
      <4> QED
        BY <4>2, <4>3
    <3> QED
      BY <3>1, <3>2
  <2>4. OneCall(b)' /\ CarriesCookies(b)' /\ BringsSuccessor(b)' /\ NewIsLive(b)' /\ RefusalIsTrue(b)'
    BY <2>2 DEF OneCall, CarriesCookies, BringsSuccessor, NewIsLive, RefusalIsTrue
  <2>5. OneLive(b)' /\ SpentIsReplaced(b)'
    BY <1>1, <2>3 DEF OneLive, SpentIsReplaced
  <2> QED
    BY <2>4, <2>5 DEF Smooth
<1> QED
  BY <1>3, <1>4

LEMMA SmoothAsTimePasses ==
    ASSUME Inv, TimePasses, NEW b \in Browser \ rough
    PROVE  Smooth(b)'
<1>1. TypeOK /\ Smooth(b) /\ UNCHANGED <<issued, revoked, login, ended, jar, call>>
  BY DEF Inv, SmoothBrowsers, TimePasses, tokens
<1>2. Under(b)' = Under(b)
  BY <1>1 DEF Under
<1>3. expired' \in Nat /\ expired <= expired'
  BY <1>1, SessionsAssumption DEF TypeOK, TimePasses
<1>4. \A q \in 1..issued' : q \in 1..issued
  BY <1>1
<1>5. active' => active
  BY DEF TimePasses
<1> QED
  BY <1>1, <1>2, <1>3, <1>4, <1>5, Elsewhere

LEMMA SmoothKept ==
    ASSUME Inv, Cases
    PROVE  SmoothBrowsers'
<1> SUFFICES ASSUME NEW b \in Browser \ rough'
             PROVE  Smooth(b)'
  BY DEF SmoothBrowsers
<1>1. ASSUME NEW c \in Call, NEW a \in Browser, NEW kind \in Kind, Send(c, a, kind) PROVE Smooth(b)'
  BY <1>1, SmoothAfterSend
<1>2. ASSUME NEW c \in Call, NEW stage \in Stage, NEW with \in 0..issued, Advances(c, stage, with)
      PROVE  Smooth(b)'
  <2>1. rough' = rough
    BY <1>2 DEF Advances
  <2> QED
    BY <1>2, <2>1, SmoothAfterAdvance
<1>3. ASSUME NEW c \in Call, Spends(c) PROVE Smooth(b)'
  <2>1. rough' = rough
    BY <1>3 DEF Spends
  <2> QED
    BY <1>3, <2>1, SmoothAfterSpend
<1>4. ASSUME NEW c \in Call, Rotates(c) \/ LogsIn(c) PROVE Smooth(b)'
  <2>1. rough' = rough
    BY <1>4 DEF Rotates, LogsIn, Obtains
  <2> QED
    BY <1>4, <2>1, SmoothAfterIssue
<1>5. ASSUME NEW c \in Call, EndsAll(c) PROVE Smooth(b)'
  <2>1. rough' = rough
    BY <1>5 DEF EndsAll
  <2> QED
    BY <1>5, <2>1, SmoothAfterEndOfAll
<1>6. ASSUME NEW c \in Call, LogsOut(c) PROVE Smooth(b)'
  <2>1. rough' = rough
    BY <1>6 DEF LogsOut
  <2> QED
    BY <1>6, <2>1, SmoothAfterLogout
<1>7. ASSUME NEW c \in Call, Breaks(c) PROVE Smooth(b)'
  BY <1>7, SmoothAfterBreak
<1>8. ASSUME NEW c \in Call, Arrives(c) PROVE Smooth(b)'
  BY <1>8, SmoothAfterArrival
<1>9. ASSUME NEW c \in Call, IsLost(c) PROVE Smooth(b)'
  <2>1. b \in Browser \ rough /\ b # call[c].browser /\ jar'[b] = jar[b] /\ Ends(c)
    BY <1>9 DEF IsLost
  <2> QED
    BY <2>1, EndElsewhere
<1>10. CASE TimePasses
  <2>1. rough' = rough
    BY <1>10 DEF TimePasses
  <2> QED
    BY <1>10, <2>1, SmoothAsTimePasses
<1> QED
  BY <1>1, <1>2, <1>3, <1>4, <1>5, <1>6, <1>7, <1>8, <1>9, <1>10 DEF Cases

-----------------------------------------------------------------------------
(* The invariant holds, and what follows from it. *)

LEMMA InitInv == Init => Inv
<1> SUFFICES ASSUME Init PROVE Inv
  OBVIOUS
<1>1. TypeOK
  BY SessionsAssumption DEF Init, TypeOK, Progress, Pair, NoPair
<1>2. \A c \in Call : ~Busy(c)
  BY DEF Init, Busy
<1>3. LoginsAreIssued /\ CallsAreSound /\ RefreshesAreOpen /\ LoginsAreFresh
  BY <1>2 DEF Init, LoginsAreIssued, CallsAreSound, RefreshesAreOpen, LoginsAreFresh
<1>4. SessionsStayEnded
  BY DEF Init, SessionsStayEnded
<1>5. SessionsAreApart
  BY <1>2 DEF Init, SessionsAreApart, Holds
<1>6. \A b \in Browser : Under(b) = {} /\ jar[b] = NoPair
  BY DEF Init, Under
<1>7. SmoothBrowsers
  BY <1>6 DEF SmoothBrowsers, Smooth, OneCall, CarriesCookies, BringsSuccessor, NewIsLive,
              RefusalIsTrue, OneLive, SpentIsReplaced
<1> QED
  BY <1>1, <1>3, <1>4, <1>5, <1>7 DEF Inv

LEMMA NextInv == Inv /\ [Next]_vars => Inv'
<1> SUFFICES ASSUME Inv, [Next]_vars PROVE Inv'
  OBVIOUS
<1>1. Cases
  BY StepCases DEF Inv
<1>2. TypeOK' /\ LoginsAreIssued' /\ CallsAreSound'
  BY <1>1, TypesKept, LoginsKept, SoundKept DEF Inv
<1>3. SessionsStayEnded' /\ RefreshesAreOpen'
  BY <1>1, EndedKept, OpenKept DEF Inv
<1>4. SessionsAreApart' /\ LoginsAreFresh'
  BY <1>1, ApartKept, FreshKept DEF Inv
<1>5. SmoothBrowsers'
  BY <1>1, SmoothKept
<1> QED
  BY <1>2, <1>3, <1>4, <1>5 DEF Inv

LEMMA Invariance == Spec => []Inv
BY InitInv, NextInv, PTL DEF Spec

\* The types of the cookies, the calls under way and the refresh tokens.
THEOREM SessionsTypeCorrect == Spec => []TypeOK
<1>1. Inv => TypeOK
  BY DEF Inv
<1> QED
  BY <1>1, Invariance, PTL

\* After a logout (auth.service.ts logout) or a change of password (users.service.ts
\* updatePassword) no refresh token of the session is usable, except one from
\* a refresh that had been checked before.
THEOREM EndedSessionsStayEnded == Spec => []SessionsStayEnded
<1>1. Inv => SessionsStayEnded
  BY DEF Inv
<1> QED
  BY <1>1, Invariance, PTL

LEMMA SmoothIsUsable == Inv => JarIsUsable
<1> SUFFICES ASSUME Inv, NEW b \in Browser, jar[b] # NoPair, b \notin rough, Under(b) = {},
                    ~Over(jar[b])
             PROVE  Live(jar[b])
  BY DEF JarIsUsable
<1>1. SpentIsReplaced(b) /\ jar[b] \in 1..issued
  BY SessionsAssumption DEF Inv, SmoothBrowsers, Smooth, TypeOK, NoPair
<1>2. jar[b] \notin revoked
  BY <1>1 DEF SpentIsReplaced, Over
<1> QED
  BY <1>1, <1>2 DEF Live

\* The silent refresh of fetchApiCore leaves a browser whose calls did not
\* overlap, and whose answers all arrived, with a refresh token that works.
THEOREM JarStaysUsable == Spec => []JarIsUsable
BY SmoothIsUsable, Invariance, PTL

LEMMA StepFollows ==
    ASSUME Inv, [Next]_vars, NEW b \in Browser \ rough
    PROVE  ChangesAreCaused(b, {"denied"})
<1> SUFFICES ASSUME jar'[b] # jar[b]
             PROVE  ChangesAreCaused(b, {"denied"})
  BY DEF ChangesAreCaused
<1>1. Cases
  BY StepCases DEF Inv
<1>2. PICK c \in Call : Arrives(c)
  BY <1>1, Sends DEF Cases, Inv, Advances, Spends, Rotates, LogsIn, Obtains, EndsAll, LogsOut, Breaks,
                     IsLost, TimePasses, Send
<1>3. TypeOK /\ SmoothBrowsers /\ CallsAreSound /\ Busy(c) /\ call'[c] = Idle /\ c \in Call
      /\ call[c].at \in Answered
  BY <1>2 DEF Inv, Arrives, Ends
<1>4. call[c].browser = b /\ jar'[b] = CookiesAfter(c)
  BY <1>2, <1>3, BusyCall DEF Arrives, TypeOK
<1>9. c \in Under(b)
  BY <1>3, <1>4 DEF Under, Busy
<1>5. CASE call[c].kind = "logout"
  BY <1>3, <1>4, <1>5, <1>9 DEF ChangesAreCaused, CookiesAfter
<1>6. CASE call[c].kind \in Clearing /\ call[c].at = "401"
  <2>1. jar'[b] = NoPair
    BY <1>4, <1>6 DEF CookiesAfter
  <2>2. jar[b] = NoPair \/ Over(jar[b])
    BY <1>3, <1>4, <1>6, AtHome
  <2> QED
    BY <2>1, <2>2 DEF ChangesAreCaused
<1>8. CASE call[c].kind \in Clearing /\ call[c].at = "denied"
  <2>1. jar'[b] = NoPair
    BY <1>4, <1>8 DEF CookiesAfter
  <2> QED
    BY <1>3, <1>8, <1>9, <2>1 DEF ChangesAreCaused
<1>7. CASE call[c].kind # "logout" /\ ~(call[c].kind \in Clearing /\ call[c].at \in {"401", "denied"})
  <2>1. call[c].new # NoPair /\ jar'[b] = call[c].new
    BY <1>4, <1>7 DEF CookiesAfter
  <2>2. CASE call[c].kind = "login"
    BY <1>3, <1>9, <2>1, <2>2 DEF ChangesAreCaused
  <2>3. CASE call[c].kind # "login"
    <3>1. jar[b] # NoPair /\ login[call[c].new] = login[jar[b]]
      BY <1>3, <1>4, <2>1, <2>3, AtHome
    <3> QED
      BY <2>1, <3>1 DEF ChangesAreCaused
  <2> QED
    BY <2>2, <2>3
<1> QED
  BY <1>5, <1>6, <1>7, <1>8

\* In a browser whose calls did not overlap and whose answers all arrived the
\* user is signed in only by a login, and signed out by the routes of apps/web
\* only on a logout, when the session is over, or when the API turned a refresh
\* of a clearing route down without a look at the token.
THEOREM CookiesFollowTheUserAlways == Spec => CookiesFollowTheUser
<1>1. Inv /\ [Next]_vars => [\A b \in Browser \ rough : ChangesAreCaused(b, {"denied"})]_vars
  BY StepFollows
<1> QED
  BY <1>1, Invariance, PTL DEF Spec, CookiesFollowTheUser
=============================================================================
