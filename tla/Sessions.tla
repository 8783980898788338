------------------------------ MODULE Sessions ------------------------------
(***************************************************************************)
(* The sessions of one account: the cookies of its browsers, the Next.js   *)
(* routes of apps/web between the browsers and the API (fetchApiCore with  *)
(* its silent refresh), and the refresh tokens of AuthService.             *)
(*                                                                         *)
(* An access token and a refresh token are issued, stored and dropped      *)
(* together: a pair is a number, 0 is no pair.  A call is one request of a *)
(* browser to a route; it works on the cookies it was sent with, and its   *)
(* answer sets cookies in whatever order answers arrive.                   *)
(***************************************************************************)
EXTENDS Integers, FiniteSets

CONSTANTS
    Browser,
    Call,       \* calls that may be under way together
    MaxPair,    \* bound of the pairs issued
    MaxRough    \* bound of the browsers that are rough (below) at a time

ASSUME SessionsAssumption == MaxPair \in Nat /\ MaxRough \in Nat

Pair == 1..MaxPair
NoPair == 0

\* "bare" routes do not clear the cookies on a 401, those in Clearing do.
Kind == {"login", "logout", "request", "bare", "change"}
Clearing == {"request", "change"}

VARIABLES
    issued,     \* how many pairs were issued
    revoked,    \* pairs whose refresh token has revoked_at set
    lapsed,     \* the access tokens of pairs 1..lapsed are past their 15 minutes
    expired,    \* the refresh tokens of pairs 1..expired are past their 30 days
    active,     \* the account's status is active
    jar,        \* [Browser -> the pair in its cookies]
    call,       \* [Call -> progress]
    login,      \* history: [Pair -> the pair of the login it descends from]
    ended,      \* history: logins ended by a logout or by a change of password
    overtaken,  \* history: those whose refresh was under way at that moment
    rough       \* history: browsers with overlapping calls or a lost answer since their
                \* login, or with a token spent by a refresh that broke off

history == <<login, ended, overtaken, rough>>
vars == <<issued, revoked, lapsed, expired, active, jar, call, history>>

Idle == [at |-> "idle"]
Refreshing == {"checked", "revoked"}
Waiting == Refreshing \cup {"sent", "unauthorised", "issued", "changed"}

\* "done" is an answer other than 401, whatever it says.
\* Both "401" and "denied" are a 401 to the route.  "denied" is one whose
\* refresh the API turned down without a look at the token, or broke off.
Answered == {"done", "401", "denied"}
Stage == Waiting \cup Answered

Progress == {Idle} \cup [at: Stage, kind: Kind, browser: Browser,
                         with: 0..MaxPair, new: 0..MaxPair]

\* Pairs are issued in order, tokens lapse before they expire, and cookies,
\* calls and histories name pairs that were issued.
TypeOK ==
    /\ issued \in 0..MaxPair /\ lapsed \in 0..issued /\ expired \in 0..lapsed
    /\ revoked \subseteq 1..issued
    /\ active \in BOOLEAN
    /\ jar \in [Browser -> 0..issued]
    /\ call \in [Call -> Progress]
    /\ \A c \in Call : call[c] # Idle => call[c].with <= issued /\ call[c].new <= issued
    /\ login \in [Pair -> 0..MaxPair]
    /\ ended \subseteq Pair /\ overtaken \subseteq ended
    /\ rough \subseteq Browser

Init ==
    /\ issued = 0 /\ revoked = {} /\ lapsed = 0 /\ expired = 0 /\ active = TRUE
    /\ jar = [b \in Browser |-> NoPair]
    /\ call = [c \in Call |-> Idle]
    /\ login = [p \in Pair |-> NoPair]
    /\ ended = {} /\ overtaken = {} /\ rough = {}

tokens == <<issued, revoked, login, ended, overtaken>>
clock == <<lapsed, expired, active>>

Move(c, stage) == call' = [call EXCEPT ![c].at = stage]

\* The answer is on its way; the cookies the call was sent with are done with.
Answer(c, stage) == call' = [call EXCEPT ![c].at = stage, ![c].with = NoPair]

MayRoughen(b) == Cardinality(rough \cup {b}) <= MaxRough

Under(b) == {c \in Call : call[c] # Idle /\ call[c].browser = b}
SessionOf(c) == login[call[c].with]

(* The browser sends a call: it carries the cookies of the moment. *)
Send(c, b, kind) ==
    /\ call[c] = Idle
    /\ call' = [call EXCEPT ![c] = [at |-> "sent", kind |-> kind, browser |-> b,
                                    with |-> IF kind = "login" THEN NoPair ELSE jar[b],
                                    new |-> NoPair]]
    /\ Under(b) # {} => MayRoughen(b)
    /\ rough' = IF Under(b) # {} THEN rough \cup {b} ELSE rough
    /\ UNCHANGED <<tokens, clock, jar>>

Accepts(p) == p > lapsed

\* The access token this attempt carries: the cookie's, or the refreshed one.
Carried(c) == IF call[c].new # NoPair THEN call[c].new ELSE call[c].with

(* attempt: the API lets the call in on an access token in its 15 minutes, *)
(* whatever became of the session.  A changed password ends the sessions   *)
(* in a step of its own; a wrong current password ends there.              *)
Attempt(c) ==
    /\ call[c].at \in {"sent", "issued"} /\ call[c].kind \in {"request", "bare", "change"}
    /\ \/ /\ Accepts(Carried(c))
          /\ \/ Answer(c, "done")
             \/ call[c].kind = "change" /\ Move(c, "changed")
       \/ /\ ~Accepts(Carried(c))
          /\ IF call[c].at = "sent" /\ call[c].with # NoPair
             THEN Move(c, "unauthorised")
             ELSE Answer(c, "401")
    /\ UNCHANGED <<tokens, clock, jar, rough>>

\* Mutant: a refresh token that was spent or revoked is accepted again.
RefreshableOnceMore(p) == p > expired /\ active

Refreshable(p) == p \notin revoked /\ p > expired /\ active

(* refreshTokens finds the row and the account and checks both ... *)
RefreshRead(c) ==
    /\ call[c].at = "unauthorised"
    /\ IF Refreshable(call[c].with) THEN Move(c, "checked") ELSE Answer(c, "401")
    /\ UNCHANGED <<tokens, clock, jar, rough>>

(* ... revokes the refresh token it was given ... *)
RefreshRevoke(c) ==
    /\ call[c].at = "checked"
    /\ revoked' = revoked \cup {call[c].with}
    /\ Move(c, "revoked")
    /\ UNCHANGED <<issued, login, ended, overtaken, clock, jar, rough>>

\* Mutant: the answer carries a pair whose refresh token was never saved.
IssueUnsaved(c, stage, p) ==
    /\ issued < MaxPair
    /\ UNCHANGED <<issued, login>>
    /\ call' = [call EXCEPT ![c].at = stage, ![c].new = issued + 1]

\* The next pair is issued to call c, for the login of pair p or a new one.
Issue(c, stage, p) ==
    /\ issued < MaxPair
    /\ issued' = issued + 1
    /\ login' = [login EXCEPT ![issued + 1] = IF p = NoPair THEN issued + 1 ELSE login[p]]
    /\ call' = [call EXCEPT ![c].at = stage, ![c].new = issued + 1]

(* ... and issues the next pair, with which the call is attempted again. *)
RefreshIssue(c) ==
    /\ call[c].at = "revoked"
    /\ Issue(c, "issued", call[c].with)
    /\ UNCHANGED <<revoked, ended, overtaken, clock, jar, rough>>

(* revokeAllRefreshTokens, after the new password was saved. *)
RevokeAll(c) ==
    /\ call[c].at = "changed"
    /\ revoked' = 1..issued
    /\ ended' = ended \cup {login[p] : p \in 1..issued}
    /\ overtaken' = overtaken \cup {SessionOf(d) : d \in {e \in Call : call[e].at \in Refreshing}}
    /\ Answer(c, "done")
    /\ UNCHANGED <<issued, login, clock, jar, rough>>

(* logout of the API; a browser without a refresh token skips it. *)
Revoke(c) ==
    /\ call[c].at = "sent" /\ call[c].kind = "logout"
    /\ revoked' = revoked \cup ({call[c].with} \ {NoPair})
    /\ ended' = IF call[c].with # NoPair /\ call[c].browser \notin rough
                THEN ended \cup {SessionOf(c)} ELSE ended
    /\ Answer(c, "done")
    /\ UNCHANGED <<issued, login, overtaken, clock, jar, rough>>

(* login of the API, for the right password of an active account. *)
Login(c) ==
    /\ call[c].at = "sent" /\ call[c].kind = "login"
    /\ \/ active /\ Issue(c, "done", NoPair)
       \/ Answer(c, "401") /\ UNCHANGED <<issued, login>>
    /\ UNCHANGED <<revoked, ended, overtaken, clock, jar, rough>>

(* The API restarts or cannot be reached: fetch rejects.  The logout route *)
(* goes on, the others answer 500 and set no cookie.                       *)
Fail(c) ==
    /\ call[c].at \in Waiting
    /\ MayRoughen(call[c].browser)
    /\ call' = [call EXCEPT ![c].at = "done", ![c].with = NoPair, ![c].new = NoPair]
    /\ rough' = rough \cup {call[c].browser}
    /\ UNCHANGED <<tokens, clock, jar>>

(* The API answers with a 429 of its throttler, before anything is done,   *)
(* or with a 5xx.  To fetchApiCore a refresh so answered has failed,       *)
(* whatever its token is worth: the first 401 goes to the route.  The      *)
(* logout route goes on; the others hand the answer on, and a refreshed    *)
(* pair with it.  A refresh broken off after it has spent the token leaves *)
(* a bare route's browser with that token.                                 *)
TurnDown(c) ==
    /\ call[c].at \in Waiting
    /\ Answer(c, IF call[c].at \in Refreshing \cup {"unauthorised"} THEN "denied" ELSE "done")
    /\ IF call[c].at = "revoked" /\ call[c].kind = "bare"
       THEN MayRoughen(call[c].browser) /\ rough' = rough \cup {call[c].browser}
       ELSE UNCHANGED rough
    /\ UNCHANGED <<tokens, clock, jar>>

\* Mutant: the route answers but leaves the refreshed tokens out of the cookies.
CookiesAfterNoRotation(c) ==
    LET k == call[c].kind IN
    IF k = "logout" \/ (k \in Clearing /\ call[c].at \in {"401", "denied"}) THEN NoPair
    ELSE IF k = "login" /\ call[c].new # NoPair THEN call[c].new ELSE jar[call[c].browser]

\* Mutant: a refused login clears the cookies as well.
CookiesAfterRefusal(c) ==
    IF call[c].kind = "logout" \/ call[c].at \in {"401", "denied"} THEN NoPair
    ELSE IF call[c].new # NoPair THEN call[c].new ELSE jar[call[c].browser]

\* The cookies once the answer has arrived at the browser.
CookiesAfter(c) ==
    LET k == call[c].kind IN
    IF k = "logout" \/ (k \in Clearing /\ call[c].at \in {"401", "denied"}) THEN NoPair
    ELSE IF call[c].new # NoPair THEN call[c].new ELSE jar[call[c].browser]

\* A login that nothing else of the browser overlaps starts afresh.
Smoothed(c) ==
    call[c].kind = "login" /\ call[c].new # NoPair /\ Under(call[c].browser) = {c}

Deliver(c) ==
    /\ call[c].at \in Answered
    /\ jar' = [jar EXCEPT ![call[c].browser] = CookiesAfter(c)]
    /\ call' = [call EXCEPT ![c] = Idle]
    /\ rough' = IF Smoothed(c) THEN rough \ {call[c].browser} ELSE rough
    /\ UNCHANGED <<tokens, clock>>

(* The browser has closed the page, or the connection broke: no cookies. *)
Lose(c) ==
    /\ call[c].at \in Answered
    /\ MayRoughen(call[c].browser)
    /\ call' = [call EXCEPT ![c] = Idle]
    /\ rough' = rough \cup {call[c].browser}
    /\ UNCHANGED <<tokens, clock, jar>>

(* 15 minutes after its issue; a call is answered long before that. *)
Lapse ==
    /\ lapsed < issued
    /\ \A c \in Call : call[c] # Idle => call[c].new # lapsed + 1
    /\ lapsed' = lapsed + 1
    /\ UNCHANGED <<tokens, expired, active, jar, call, rough>>

(* REFRESH_TOKEN_TTL_DAYS after its issue. *)
Expire ==
    /\ expired < lapsed
    /\ expired' = expired + 1
    /\ UNCHANGED <<tokens, lapsed, active, jar, call, rough>>

(* The owner deactivates the staff account. *)
Suspend ==
    /\ active /\ active' = FALSE
    /\ UNCHANGED <<tokens, lapsed, expired, jar, call, rough>>

Next ==
    \/ \E c \in Call, b \in Browser, kind \in Kind : Send(c, b, kind)
    \/ \E c \in Call :
          \/ Attempt(c) \/ RefreshRead(c) \/ RefreshRevoke(c) \/ RefreshIssue(c)
          \/ RevokeAll(c) \/ Revoke(c) \/ Login(c)
          \/ Fail(c) \/ TurnDown(c) \/ Deliver(c) \/ Lose(c)
    \/ Lapse \/ Expire \/ Suspend

Spec == Init /\ [][Next]_vars

-----------------------------------------------------------------------------

Live(p) == p \in 1..issued /\ p \notin revoked

\* A session that a logout or a change of password has ended leaves no
\* refresh token that opens it again, unless a refresh of it had already been
\* checked at that moment.
SessionsStayEnded == \A p \in Pair : Live(p) => login[p] \notin ended \ overtaken

\* As the settings design has it, without that exception: a change of password
\* makes every device log in again.
PasswordChangeEndsAll == \A p \in Pair : Live(p) => login[p] \notin ended

\* A session that is over needs a new login.
Over(p) == p <= expired \/ login[p] \in ended \/ ~active

\* A browser whose calls never overlapped and whose answers all arrived keeps
\* a refresh token that still works: rotation never leaves it with a spent one.
JarIsUsable ==
    \A b \in Browser :
        jar[b] # NoPair /\ b \notin rough /\ Under(b) = {} => Over(jar[b]) \/ Live(jar[b])

\* In such a browser a change of the cookies that is no rotation is asked for
\* by the user or told by the session's end; `excused` are other sign-outs.
ChangesAreCaused(b, excused) ==
    jar'[b] # jar[b] =>
        \/ jar[b] # NoPair /\ jar'[b] # NoPair /\ login[jar[b]] = login[jar'[b]]
        \/ \E c \in Under(b) :
              /\ call'[c] = Idle
              /\ \/ jar'[b] # NoPair /\ call[c].kind = "login"
                 \/ jar'[b] = NoPair /\ call[c].kind = "logout"
                 \/ jar'[b] = NoPair /\ call[c].at \in excused /\ call[c].kind \in Clearing
        \/ jar'[b] = NoPair /\ Over(jar[b])

\* In such a browser the user is signed in only by a login and signed out only
\* by a logout, because the session is over, or by a call of a clearing route
\* whose refresh the API turned down: rotation itself signs nobody out, nor
\* does the refused login or the refused request of a bare route.
CookiesFollowTheUser == [][\A b \in Browser \ rough : ChangesAreCaused(b, {"denied"})]_vars

\* Without that exception: a live session outlives the throttler's 429 on its
\* refresh.  fetchApiCore takes every answer that is not ok for a refusal of
\* the token.
ThrottledStaysSignedIn == [][\A b \in Browser \ rough : ChangesAreCaused(b, {})]_vars
=============================================================================
