------------------------------ MODULE Accounts ------------------------------
(***************************************************************************)
(* AuthService, UsersService and StaffService of apps/api/src: the rows of *)
(* users from registration over verification and approval to suspension,   *)
(* and the tokens mailed for verification and for a new password.          *)
(*                                                                         *)
(* As in Venues, a request in progress is a record of what it has read,    *)
(* and save(user) writes the row that was read with the handler's change.  *)
(* Users are named by their email or, for staff, phone, which are unique.  *)
(***************************************************************************)
EXTENDS Integers, FiniteSets

CONSTANTS
    User,
    Process,        \* requests of users and owners that may be in progress together
    Admin,          \* approvals and rejections, likewise
    MaxPassword,    \* bound of the passwords chosen
    MaxReset,       \* bound of the mails with a link to a new password
    Mixes           \* what may happen in one behaviour: sets of the kinds below

Request == Process \cup Admin
Role == {"customer", "owner", "staff"}
UserStatus == {"pending_verification", "pending_approval", "active", "rejected", "suspended"}
NoPassword == 0
Reset == 1..MaxReset

Kind == {"register", "verify", "decide", "profile", "password", "forgot", "staff",
         "hour", "restart"}

ASSUME AccountsAssumption ==
    /\ MaxPassword \in Nat /\ MaxReset \in Nat
    /\ Process \cap Admin = {}
    /\ Mixes \subseteq SUBSET Kind

UserRow == [status: UserStatus \cup {"absent"}, role: Role, emailVerified: BOOLEAN,
            password: 0..MaxPassword]

VARIABLES
    user,           \* [User -> UserRow]
    verification,   \* [User -> state of its row of email_verification_tokens]
    reset,          \* [Reset -> row of password_reset_tokens]
    passwords,      \* how many were chosen; each is new
    session,        \* users who hold an access token
    mix,            \* the kinds of this behaviour; never changes
    request,        \* [Request -> progress]
    mailed,         \* history: users a verification link was mailed to
    verified,       \* history: users whose link was followed to the end
    approved,       \* history: owners an admin's approval was saved for
    resetsDone,     \* history: [Reset -> how often it set a password]
    alone,          \* history: no two requests overlapped so far
    whole           \* history: no restart cut a request short so far

tables == <<user, verification, reset, passwords>>
history == <<mailed, verified, approved, resetsDone>>
vars == <<tables, session, mix, request, history, alone, whole>>

Idle == [pc |-> "idle"]
Exists(u) == user[u].status # "absent"

Holding(pcs) == [pc: pcs, id: User, row: UserRow]
Progress ==
    {Idle}
    \cup [pc: {"insert"}, id: User, role: Role, password: 1..MaxPassword]
    \cup [pc: {"token", "verify", "deleteToken"}, id: User]
    \cup Holding({"verified", "approve", "reject", "profile", "suspend"})
    \cup [pc: {"newPassword"}, id: User, row: UserRow, password: 1..MaxPassword, by: 0..MaxReset]
    \cup [pc: {"reset"}, id: User, password: 1..MaxPassword, by: Reset]
    \cup [pc: {"markUsed"}, by: Reset]

\* Every column and every request in progress holds a value of its type.
TypeOK ==
    /\ user \in [User -> UserRow]
    /\ verification \in [User -> {"none", "live", "expired"}]
    /\ reset \in [Reset -> [state: {"unsent", "live", "expired", "used"}, user: User]]
    /\ passwords \in 0..MaxPassword
    /\ session \subseteq User
    /\ mix \in Mixes
    /\ request \in [Request -> Progress]
    /\ mailed \subseteq User /\ verified \subseteq User /\ approved \subseteq User
    /\ resetsDone \in [Reset -> Nat]
    /\ alone \in BOOLEAN /\ whole \in BOOLEAN

Init ==
    /\ \E u \in User :
        /\ user = [v \in User |-> [status |-> "absent", role |-> "customer",
                                   emailVerified |-> FALSE, password |-> NoPassword]]
        /\ reset = [t \in Reset |-> [state |-> "unsent", user |-> u]]
    /\ verification = [u \in User |-> "none"]
    /\ passwords = 0
    /\ session = {}
    /\ mix \in Mixes
    /\ request = [p \in Request |-> Idle]
    /\ mailed = {} /\ verified = {} /\ approved = {}
    /\ resetsDone = [t \in Reset |-> 0]
    /\ alone = TRUE /\ whole = TRUE

-----------------------------------------------------------------------------
(* Steps of a request: how it begins, goes on and ends.                    *)

Begin(p, kind, progress) ==
    /\ kind \in mix
    /\ request[p] = Idle
    /\ request' = [request EXCEPT ![p] = progress]
    /\ alone' = (alone /\ \A q \in Request : request[q] = Idle)
    /\ UNCHANGED <<user, verification, reset, session, mix, history, whole>>

\* A request that brings a new password.
BeginWithPassword(p, kind, progress) ==
    /\ passwords < MaxPassword
    /\ passwords' = passwords + 1
    /\ Begin(p, kind, progress)

Load(p, u, kind, pc) ==
    /\ Exists(u)
    /\ Begin(p, kind, [pc |-> pc, id |-> u, row |-> user[u]])
    /\ UNCHANGED passwords

At(p, pc) == request[p].pc = pc

GoTo(p, progress) ==
    /\ request' = [request EXCEPT ![p] = progress]
    /\ UNCHANGED <<passwords, session, mix, alone, whole>>

\* A step that only reads, or an exception that ends the request.
ReadOnly(p, progress) == GoTo(p, progress) /\ UNCHANGED <<user, verification, reset, history>>
Fail(p) == ReadOnly(p, Idle)

\* save(row) of the user p is about, which then goes on as next says.
Save(p, row, next) ==
    /\ user' = [user EXCEPT ![request[p].id] = row]
    /\ GoTo(p, next)
    /\ UNCHANGED <<verification, reset>>

-----------------------------------------------------------------------------
(* register, verifyEmail                                                   *)

\* register and staff create, up to the look-up of the email or the phone.
\* Staff are created by an owner.
CheckUnused(p, u, role) ==
    /\ ~ Exists(u)
    /\ BeginWithPassword(p, IF role = "staff" THEN "staff" ELSE "register",
                         [pc |-> "insert", id |-> u, role |-> role, password |-> passwords + 1])

\* A new row; staff are active at once.
NewUser(role, password) ==
    [status |-> IF role = "staff" THEN "active" ELSE "pending_verification",
     role |-> role, emailVerified |-> FALSE, password |-> password]

\* users.create: the unique indexes on email and phone let one of two in.
InsertUser(p) ==
    /\ At(p, "insert")
    /\ IF Exists(request[p].id)
       THEN Fail(p)
       ELSE /\ Save(p, NewUser(request[p].role, request[p].password),
                    IF request[p].role = "staff" THEN Idle
                    ELSE [pc |-> "token", id |-> request[p].id])
            /\ UNCHANGED history

\* register, its save of the token, and the mail.
InsertToken(p) ==
    /\ At(p, "token")
    /\ verification' = [verification EXCEPT ![request[p].id] = "live"]
    /\ mailed' = mailed \cup {request[p].id}
    /\ GoTo(p, Idle)
    /\ UNCHANGED <<user, reset, verified, approved, resetsDone>>

\* verifyEmail, up to its check of the token.
FindToken(p, u) ==
    /\ verification[u] # "none"
    /\ Begin(p, "verify", [pc |-> IF verification[u] = "live" THEN "verify" ELSE "deleteToken",
                           id |-> u])
    /\ UNCHANGED passwords

\* Mutant: the token is deleted before the user is saved.
LoadForVerifyDeleting(p) ==
    /\ At(p, "verify")
    /\ verification' = [verification EXCEPT ![request[p].id] = "none"]
    /\ GoTo(p, [pc |-> "verified", id |-> request[p].id, row |-> user[request[p].id]])
    /\ UNCHANGED <<user, reset, history>>

\* verifyEmail's read of the role and markVerified's read of the row.
LoadForVerify(p) ==
    /\ At(p, "verify")
    /\ ReadOnly(p, [pc |-> "verified", id |-> request[p].id, row |-> user[request[p].id]])

\* Mutant: owners need no approval.
ActiveOnceVerified(role) == "active"

\* verifyEmail, nextStatus.
StatusOnceVerified(role) == IF role = "owner" THEN "pending_approval" ELSE "active"

\* Mutant: the token is kept.
SaveVerifiedKeepToken(p) ==
    /\ At(p, "verified")
    /\ Save(p, [request[p].row EXCEPT !.emailVerified = TRUE,
                                      !.status = StatusOnceVerified(request[p].row.role)], Idle)
    /\ verified' = verified \cup {request[p].id}
    /\ UNCHANGED <<mailed, approved, resetsDone>>

\* markVerified, its save.
SaveVerified(p) ==
    /\ At(p, "verified")
    /\ Save(p, [request[p].row EXCEPT !.emailVerified = TRUE,
                                      !.status = StatusOnceVerified(request[p].row.role)],
            [pc |-> "deleteToken", id |-> request[p].id])
    /\ verified' = verified \cup {request[p].id}
    /\ UNCHANGED <<mailed, approved, resetsDone>>

\* verifyEmail deletes the token it used, or found expired.
DeleteToken(p) ==
    /\ At(p, "deleteToken")
    /\ verification' = [verification EXCEPT ![request[p].id] = "none"]
    /\ GoTo(p, Idle)
    /\ UNCHANGED <<user, reset, history>>

-----------------------------------------------------------------------------
(* approveOwner, rejectOwner: transitionOwnerStatus                        *)

\* Mutant: an owner who was decided about may be decided about again.
ReadAnyOwner(a, u) ==
    /\ user[u].role = "owner"
    /\ user[u].status # "pending_verification"
    /\ \E pc \in {"approve", "reject"} : Load(a, u, "decide", pc)

ReadPendingOwner(a, u) ==
    /\ user[u].role = "owner"
    /\ user[u].status = "pending_approval"
    /\ \E pc \in {"approve", "reject"} : Load(a, u, "decide", pc)

\* Mutant: the action is saved in place of the status.
DecisionAsVerb(a) == request[a].pc

Decision(a) == IF At(a, "approve") THEN "active" ELSE "rejected"

SaveDecision(a) ==
    /\ request[a].pc \in {"approve", "reject"}
    /\ Save(a, [request[a].row EXCEPT !.status = Decision(a)], Idle)
    /\ approved' = IF At(a, "approve") THEN approved \cup {request[a].id} ELSE approved
    /\ UNCHANGED <<mailed, verified, resetsDone>>

-----------------------------------------------------------------------------
(* Sign-in, profile, passwords                                             *)

\* login and every refresh ask for an active account; the access token lasts a
\* while whatever becomes of the account.
Login(u) ==
    /\ user[u].status = "active"
    /\ u \notin session
    /\ mix \cap {"profile", "password"} # {}
    /\ session' = session \cup {u}
    /\ UNCHANGED <<tables, mix, request, history, alone, whole>>

AccessTokenExpires(u) ==
    /\ u \in session
    /\ session' = session \ {u}
    /\ UNCHANGED <<tables, mix, request, history, alone, whole>>

\* updateProfile, up to its read; name, phone, avatar and address are no data here.
LoadForProfile(p, u) ==
    /\ u \in session
    /\ Load(p, u, "profile", "profile")

SaveProfile(p) ==
    /\ At(p, "profile")
    /\ Save(p, request[p].row, Idle)
    /\ UNCHANGED history

\* changePassword, and updatePassword up to its read of the row; by is the mail
\* that asked for the new password, 0 for none.
LoadForPassword(p, u) ==
    /\ u \in session
    /\ Exists(u)
    /\ BeginWithPassword(p, "password", [pc |-> "newPassword", id |-> u, row |-> user[u],
                                         password |-> passwords + 1, by |-> 0])

\* forgotPassword: its token and mail, whatever the status of the account.
ForgotPassword(u, t) ==
    /\ "forgot" \in mix
    /\ Exists(u)
    /\ reset[t].state = "unsent"
    /\ reset' = [reset EXCEPT ![t] = [state |-> "live", user |-> u]]
    /\ UNCHANGED <<user, verification, passwords, session, mix, request, history, alone, whole>>

\* resetPassword, up to its checks of the token.
FindReset(p, t) ==
    /\ reset[t].state = "live"
    /\ BeginWithPassword(p, "forgot", [pc |-> "reset", id |-> reset[t].user,
                                       password |-> passwords + 1, by |-> t])

\* updatePassword, its read of the row; the hash takes a while.
LoadForReset(p) ==
    /\ At(p, "reset")
    /\ ReadOnly(p, [pc |-> "newPassword", id |-> request[p].id, row |-> user[request[p].id],
                    password |-> request[p].password, by |-> request[p].by])

\* Mutant: resetPassword does not go on to mark the token used.
SavePasswordOnly(p) ==
    /\ At(p, "newPassword")
    /\ Save(p, [request[p].row EXCEPT !.password = request[p].password], Idle)
    /\ resetsDone' = [t \in Reset |-> resetsDone[t] + (IF t = request[p].by THEN 1 ELSE 0)]
    /\ UNCHANGED <<mailed, verified, approved>>

\* updatePassword and the staff resetPassword, their save.
SavePassword(p) ==
    /\ At(p, "newPassword")
    /\ Save(p, [request[p].row EXCEPT !.password = request[p].password],
            IF request[p].by = 0 THEN Idle ELSE [pc |-> "markUsed", by |-> request[p].by])
    /\ resetsDone' = [t \in Reset |-> resetsDone[t] + (IF t = request[p].by THEN 1 ELSE 0)]
    /\ UNCHANGED <<mailed, verified, approved>>

\* resetPassword, its save of the token.
MarkUsed(p) ==
    /\ At(p, "markUsed")
    /\ reset' = [reset EXCEPT ![request[p].by].state = "used"]
    /\ GoTo(p, Idle)
    /\ UNCHANGED <<user, verification, history>>

-----------------------------------------------------------------------------
(* Staff: update, deactivate, resetPassword, all by the owner              *)

LoadStaff(p, u) ==
    /\ user[u].role = "staff"
    /\ \/ \E pc \in {"profile", "suspend"} : Load(p, u, "staff", pc)
       \/ /\ Exists(u)
          /\ BeginWithPassword(p, "staff", [pc |-> "newPassword", id |-> u, row |-> user[u],
                                            password |-> passwords + 1, by |-> 0])

\* deactivate, its save.
SaveSuspended(p) ==
    /\ At(p, "suspend")
    /\ Save(p, [request[p].row EXCEPT !.status = "suspended"], Idle)
    /\ UNCHANGED history

-----------------------------------------------------------------------------
(* What happens around the requests *)

\* A day passes for a verification token, an hour for one of a new password.
Expire ==
    /\ "hour" \in mix
    /\ \/ \E u \in User :
            /\ verification[u] = "live"
            /\ verification' = [verification EXCEPT ![u] = "expired"]
            /\ UNCHANGED reset
       \/ \E t \in Reset :
            /\ reset[t].state = "live"
            /\ reset' = [reset EXCEPT ![t].state = "expired"]
            /\ UNCHANGED verification
    /\ UNCHANGED <<user, passwords, session, mix, request, history, alone, whole>>

\* The server restarts: requests in progress are gone.
Restart ==
    /\ "restart" \in mix
    /\ \E p \in Request : request[p] # Idle
    /\ request' = [p \in Request |-> Idle]
    /\ whole' = FALSE
    /\ UNCHANGED <<tables, session, mix, history, alone>>

UserStep(p) ==
    \/ \E u \in User :
        \/ \E role \in Role : CheckUnused(p, u, role)
        \/ FindToken(p, u)
        \/ LoadForProfile(p, u)
        \/ LoadForPassword(p, u)
        \/ LoadStaff(p, u)
    \/ \E t \in Reset : FindReset(p, t)
    \/ InsertUser(p) \/ InsertToken(p)
    \/ LoadForVerify(p) \/ SaveVerified(p) \/ DeleteToken(p)
    \/ SaveProfile(p)
    \/ LoadForReset(p) \/ SavePassword(p) \/ MarkUsed(p)
    \/ SaveSuspended(p)

AdminStep(a) ==
    \/ \E u \in User : ReadPendingOwner(a, u)
    \/ SaveDecision(a)

Next ==
    \/ \E p \in Process : UserStep(p)
    \/ \E a \in Admin : AdminStep(a)
    \/ \E u \in User : Login(u) \/ AccessTokenExpires(u) \/ \E t \in Reset : ForgotPassword(u, t)
    \/ Expire
    \/ Restart

Spec == Init /\ [][Next]_vars

-----------------------------------------------------------------------------
(* Properties *)

AllIdle == \A p \in Request : request[p] = Idle

\* Nobody who registers becomes active without following the link mailed to
\* them, nor an owner without an admin's approval, whatever stale rows profile
\* and password requests write back (markVerified, transitionOwnerStatus, save).
ActiveIsEarned ==
    \A u \in User : user[u].status = "active" /\ user[u].role # "staff" =>
        /\ u \in verified /\ user[u].emailVerified
        /\ user[u].role = "owner" => u \in approved

\* An approval, a rejection or a suspension is never undone while requests come
\* one at a time and none is cut short: a link followed twice must not put an
\* owner who was decided about back to pending_approval (verifyEmail).
DecisionsStand ==
    [][alone' /\ whole => \A u \in User :
        /\ user[u].role = "owner" /\ user[u].status \in {"active", "rejected"}
             => user'[u].status = user[u].status
        /\ user[u].status = "suspended" => user'[u].status = "suspended"]_vars

\* The link of one mail sets one password, while requests come one at a time
\* and none is cut short (resetPassword marks the token after the password).
LinkSetsOnePassword ==
    alone /\ whole => \A t \in Reset : resetsDone[t] <= 1

\* A link mailed to a new account works until the account is verified, through
\* any restarts, as long as it does not expire and requests come one at a time:
\* there is no other way to be verified (verifyEmail deletes the token last).
LinkWorksUntilVerified ==
    alone /\ "hour" \notin mix => \A u \in mailed :
        user[u].status = "pending_verification" => verification[u] = "live"
=============================================================================
