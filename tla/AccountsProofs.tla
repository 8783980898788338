--------------------------- MODULE AccountsProofs ---------------------------
(***************************************************************************)
(* Proofs about module Accounts for any users, any number of requests in   *)
(* progress together and any mixes of them.                                *)
(***************************************************************************)
EXTENDS Accounts, TLAPS

\* What a request holds at each of its steps.
LEMMA HeldTypes ==
    ASSUME TypeOK, NEW p \in Request
    PROVE  /\ request[p].pc \in {"insert", "token", "verify", "deleteToken", "verified", "approve",
                "reject", "profile", "suspend", "newPassword", "reset"}
                => request[p].id \in User
           /\ At(p, "insert") => request[p].role \in Role
           /\ request[p].pc \in {"insert", "newPassword", "reset"}
                => request[p].password \in 1..MaxPassword
           /\ request[p].pc \in {"verified", "approve", "reject", "profile", "suspend", "newPassword"}
                => request[p].row \in UserRow
           /\ At(p, "newPassword") => request[p].by \in 0..MaxReset
           /\ request[p].pc \in {"reset", "markUsed"} => request[p].by \in Reset
<1>1. request[p] \in Progress
  BY DEF TypeOK
<1> QED
  BY <1>1 DEF Progress, Holding, Idle, At, Reset

\* A step that leaves the request with a progress of its type.
LEMMA RequestTyped ==
    ASSUME TypeOK, NEW p, NEW progress \in Progress, request' = [request EXCEPT ![p] = progress]
    PROVE  request' \in [Request -> Progress]
BY DEF TypeOK

\* What the step of a request writes back is a row, and the rest of the types
\* follows.
LEMMA SaveTyped ==
    ASSUME TypeOK, NEW p \in Request, NEW row \in UserRow, NEW next \in Progress,
           request[p].id \in User, Save(p, row, next)
    PROVE  /\ user' \in [User -> UserRow]
           /\ request' \in [Request -> Progress]
           /\ UNCHANGED <<verification, reset, passwords, session, mix, alone, whole>>
<1>1. request' = [request EXCEPT ![p] = next]
  BY DEF Save, GoTo
<1> QED
  BY <1>1, RequestTyped DEF Save, GoTo, TypeOK

\* No step of a request, whatever row it read, breaks a type.
LEMMA UserStepTypes ==
    ASSUME TypeOK, NEW p \in Process, UserStep(p)
    PROVE  TypeOK'
<1>0. p \in Request /\ MaxPassword \in Nat /\ MaxReset \in Nat
  BY AccountsAssumption DEF Request
<1>i. Idle \in Progress
  BY DEF Progress
<1>1. ASSUME NEW u \in User, NEW role \in Role, CheckUnused(p, u, role) PROVE TypeOK'
  <2> DEFINE next == [pc |-> "insert", id |-> u, role |-> role, password |-> passwords + 1]
  <2>1. passwords + 1 \in 1..MaxPassword
    BY <1>1, <1>0 DEF CheckUnused, BeginWithPassword, TypeOK
  <2>2. next \in Progress
    BY <2>1 DEF Progress
  <2>3. request' = [request EXCEPT ![p] = next]
    BY <1>1 DEF CheckUnused, BeginWithPassword, Begin
  <2> HIDE DEF next
  <2>4. request' \in [Request -> Progress]
    BY <2>2, <2>3, RequestTyped
  <2> QED
    BY <1>1, <2>1, <2>4 DEF CheckUnused, BeginWithPassword, Begin, TypeOK, history
<1>2. ASSUME NEW u \in User, FindToken(p, u) PROVE TypeOK'
  <2> DEFINE next == [pc |-> IF verification[u] = "live" THEN "verify" ELSE "deleteToken", id |-> u]
  <2>1. next \in Progress
    BY DEF Progress
  <2>2. request' = [request EXCEPT ![p] = next]
    BY <1>2 DEF FindToken, Begin
  <2> HIDE DEF next
  <2>3. request' \in [Request -> Progress]
    BY <2>1, <2>2, RequestTyped
  <2> QED
    BY <1>2, <2>3 DEF FindToken, Begin, TypeOK, history
<1>3. ASSUME NEW u \in User, NEW kind, NEW pc \in {"approve", "reject", "profile", "suspend"},
             Load(p, u, kind, pc)
      PROVE  TypeOK'
  <2> DEFINE next == [pc |-> pc, id |-> u, row |-> user[u]]
  <2>1. next \in Progress
    BY DEF Progress, Holding, TypeOK
  <2>2. request' = [request EXCEPT ![p] = next]
    BY <1>3 DEF Load, Begin
  <2> HIDE DEF next
  <2>3. request' \in [Request -> Progress]
    BY <2>1, <2>2, RequestTyped
  <2> QED
    BY <1>3, <2>3 DEF Load, Begin, TypeOK, history
<1>4. ASSUME NEW u \in User, NEW kind,
             BeginWithPassword(p, kind, [pc |-> "newPassword", id |-> u, row |-> user[u],
                                         password |-> passwords + 1, by |-> 0])
      PROVE  TypeOK'
  <2> DEFINE next == [pc |-> "newPassword", id |-> u, row |-> user[u],
                      password |-> passwords + 1, by |-> 0]
  <2>1. passwords + 1 \in 1..MaxPassword
    BY <1>4, <1>0 DEF BeginWithPassword, TypeOK
  <2>2. next \in Progress
    BY <2>1, <1>0 DEF Progress, TypeOK
  <2>3. request' = [request EXCEPT ![p] = next]
    BY <1>4 DEF BeginWithPassword, Begin
  <2> HIDE DEF next
  <2>4. request' \in [Request -> Progress]
    BY <2>2, <2>3, RequestTyped
  <2> QED
    BY <1>4, <2>1, <2>4 DEF BeginWithPassword, Begin, TypeOK, history
<1>5. ASSUME NEW t \in Reset, FindReset(p, t) PROVE TypeOK'
  <2> DEFINE next == [pc |-> "reset", id |-> reset[t].user, password |-> passwords + 1, by |-> t]
  <2>1. passwords + 1 \in 1..MaxPassword
    BY <1>5, <1>0 DEF FindReset, BeginWithPassword, TypeOK
  <2>2. next \in Progress
    BY <2>1 DEF Progress, TypeOK
  <2>3. request' = [request EXCEPT ![p] = next]
    BY <1>5 DEF FindReset, BeginWithPassword, Begin
  <2> HIDE DEF next
  <2>4. request' \in [Request -> Progress]
    BY <2>2, <2>3, RequestTyped
  <2> QED
    BY <1>5, <2>1, <2>4 DEF FindReset, BeginWithPassword, Begin, TypeOK, history
<1>6. CASE InsertUser(p)
  <2>1. At(p, "insert") /\ request[p].id \in User /\ request[p].role \in Role
        /\ request[p].password \in 1..MaxPassword
    BY <1>6, <1>0, HeldTypes DEF InsertUser, At
  <2>2. CASE Exists(request[p].id)
    <3>1. request' \in [Request -> Progress]
      BY <1>6, <2>2, <1>i, RequestTyped DEF InsertUser, Fail, ReadOnly, GoTo
    <3> QED
      BY <1>6, <2>2, <3>1 DEF InsertUser, Fail, ReadOnly, GoTo, TypeOK, history
  <2>3. CASE ~ Exists(request[p].id)
    <3> DEFINE row == NewUser(request[p].role, request[p].password)
               next == IF request[p].role = "staff" THEN Idle
                       ELSE [pc |-> "token", id |-> request[p].id]
    <3>1. row \in UserRow
      BY <2>1, <1>0 DEF NewUser, UserRow, UserStatus
    <3>2. next \in Progress
      BY <2>1, <1>i DEF Progress
    <3>3. Save(p, row, next) /\ UNCHANGED history
      BY <1>6, <2>3 DEF InsertUser
    <3> HIDE DEF row, next
    <3> QED
      BY <1>0, <2>1, <3>1, <3>2, <3>3, SaveTyped DEF TypeOK, history
  <2> QED
    BY <2>2, <2>3
<1>7. CASE InsertToken(p) \/ DeleteToken(p)
  <2>1. request[p].id \in User
    BY <1>7, <1>0, HeldTypes DEF InsertToken, DeleteToken, At
  <2>2. request' \in [Request -> Progress]
    BY <1>7, <1>i, RequestTyped DEF InsertToken, DeleteToken, GoTo
  <2> QED
    BY <1>7, <2>1, <2>2 DEF InsertToken, DeleteToken, GoTo, TypeOK, history
<1>8. CASE LoadForVerify(p)
  <2> DEFINE next == [pc |-> "verified", id |-> request[p].id, row |-> user[request[p].id]]
  <2>1. request[p].id \in User
    BY <1>8, <1>0, HeldTypes DEF LoadForVerify, At
  <2>2. next \in Progress
    BY <2>1 DEF Progress, Holding, TypeOK
  <2>3. request' = [request EXCEPT ![p] = next]
    BY <1>8 DEF LoadForVerify, ReadOnly, GoTo
  <2> HIDE DEF next
  <2>4. request' \in [Request -> Progress]
    BY <2>2, <2>3, RequestTyped
  <2> QED
    BY <1>8, <2>4 DEF LoadForVerify, ReadOnly, GoTo, TypeOK, history
<1>9. CASE LoadForReset(p)
  <2> DEFINE next == [pc |-> "newPassword", id |-> request[p].id, row |-> user[request[p].id],
                      password |-> request[p].password, by |-> request[p].by]
  <2>1. request[p].id \in User /\ request[p].password \in 1..MaxPassword /\ request[p].by \in Reset
    BY <1>9, <1>0, HeldTypes DEF LoadForReset, At
  <2>2. next \in Progress
    BY <2>1, <1>0 DEF Progress, TypeOK, Reset
  <2>3. request' = [request EXCEPT ![p] = next]
    BY <1>9 DEF LoadForReset, ReadOnly, GoTo
  <2> HIDE DEF next
  <2>4. request' \in [Request -> Progress]
    BY <2>2, <2>3, RequestTyped
  <2> QED
    BY <1>9, <2>4 DEF LoadForReset, ReadOnly, GoTo, TypeOK, history
<1>10. CASE SaveVerified(p)
  <2> DEFINE row == [request[p].row EXCEPT !.emailVerified = TRUE,
                                           !.status = StatusOnceVerified(request[p].row.role)]
             next == [pc |-> "deleteToken", id |-> request[p].id]
  <2>1. request[p].id \in User /\ request[p].row \in UserRow
    BY <1>10, <1>0, HeldTypes DEF SaveVerified, At
  <2>2. row \in UserRow
    BY <2>1 DEF UserRow, UserStatus, StatusOnceVerified
  <2>3. next \in Progress
    BY <2>1 DEF Progress
  <2>4. Save(p, row, next)
    BY <1>10 DEF SaveVerified
  <2> HIDE DEF row, next
  <2> QED
    BY <1>10, <1>0, <2>1, <2>2, <2>3, <2>4, SaveTyped DEF SaveVerified, TypeOK
<1>11. CASE SaveProfile(p) \/ SaveSuspended(p)
  <2> DEFINE row == IF At(p, "profile") THEN request[p].row
                    ELSE [request[p].row EXCEPT !.status = "suspended"]
  <2>1. request[p].id \in User /\ request[p].row \in UserRow
    BY <1>11, <1>0, HeldTypes DEF SaveProfile, SaveSuspended, At
  <2>2. row \in UserRow
    BY <2>1 DEF UserRow, UserStatus
  <2>3. Save(p, row, Idle) /\ UNCHANGED history
    BY <1>11 DEF SaveProfile, SaveSuspended, At
  <2> HIDE DEF row
  <2> QED
    BY <1>0, <1>i, <2>1, <2>2, <2>3, SaveTyped DEF TypeOK, history
<1>12. CASE SavePassword(p)
  <2> DEFINE row == [request[p].row EXCEPT !.password = request[p].password]
             next == IF request[p].by = 0 THEN Idle ELSE [pc |-> "markUsed", by |-> request[p].by]
  <2>1. request[p].id \in User /\ request[p].row \in UserRow
        /\ request[p].password \in 1..MaxPassword /\ request[p].by \in 0..MaxReset
    BY <1>12, <1>0, HeldTypes DEF SavePassword, At
  <2>2. row \in UserRow
    BY <2>1, <1>0 DEF UserRow
  <2>3. next \in Progress
    BY <2>1, <1>0, <1>i DEF Progress, Reset
  <2>4. Save(p, row, next)
    BY <1>12 DEF SavePassword
  <2> HIDE DEF row, next
  <2>5. resetsDone' \in [Reset -> Nat]
    BY <1>12 DEF SavePassword, TypeOK
  <2> QED
    BY <1>12, <1>0, <2>1, <2>2, <2>3, <2>4, <2>5, SaveTyped DEF SavePassword, TypeOK
<1>13. CASE MarkUsed(p)
  <2>1. request[p].by \in Reset
    BY <1>13, <1>0, HeldTypes DEF MarkUsed, At
  <2>2. request' \in [Request -> Progress]
    BY <1>13, <1>i, RequestTyped DEF MarkUsed, GoTo
  <2> QED
    BY <1>13, <2>1, <2>2 DEF MarkUsed, GoTo, TypeOK, history
<1> QED
  BY <1>1, <1>2, <1>3, <1>4, <1>5, <1>6, <1>7, <1>8, <1>9, <1>10, <1>11, <1>12, <1>13
  DEF UserStep, LoadForProfile, LoadForPassword, LoadStaff

\* Decisions save rows that were read, too.
LEMMA AdminStepTypes ==
    ASSUME TypeOK, NEW a \in Admin, AdminStep(a)
    PROVE  TypeOK'
<1>0. a \in Request
  BY DEF Request
<1>1. ASSUME NEW u \in User, ReadPendingOwner(a, u) PROVE TypeOK'
  <2>1. PICK pc \in {"approve", "reject"} : Load(a, u, "decide", pc)
    BY <1>1 DEF ReadPendingOwner
  <2> DEFINE next == [pc |-> pc, id |-> u, row |-> user[u]]
  <2>2. next \in Progress
    BY DEF Progress, Holding, TypeOK
  <2>3. request' = [request EXCEPT ![a] = next]
    BY <2>1 DEF Load, Begin
  <2> HIDE DEF next
  <2>4. request' \in [Request -> Progress]
    BY <2>2, <2>3, RequestTyped
  <2> QED
    BY <2>1, <2>4 DEF Load, Begin, TypeOK, history
<1>2. CASE SaveDecision(a)
  <2> DEFINE row == [request[a].row EXCEPT !.status = Decision(a)]
  <2>1. request[a].id \in User /\ request[a].row \in UserRow
    BY <1>2, <1>0, HeldTypes DEF SaveDecision
  <2>2. row \in UserRow
    BY <2>1 DEF UserRow, UserStatus, Decision
  <2>3. Save(a, row, Idle)
    BY <1>2 DEF SaveDecision
  <2>4. Idle \in Progress
    BY DEF Progress
  <2> HIDE DEF row
  <2> QED
    BY <1>2, <1>0, <2>1, <2>2, <2>3, <2>4, SaveTyped DEF SaveDecision, TypeOK
<1> QED
  BY <1>1, <1>2 DEF AdminStep

\* Every save writes values of the columns' types, also one whose row was read
\* long before.
THEOREM AccountsTypeCorrect == Spec => []TypeOK
<1>1. Init => TypeOK
  BY AccountsAssumption DEF Init, TypeOK, UserRow, Role, UserStatus, NoPassword, Progress
<1>2. TypeOK /\ [Next]_vars => TypeOK'
  <2> SUFFICES ASSUME TypeOK, [Next]_vars PROVE TypeOK'
    OBVIOUS
  <2>1. ASSUME NEW u \in User, Login(u) \/ AccessTokenExpires(u) PROVE TypeOK'
    BY <2>1 DEF Login, AccessTokenExpires, TypeOK, tables, history
  <2>2. ASSUME NEW u \in User, NEW t \in Reset, ForgotPassword(u, t) PROVE TypeOK'
    BY <2>2 DEF ForgotPassword, TypeOK, history
  <2>3. CASE Expire
    BY <2>3 DEF Expire, TypeOK, history
  <2>4. CASE Restart
    BY <2>4 DEF Restart, TypeOK, tables, history, Progress
  <2>5. CASE UNCHANGED vars
    BY <2>5 DEF vars, TypeOK, tables, history
  <2> QED
    BY <2>1, <2>2, <2>3, <2>4, <2>5, UserStepTypes, AdminStepTypes DEF Next
<1> QED
  BY <1>1, <1>2, PTL DEF Spec

-----------------------------------------------------------------------------
\* What holds of a row of users, the one in the table or one read long ago:
\* since nobody takes back that a link was followed or an approval saved, a row
\* that was earned stays earned however old it is.
Earned(u, row, linked, accepted) ==
    row.role # "staff" =>
        /\ row.status \in {"active", "pending_approval"} => u \in linked /\ row.emailVerified
        /\ row.status = "active" /\ row.role = "owner" => u \in accepted

RowsAreEarned ==
    /\ \A u \in User : Earned(u, user[u], verified, approved)
    /\ \A p \in Request :
        /\ request[p].pc \in {"verified", "approve", "reject", "profile", "suspend", "newPassword"}
             => Earned(request[p].id, request[p].row, verified, approved)
        /\ request[p].pc \in {"approve", "reject"} => request[p].row.status = "pending_approval"

\* A step that saves an earned row, and does not go on with a row in hand.
LEMMA SaveKeepsEarned ==
    ASSUME TypeOK, RowsAreEarned, NEW p \in Request, NEW row \in UserRow, NEW next,
           Save(p, row, next), request[p].id \in User,
           next.pc \in {"idle", "token", "deleteToken", "markUsed"},
           Earned(request[p].id, row, verified', approved'), verified \subseteq verified', approved \subseteq approved'
    PROVE  RowsAreEarned'
<1>1. /\ user' = [user EXCEPT ![request[p].id] = row]
      /\ request' = [request EXCEPT ![p] = next]
  BY DEF Save, GoTo
<1>2. \A u \in User : Earned(u, user'[u], verified', approved')
  BY <1>1 DEF RowsAreEarned, Earned, TypeOK
<1>3. ASSUME NEW q \in Request
      PROVE  /\ request'[q].pc \in {"verified", "approve", "reject", "profile", "suspend", "newPassword"}
                  => Earned(request'[q].id, request'[q].row, verified', approved')
             /\ request'[q].pc \in {"approve", "reject"} => request'[q].row.status = "pending_approval"
  BY <1>1, <1>3 DEF RowsAreEarned, Earned, TypeOK
<1> QED
  BY <1>2, <1>3 DEF RowsAreEarned

\* A step that leaves the rows alone and takes at most the row of the table in
\* hand.
LEMMA LoadKeepsEarned ==
    ASSUME TypeOK, RowsAreEarned, NEW p \in Request, NEW next,
           request' = [request EXCEPT ![p] = next], UNCHANGED <<user, verified, approved>>,
           next.pc \in {"verified", "approve", "reject", "profile", "suspend", "newPassword"}
             => next.id \in User /\ next.row = user[next.id],
           next.pc \in {"approve", "reject"} => user[next.id].status = "pending_approval"
    PROVE  RowsAreEarned'
<1>1. \A u \in User : Earned(u, user'[u], verified', approved')
  BY DEF RowsAreEarned
<1>2. ASSUME NEW q \in Request
      PROVE  /\ request'[q].pc \in {"verified", "approve", "reject", "profile", "suspend", "newPassword"}
                  => Earned(request'[q].id, request'[q].row, verified', approved')
             /\ request'[q].pc \in {"approve", "reject"} => request'[q].row.status = "pending_approval"
  <2>1. CASE q = p
    <3>1. request'[q] = next
      BY <2>1 DEF TypeOK
    <3> QED
      BY <3>1 DEF RowsAreEarned
  <2>2. CASE q # p
    <3>1. request'[q] = request[q]
      BY <2>2 DEF TypeOK
    <3> QED
      BY <3>1 DEF RowsAreEarned
  <2> QED
    BY <2>1, <2>2
<1> QED
  BY <1>1, <1>2 DEF RowsAreEarned

\* A user's or an owner's request writes back what was earned.
LEMMA UserStepKeepsEarned ==
    ASSUME TypeOK, RowsAreEarned, NEW p \in Process, UserStep(p)
    PROVE  RowsAreEarned'
<1>0. p \in Request
  BY DEF Request
<1>1. ASSUME NEW u \in User, NEW role \in Role, CheckUnused(p, u, role) PROVE RowsAreEarned'
  <2> DEFINE next == [pc |-> "insert", id |-> u, role |-> role, password |-> passwords + 1]
  <2>1. next.pc = "insert" /\ request' = [request EXCEPT ![p] = next]
        /\ UNCHANGED <<user, verified, approved>>
    BY <1>1 DEF CheckUnused, BeginWithPassword, Begin, history
  <2> HIDE DEF next
  <2> QED
    BY <1>0, <2>1, LoadKeepsEarned
<1>2. ASSUME NEW u \in User, FindToken(p, u) PROVE RowsAreEarned'
  <2> DEFINE next == [pc |-> IF verification[u] = "live" THEN "verify" ELSE "deleteToken", id |-> u]
  <2>1. next.pc \in {"verify", "deleteToken"} /\ request' = [request EXCEPT ![p] = next]
        /\ UNCHANGED <<user, verified, approved>>
    BY <1>2 DEF FindToken, Begin, history
  <2> HIDE DEF next
  <2> QED
    BY <1>0, <2>1, LoadKeepsEarned
<1>3. ASSUME NEW u \in User, NEW kind, NEW pc \in {"profile", "suspend"}, Load(p, u, kind, pc)
      PROVE  RowsAreEarned'
  <2> DEFINE next == [pc |-> pc, id |-> u, row |-> user[u]]
  <2>1. next.pc \in {"profile", "suspend"} /\ next.id = u /\ next.row = user[u]
        /\ request' = [request EXCEPT ![p] = next] /\ UNCHANGED <<user, verified, approved>>
    BY <1>3 DEF Load, Begin, history
  <2> HIDE DEF next
  <2> QED
    BY <1>0, <2>1, LoadKeepsEarned
<1>4. ASSUME NEW u \in User, NEW kind,
             BeginWithPassword(p, kind, [pc |-> "newPassword", id |-> u, row |-> user[u],
                                         password |-> passwords + 1, by |-> 0])
      PROVE  RowsAreEarned'
  <2> DEFINE next == [pc |-> "newPassword", id |-> u, row |-> user[u],
                      password |-> passwords + 1, by |-> 0]
  <2>1. next.pc = "newPassword" /\ next.id = u /\ next.row = user[u]
        /\ request' = [request EXCEPT ![p] = next] /\ UNCHANGED <<user, verified, approved>>
    BY <1>4 DEF BeginWithPassword, Begin, history
  <2> HIDE DEF next
  <2> QED
    BY <1>0, <2>1, LoadKeepsEarned
<1>5. ASSUME NEW t \in Reset, FindReset(p, t) PROVE RowsAreEarned'
  <2> DEFINE next == [pc |-> "reset", id |-> reset[t].user, password |-> passwords + 1, by |-> t]
  <2>1. next.pc = "reset" /\ request' = [request EXCEPT ![p] = next]
        /\ UNCHANGED <<user, verified, approved>>
    BY <1>5 DEF FindReset, BeginWithPassword, Begin, history
  <2> HIDE DEF next
  <2> QED
    BY <1>0, <2>1, LoadKeepsEarned
<1>6. CASE InsertUser(p)
  <2>1. At(p, "insert") /\ request[p].id \in User /\ request[p].role \in Role
        /\ request[p].password \in 1..MaxPassword
    BY <1>6, <1>0, HeldTypes DEF InsertUser, At
  <2>2. CASE Exists(request[p].id)
    <3>1. Idle.pc = "idle" /\ request' = [request EXCEPT ![p] = Idle]
          /\ UNCHANGED <<user, verified, approved>>
      BY <1>6, <2>2 DEF InsertUser, Fail, ReadOnly, GoTo, history, Idle
    <3> QED
      BY <1>0, <3>1, LoadKeepsEarned
  <2>3. CASE ~ Exists(request[p].id)
    <3> DEFINE row == NewUser(request[p].role, request[p].password)
               next == IF request[p].role = "staff" THEN Idle
                       ELSE [pc |-> "token", id |-> request[p].id]
    <3>1. row \in UserRow
      BY <2>1, AccountsAssumption DEF NewUser, UserRow, UserStatus
    <3>2. next.pc \in {"idle", "token"}
      BY DEF Idle
    <3>3. Save(p, row, next) /\ UNCHANGED history
      BY <1>6, <2>3 DEF InsertUser
    <3>4. Earned(request[p].id, row, verified', approved')
      BY <3>3 DEF Earned, NewUser
    <3> HIDE DEF row, next
    <3> QED
      BY <1>0, <2>1, <3>1, <3>2, <3>3, <3>4, SaveKeepsEarned DEF history
  <2> QED
    BY <2>2, <2>3
<1>7. CASE InsertToken(p) \/ DeleteToken(p) \/ MarkUsed(p)
  <2>1. Idle.pc = "idle" /\ request' = [request EXCEPT ![p] = Idle]
        /\ UNCHANGED <<user, verified, approved>>
    BY <1>7 DEF InsertToken, DeleteToken, MarkUsed, GoTo, history, Idle
  <2> QED
    BY <1>0, <2>1, LoadKeepsEarned
<1>8. CASE LoadForVerify(p)
  <2> DEFINE next == [pc |-> "verified", id |-> request[p].id, row |-> user[request[p].id]]
  <2>1. request[p].id \in User
    BY <1>8, <1>0, HeldTypes DEF LoadForVerify, At
  <2>2. next.pc = "verified" /\ next.id \in User /\ next.row = user[next.id]
        /\ request' = [request EXCEPT ![p] = next] /\ UNCHANGED <<user, verified, approved>>
    BY <1>8, <2>1 DEF LoadForVerify, ReadOnly, GoTo, history
  <2> HIDE DEF next
  <2> QED
    BY <1>0, <2>2, LoadKeepsEarned
<1>9. CASE LoadForReset(p)
  <2> DEFINE next == [pc |-> "newPassword", id |-> request[p].id, row |-> user[request[p].id],
                      password |-> request[p].password, by |-> request[p].by]
  <2>1. request[p].id \in User
    BY <1>9, <1>0, HeldTypes DEF LoadForReset, At
  <2>2. next.pc = "newPassword" /\ next.id \in User /\ next.row = user[next.id]
        /\ request' = [request EXCEPT ![p] = next] /\ UNCHANGED <<user, verified, approved>>
    BY <1>9, <2>1 DEF LoadForReset, ReadOnly, GoTo, history
  <2> HIDE DEF next
  <2> QED
    BY <1>0, <2>2, LoadKeepsEarned
<1>10. CASE SaveVerified(p)
  <2> DEFINE row == [request[p].row EXCEPT !.emailVerified = TRUE,
                                           !.status = StatusOnceVerified(request[p].row.role)]
             next == [pc |-> "deleteToken", id |-> request[p].id]
  <2>1. request[p].id \in User /\ request[p].row \in UserRow
    BY <1>10, <1>0, HeldTypes DEF SaveVerified, At
  <2>2. row \in UserRow
    BY <2>1 DEF UserRow, UserStatus, StatusOnceVerified
  <2>3. Save(p, row, next) /\ next.pc = "deleteToken"
    BY <1>10 DEF SaveVerified
  <2>4. request[p].id \in verified' /\ verified \subseteq verified' /\ approved' = approved
    BY <1>10 DEF SaveVerified
  <2>5. row.emailVerified /\ (row.role = "owner" => row.status # "active")
    BY <2>1 DEF UserRow, StatusOnceVerified
  <2> HIDE DEF row, next
  <2>6. Earned(request[p].id, row, verified', approved')
    BY <2>4, <2>5 DEF Earned
  <2> QED
    BY <1>0, <2>1, <2>2, <2>3, <2>4, <2>6, SaveKeepsEarned
<1>11. CASE SaveProfile(p) \/ SaveSuspended(p)
  <2> DEFINE row == IF At(p, "profile") THEN request[p].row
                    ELSE [request[p].row EXCEPT !.status = "suspended"]
  <2>1. request[p].id \in User /\ request[p].row \in UserRow /\ Earned(request[p].id, request[p].row, verified, approved)
    BY <1>11, <1>0, HeldTypes DEF SaveProfile, SaveSuspended, At, RowsAreEarned
  <2>2. row \in UserRow /\ Earned(request[p].id, row, verified, approved)
    BY <2>1 DEF UserRow, UserStatus, Earned
  <2>3. Save(p, row, Idle) /\ UNCHANGED <<verified, approved>> /\ Idle.pc = "idle"
    BY <1>11 DEF SaveProfile, SaveSuspended, At, history, Idle
  <2> HIDE DEF row
  <2>4. Earned(request[p].id, row, verified', approved')
    BY <2>2, <2>3 DEF Earned
  <2> QED
    BY <1>0, <2>1, <2>2, <2>3, <2>4, SaveKeepsEarned
<1>12. CASE SavePassword(p)
  <2> DEFINE row == [request[p].row EXCEPT !.password = request[p].password]
             next == IF request[p].by = 0 THEN Idle ELSE [pc |-> "markUsed", by |-> request[p].by]
  <2>1. request[p].id \in User /\ request[p].row \in UserRow
        /\ request[p].password \in 1..MaxPassword /\ Earned(request[p].id, request[p].row, verified, approved)
    BY <1>12, <1>0, HeldTypes DEF SavePassword, At, RowsAreEarned
  <2>2. row \in UserRow /\ Earned(request[p].id, row, verified, approved)
    BY <2>1, AccountsAssumption DEF UserRow, Earned
  <2>3. Save(p, row, next) /\ UNCHANGED <<verified, approved>> /\ next.pc \in {"idle", "markUsed"}
    BY <1>12 DEF SavePassword, Idle
  <2> HIDE DEF row, next
  <2>4. Earned(request[p].id, row, verified', approved')
    BY <2>2, <2>3 DEF Earned
  <2> QED
    BY <1>0, <2>1, <2>2, <2>3, <2>4, SaveKeepsEarned
<1> QED
  BY <1>1, <1>2, <1>3, <1>4, <1>5, <1>6, <1>7, <1>8, <1>9, <1>10, <1>11, <1>12
  DEF UserStep, LoadForProfile, LoadForPassword, LoadStaff

\* A decision is about a row that was verified, and is recorded with it.
LEMMA AdminStepKeepsEarned ==
    ASSUME TypeOK, RowsAreEarned, NEW a \in Admin, AdminStep(a)
    PROVE  RowsAreEarned'
<1>0. a \in Request
  BY DEF Request
<1>1. ASSUME NEW u \in User, ReadPendingOwner(a, u) PROVE RowsAreEarned'
  <2>1. PICK pc \in {"approve", "reject"} : Load(a, u, "decide", pc)
    BY <1>1 DEF ReadPendingOwner
  <2> DEFINE next == [pc |-> pc, id |-> u, row |-> user[u]]
  <2>2. next.id = u /\ next.row = user[u] /\ user[u].status = "pending_approval"
        /\ request' = [request EXCEPT ![a] = next] /\ UNCHANGED <<user, verified, approved>>
    BY <1>1, <2>1 DEF ReadPendingOwner, Load, Begin, history
  <2> HIDE DEF next
  <2> QED
    BY <1>0, <2>2, LoadKeepsEarned
<1>2. CASE SaveDecision(a)
  <2> DEFINE row == [request[a].row EXCEPT !.status = Decision(a)]
  <2>1. request[a].id \in User /\ request[a].row \in UserRow /\ Earned(request[a].id, request[a].row, verified, approved)
        /\ request[a].row.status = "pending_approval"
    BY <1>2, <1>0, HeldTypes DEF SaveDecision, RowsAreEarned
  <2>2. row \in UserRow
    BY <2>1 DEF UserRow, UserStatus, Decision
  <2>3. Save(a, row, Idle) /\ Idle.pc = "idle" /\ verified' = verified /\ approved \subseteq approved'
    BY <1>2 DEF SaveDecision, Idle
  <2>4. row.status = "active" => request[a].id \in approved'
    BY <1>2, <2>1 DEF SaveDecision, Decision, UserRow
  <2>5. row.role = request[a].row.role /\ row.emailVerified = request[a].row.emailVerified
    BY <2>1 DEF UserRow
  <2>6. Earned(request[a].id, row, verified', approved')
    BY <2>1, <2>3, <2>4, <2>5 DEF Earned
  <2> HIDE DEF row
  <2> QED
    BY <1>0, <2>1, <2>2, <2>3, <2>6, SaveKeepsEarned
<1> QED
  BY <1>1, <1>2 DEF AdminStep

\* Nobody who registers is ever active without following the link mailed to
\* them, nor an owner without an admin's approval, whatever requests overlap.
THEOREM ActiveIsAlwaysEarned == Spec => []ActiveIsEarned
<1>1. Init => RowsAreEarned
  BY DEF Init, RowsAreEarned, Earned, Idle
<1>2. TypeOK /\ RowsAreEarned /\ [Next]_vars => RowsAreEarned'
  <2> SUFFICES ASSUME TypeOK, RowsAreEarned, [Next]_vars PROVE RowsAreEarned'
    OBVIOUS
  <2>1. ASSUME NEW u \in User, Login(u) \/ AccessTokenExpires(u) PROVE RowsAreEarned'
    BY <2>1 DEF Login, AccessTokenExpires, tables, history, RowsAreEarned, Earned
  <2>2. ASSUME NEW u \in User, NEW t \in Reset, ForgotPassword(u, t) PROVE RowsAreEarned'
    BY <2>2 DEF ForgotPassword, history, RowsAreEarned, Earned
  <2>3. CASE Expire
    BY <2>3 DEF Expire, history, RowsAreEarned, Earned
  <2>4. CASE Restart
    BY <2>4 DEF Restart, tables, history, RowsAreEarned, Earned, Idle
  <2>5. CASE UNCHANGED vars
    BY <2>5 DEF vars, tables, history, RowsAreEarned, Earned
  <2> QED
    BY <2>1, <2>2, <2>3, <2>4, <2>5, UserStepKeepsEarned, AdminStepKeepsEarned DEF Next
<1>3. RowsAreEarned => ActiveIsEarned
  BY DEF RowsAreEarned, Earned, ActiveIsEarned
<1> QED
  BY <1>1, <1>2, <1>3, AccountsTypeCorrect, PTL DEF Spec

-----------------------------------------------------------------------------
\* Requests that hold a row they will write back.
HoldsRow(p) ==
    request[p].pc \in {"verified", "approve", "reject", "profile", "suspend", "newPassword"}

\* What a request has read stays true of its row, whoever else is at work: rows
\* are never deleted, their role never changes, only staff are suspended, and a mail
\* that was sent stays sent.
RequestIsSound(p) ==
    /\ HoldsRow(p) =>
        /\ Exists(request[p].id) /\ request[p].row.status # "absent"
        /\ request[p].row.role = user[request[p].id].role
        /\ request[p].row.status = "suspended" => request[p].row.role = "staff"
    /\ request[p].pc \in {"token", "reset"} => Exists(request[p].id)
    /\ request[p].pc = "token" => user[request[p].id].role # "staff"
    /\ request[p].pc \in {"verify", "verified", "deleteToken"} => request[p].id \in mailed
    /\ request[p].pc \in {"approve", "reject"} =>
        request[p].row.role = "owner" /\ request[p].row.status = "pending_approval"
    /\ request[p].pc = "suspend" => request[p].row.role = "staff"
    /\ request[p].pc \in {"reset", "newPassword", "markUsed"} /\ request[p].by # 0
         => reset[request[p].by].state # "unsent"

RowIsSound(u) ==
    /\ user[u].status = "suspended" => user[u].role = "staff"
    /\ u \in mailed => Exists(u) /\ user[u].role # "staff"
    /\ verification[u] # "none" => u \in mailed

RolesStay ==
    /\ \A u \in User : RowIsSound(u)
    /\ \A t \in Reset : reset[t].state # "unsent" => Exists(reset[t].user)
    /\ \A p \in Request : RequestIsSound(p)

\* While requests come one at a time, a row in hand is the row of the table.
AloneIsCurrent ==
    alone => /\ \A p, q \in Request : request[p] # Idle /\ request[q] # Idle => p = q
             /\ \A p \in Request : HoldsRow(p) => request[p].row = user[request[p].id]

\* A verification token that is not expired yet or was not deleted is one of an
\* account still to be verified, but between the last two steps of verifyEmail.
TokensArePending ==
    alone /\ whole =>
        /\ \A u \in User : verification[u] # "none" =>
            \/ user[u].status = "pending_verification"
            \/ \E p \in Request : request[p].pc = "deleteToken" /\ request[p].id = u
        /\ \A p \in Request :
            /\ request[p].pc \in {"token", "verify", "verified"}
                 => user[request[p].id].status = "pending_verification"
            /\ request[p].pc \in {"verify", "verified"} => verification[request[p].id] # "none"

\* Without the day that lets a token expire, verifyEmail deletes only a token
\* that has done its work.
LinksAreLive ==
    alone /\ "hour" \notin mix =>
        /\ \A u \in User :
            /\ verification[u] # "expired"
            /\ u \in mailed /\ user[u].status = "pending_verification" => verification[u] = "live"
        /\ \A p \in Request : request[p].pc = "deleteToken"
             => user[request[p].id].status # "pending_verification"

\* A mail that set a password is spent, but between the last two steps of
\* resetPassword; one that a request is about has set none yet.
ResetsAreSpent ==
    alone /\ whole =>
        /\ \A t \in Reset :
            /\ resetsDone[t] <= 1
            /\ resetsDone[t] # 0 => reset[t].state # "unsent"
            /\ resetsDone[t] # 0 /\ reset[t].state = "live" =>
                \E p \in Request : request[p].pc = "markUsed" /\ request[p].by = t
        /\ \A p \in Request :
            request[p].pc \in {"reset", "newPassword"} /\ request[p].by # 0 =>
                resetsDone[request[p].by] = 0

AloneInvariant ==
    AloneIsCurrent /\ TokensArePending /\ LinksAreLive /\ ResetsAreSpent

\* The inductive invariant of the properties about requests that come one at a
\* time.
AccountsInvariant == TypeOK /\ RolesStay /\ AloneInvariant

\* What the step of a request does to the requests.
LEMMA NextRequest ==
    ASSUME TypeOK, NEW p \in Request, NEW next, request' = [request EXCEPT ![p] = next]
    PROVE  request'[p] = next /\ \A q \in Request : q # p => request'[q] = request[q]
BY DEF TypeOK

\* A save that leaves the role of a row alone, or inserts it, and goes on with
\* no row in hand.
LEMMA SaveKeepsRoles ==
    ASSUME TypeOK, RolesStay, NEW p \in Request, NEW row \in UserRow, NEW next,
           Save(p, row, next), request[p].id \in User, mailed' = mailed,
           row.status # "absent", row.status = "suspended" => row.role = "staff",
           Exists(request[p].id) => row.role = user[request[p].id].role,
           \/ next.pc = "idle"
           \/ At(p, "newPassword") /\ next.pc = "markUsed" /\ next.by = request[p].by
           \/ next.pc = "token" /\ next.id = request[p].id /\ row.role # "staff"
           \/ next.pc = "deleteToken" /\ next.id = request[p].id /\ request[p].id \in mailed
    PROVE  RolesStay'
<1> DEFINE id == request[p].id
<1>1. /\ user' = [user EXCEPT ![id] = row]
      /\ request' = [request EXCEPT ![p] = next]
      /\ UNCHANGED <<verification, reset>>
  BY DEF Save, GoTo
<1>2. user'[id] = row /\ \A u \in User : u # id => user'[u] = user[u]
  BY <1>1 DEF TypeOK
<1>3. \A u \in User : Exists(u) => user'[u].status # "absent" /\ user'[u].role = user[u].role
  BY <1>2 DEF Exists
<1> HIDE DEF id
<1>4. ASSUME NEW u \in User PROVE RowIsSound(u)'
  <2>1. CASE u = id
    <3>1. user'[u].status # "absent" /\ (user'[u].status = "suspended" => user'[u].role = "staff")
      BY <2>1, <1>2
    <3> QED
      BY <3>1, <1>1, <1>3 DEF RowIsSound, RolesStay, Exists
  <2>2. CASE u # id
    BY <2>2, <1>1, <1>2 DEF RowIsSound, RolesStay, Exists
  <2> QED
    BY <2>1, <2>2
<1>5. ASSUME NEW t \in Reset, reset'[t].state # "unsent" PROVE Exists(reset[t].user)'
  <2>1. reset[t].user \in User /\ Exists(reset[t].user)
    BY <1>1, <1>5 DEF RolesStay, TypeOK
  <2> QED
    BY <2>1, <1>1, <1>3 DEF Exists
<1>6. ASSUME NEW q \in Request PROVE RequestIsSound(q)'
  <2>1. CASE q = p
    <3>1. request'[q] = next
      BY <1>1, <2>1, NextRequest
    <3>2. At(p, "newPassword") /\ request[p].by # 0 => reset[request[p].by].state # "unsent"
      BY DEF RolesStay, RequestIsSound, At
    <3> QED
      BY <3>1, <3>2, <1>1, <1>2 DEF RequestIsSound, HoldsRow, Exists, id, At
  <2>2. CASE q # p
    <3>1. request'[q] = request[q]
      BY <1>1, <2>2, NextRequest
    <3>2. RequestIsSound(q)
      BY DEF RolesStay
    <3>3. request[q].pc \in {"insert", "token", "verify", "deleteToken", "verified", "approve",
            "reject", "profile", "suspend", "newPassword", "reset"} => request[q].id \in User
      BY HeldTypes
    <3> QED
      BY <3>1, <3>2, <3>3, <1>1, <1>3 DEF RequestIsSound, HoldsRow, Exists
  <2> QED
    BY <2>1, <2>2
<1> QED
  BY <1>4, <1>5, <1>6, <1>1 DEF RolesStay

\* A step that leaves the rows alone and takes at most the row of the table in
\* hand.
LEMMA LoadKeepsRoles ==
    ASSUME TypeOK, RolesStay, NEW p \in Request, NEW next,
           request' = [request EXCEPT ![p] = next], user' = user, mailed \subseteq mailed',
           \A u \in User : RowIsSound(u)',
           \A t \in Reset :
             /\ reset[t].state # "unsent" => reset'[t].state # "unsent"
             /\ reset'[t].state # "unsent" => Exists(reset'[t].user),
           next.pc \in {"verified", "approve", "reject", "profile", "suspend", "newPassword"}
             => next.id \in User /\ next.row = user[next.id] /\ Exists(next.id),
           next.pc = "reset" => Exists(next.id), next.pc # "token",
           next.pc \in {"verify", "verified", "deleteToken"} => next.id \in mailed,
           next.pc \in {"approve", "reject"} => next.row.role = "owner" /\ next.row.status = "pending_approval",
           next.pc = "suspend" => next.row.role = "staff",
           next.pc \in {"reset", "newPassword"} /\ next.by # 0
             => next.by \in Reset /\ reset[next.by].state # "unsent",
           next.pc # "markUsed"
    PROVE  RolesStay'
<1>1. \A t \in Reset : (reset[t].state # "unsent" => Exists(reset[t].user))'
  BY DEF Exists
<1>2. ASSUME NEW q \in Request PROVE RequestIsSound(q)'
  <2>1. CASE q = p
    <3>1. request'[q] = next
      BY <2>1, NextRequest
    <3>4. next.pc \in {"reset", "newPassword"} /\ next.by # 0 => reset'[next.by].state # "unsent"
      OBVIOUS
    <3>2. next.pc \in {"verified", "approve", "reject", "profile", "suspend", "newPassword"}
            => (next.row.status = "suspended" => next.row.role = "staff")
      BY DEF RolesStay, RowIsSound
    <3> QED
      BY <3>1, <3>2, <3>4 DEF RequestIsSound, HoldsRow, Exists
  <2>2. CASE q # p
    <3>1. request'[q] = request[q]
      BY <2>2, NextRequest
    <3>2. RequestIsSound(q)
      BY DEF RolesStay
    <3>3. request[q].pc \in {"reset", "newPassword", "markUsed"} /\ request[q].by # 0
            => request[q].by \in Reset
      BY HeldTypes, AccountsAssumption DEF At, Reset
    <3> QED
      BY <3>1, <3>2, <3>3 DEF RequestIsSound, HoldsRow, Exists
  <2> QED
    BY <2>1, <2>2
<1> QED
  BY <1>1, <1>2 DEF RolesStay

\* The same for a step that touches no table at all.
LEMMA ReadKeepsRoles ==
    ASSUME TypeOK, RolesStay, NEW p \in Request, NEW next,
           request' = [request EXCEPT ![p] = next], UNCHANGED <<user, verification, reset, mailed>>,
           next.pc \in {"verified", "approve", "reject", "profile", "suspend", "newPassword"}
             => next.id \in User /\ next.row = user[next.id] /\ Exists(next.id),
           next.pc = "reset" => Exists(next.id), next.pc # "token",
           next.pc \in {"verify", "verified", "deleteToken"} => next.id \in mailed,
           next.pc \in {"approve", "reject"} => next.row.role = "owner" /\ next.row.status = "pending_approval",
           next.pc = "suspend" => next.row.role = "staff",
           next.pc \in {"reset", "newPassword"} /\ next.by # 0
             => next.by \in Reset /\ reset[next.by].state # "unsent",
           next.pc # "markUsed"
    PROVE  RolesStay'
<1>1. \A u \in User : RowIsSound(u)'
  BY DEF RolesStay, RowIsSound, Exists
<1>2. \A t \in Reset :
        /\ reset[t].state # "unsent" => reset'[t].state # "unsent"
        /\ reset'[t].state # "unsent" => Exists(reset'[t].user)
  BY DEF RolesStay
<1> QED
  BY <1>1, <1>2, LoadKeepsRoles

\* No request of a user or an owner changes a role, deletes a row or suspends
\* anybody but staff.
LEMMA UserStepKeepsRoles ==
    ASSUME TypeOK, RolesStay, NEW p \in Process, UserStep(p)
    PROVE  RolesStay'
<1>0. p \in Request
  BY DEF Request
<1>s. RequestIsSound(p)
  BY <1>0 DEF RolesStay
<1>1. ASSUME NEW u \in User, NEW role \in Role, CheckUnused(p, u, role) PROVE RolesStay'
  <2> DEFINE next == [pc |-> "insert", id |-> u, role |-> role, password |-> passwords + 1]
  <2>1. next.pc = "insert" /\ request' = [request EXCEPT ![p] = next]
        /\ UNCHANGED <<user, verification, reset, mailed>>
    BY <1>1 DEF CheckUnused, BeginWithPassword, Begin, history
  <2> HIDE DEF next
  <2> QED
    BY <1>0, <2>1, ReadKeepsRoles
<1>2. ASSUME NEW u \in User, FindToken(p, u) PROVE RolesStay'
  <2> DEFINE next == [pc |-> IF verification[u] = "live" THEN "verify" ELSE "deleteToken", id |-> u]
  <2>1. next.pc \in {"verify", "deleteToken"} /\ next.id = u /\ request' = [request EXCEPT ![p] = next]
        /\ UNCHANGED <<user, verification, reset, mailed>>
    BY <1>2 DEF FindToken, Begin, history
  <2>2. u \in mailed
    BY <1>2 DEF FindToken, RolesStay, RowIsSound
  <2> HIDE DEF next
  <2> QED
    BY <1>0, <2>1, <2>2, ReadKeepsRoles
<1>3. ASSUME NEW u \in User, NEW kind, NEW pc \in {"profile", "suspend"}, Load(p, u, kind, pc),
             pc = "suspend" => user[u].role = "staff"
      PROVE  RolesStay'
  <2> DEFINE next == [pc |-> pc, id |-> u, row |-> user[u]]
  <2>1. next.pc = pc /\ next.id = u /\ next.row = user[u] /\ Exists(u)
        /\ request' = [request EXCEPT ![p] = next] /\ UNCHANGED <<user, verification, reset, mailed>>
    BY <1>3 DEF Load, Begin, history
  <2> HIDE DEF next
  <2> QED
    BY <1>0, <1>3, <2>1, ReadKeepsRoles
<1>4. ASSUME NEW u \in User, NEW kind, Exists(u),
             BeginWithPassword(p, kind, [pc |-> "newPassword", id |-> u, row |-> user[u],
                                         password |-> passwords + 1, by |-> 0])
      PROVE  RolesStay'
  <2> DEFINE next == [pc |-> "newPassword", id |-> u, row |-> user[u],
                      password |-> passwords + 1, by |-> 0]
  <2>1. next.pc = "newPassword" /\ next.id = u /\ next.row = user[u] /\ next.by = 0
        /\ request' = [request EXCEPT ![p] = next] /\ UNCHANGED <<user, verification, reset, mailed>>
    BY <1>4 DEF BeginWithPassword, Begin, history
  <2> HIDE DEF next
  <2> QED
    BY <1>0, <1>4, <2>1, ReadKeepsRoles
<1>5. ASSUME NEW t \in Reset, FindReset(p, t) PROVE RolesStay'
  <2> DEFINE next == [pc |-> "reset", id |-> reset[t].user, password |-> passwords + 1, by |-> t]
  <2>1. next.pc = "reset" /\ next.id = reset[t].user /\ next.by = t
        /\ request' = [request EXCEPT ![p] = next]
        /\ UNCHANGED <<user, verification, reset, mailed>>
    BY <1>5 DEF FindReset, BeginWithPassword, Begin, history
  <2>2. Exists(reset[t].user) /\ reset[t].state # "unsent"
    BY <1>5 DEF FindReset, RolesStay
  <2> HIDE DEF next
  <2> QED
    BY <1>0, <2>1, <2>2, ReadKeepsRoles
<1>6. CASE InsertUser(p)
  <2>1. At(p, "insert") /\ request[p].id \in User /\ request[p].role \in Role
        /\ request[p].password \in 1..MaxPassword
    BY <1>6, <1>0, HeldTypes DEF InsertUser, At
  <2>2. CASE Exists(request[p].id)
    <3>1. Idle.pc = "idle" /\ request' = [request EXCEPT ![p] = Idle]
          /\ UNCHANGED <<user, verification, reset, mailed>>
      BY <1>6, <2>2 DEF InsertUser, Fail, ReadOnly, GoTo, history, Idle
    <3> QED
      BY <1>0, <3>1, ReadKeepsRoles
  <2>3. CASE ~ Exists(request[p].id)
    <3> DEFINE row == NewUser(request[p].role, request[p].password)
               next == IF request[p].role = "staff" THEN Idle
                       ELSE [pc |-> "token", id |-> request[p].id]
    <3>1. row \in UserRow /\ row.status # "absent" /\ row.status # "suspended"
          /\ row.role = request[p].role
      BY <2>1, AccountsAssumption DEF NewUser, UserRow, UserStatus
    <3>2. \/ next.pc = "idle"
          \/ next.pc = "token" /\ next.id = request[p].id /\ request[p].role # "staff"
      BY DEF Idle
    <3>3. Save(p, row, next) /\ mailed' = mailed
      BY <1>6, <2>3 DEF InsertUser, history
    <3> HIDE DEF row, next
    <3> QED
      BY <1>0, <2>1, <2>3, <3>1, <3>2, <3>3, SaveKeepsRoles
  <2> QED
    BY <2>2, <2>3
<1>7. CASE InsertToken(p) \/ DeleteToken(p) \/ MarkUsed(p)
  <2>1. Idle.pc = "idle" /\ request' = [request EXCEPT ![p] = Idle]
        /\ user' = user /\ mailed \subseteq mailed'
    BY <1>7 DEF InsertToken, DeleteToken, MarkUsed, GoTo, history, Idle
  <2>2. ASSUME NEW u \in User PROVE RowIsSound(u)'
    <3>1. CASE InsertToken(p)
      <4>1. request[p].id \in User /\ Exists(request[p].id) /\ user[request[p].id].role # "staff"
        BY <3>1, <1>0, <1>s, HeldTypes DEF InsertToken, At, RequestIsSound
      <4>2. user' = user /\ mailed' = mailed \cup {request[p].id}
            /\ verification' = [verification EXCEPT ![request[p].id] = "live"]
        BY <3>1 DEF InsertToken
      <4>3. verification'[u] # "none" => u \in mailed'
        BY <4>1, <4>2 DEF RolesStay, RowIsSound, TypeOK
      <4> QED
        BY <4>1, <4>2, <4>3 DEF RolesStay, RowIsSound, Exists
    <3>2. CASE DeleteToken(p)
      <4>1. user' = user /\ mailed' = mailed
            /\ verification' = [verification EXCEPT ![request[p].id] = "none"]
        BY <3>2 DEF DeleteToken, history
      <4>2. verification'[u] # "none" => verification[u] # "none"
        BY <4>1 DEF TypeOK
      <4> QED
        BY <4>1, <4>2 DEF RolesStay, RowIsSound, Exists
    <3>3. CASE MarkUsed(p)
      BY <3>3 DEF MarkUsed, history, RolesStay, RowIsSound, Exists
    <3> QED
      BY <1>7, <3>1, <3>2, <3>3
  <2>3. ASSUME NEW t \in Reset, reset'[t].state # "unsent" PROVE Exists(reset'[t].user)
    <3>1. CASE reset' = reset
      BY <2>3, <3>1 DEF RolesStay
    <3>2. CASE MarkUsed(p)
      <4>1. request[p].by \in Reset /\ request[p].by # 0
        BY <3>2, <1>0, HeldTypes DEF MarkUsed, At, Reset
      <4>2. reset[request[p].by].state # "unsent"
        BY <4>1, <3>2, <1>s DEF MarkUsed, At, RequestIsSound
      <4> QED
        BY <4>1, <4>2, <2>3, <3>2 DEF MarkUsed, RolesStay, TypeOK
    <3> QED
      BY <1>7, <3>1, <3>2 DEF InsertToken, DeleteToken
  <2>4. ASSUME NEW t \in Reset, reset[t].state # "unsent" PROVE reset'[t].state # "unsent"
    BY <2>4, <1>7 DEF InsertToken, DeleteToken, MarkUsed, TypeOK
  <2> QED
    BY <1>0, <2>1, <2>2, <2>3, <2>4, LoadKeepsRoles
<1>8. CASE LoadForVerify(p)
  <2> DEFINE next == [pc |-> "verified", id |-> request[p].id, row |-> user[request[p].id]]
  <2>1. request[p].id \in User /\ request[p].id \in mailed
    BY <1>8, <1>0, <1>s, HeldTypes DEF LoadForVerify, At, RequestIsSound
  <2>2. next.pc = "verified" /\ next.id = request[p].id /\ next.row = user[next.id]
        /\ request' = [request EXCEPT ![p] = next] /\ UNCHANGED <<user, verification, reset, mailed>>
    BY <1>8, <2>1 DEF LoadForVerify, ReadOnly, GoTo, history
  <2>3. Exists(request[p].id)
    BY <2>1 DEF RolesStay, RowIsSound
  <2> HIDE DEF next
  <2> QED
    BY <1>0, <2>1, <2>2, <2>3, ReadKeepsRoles
<1>9. CASE LoadForReset(p)
  <2> DEFINE next == [pc |-> "newPassword", id |-> request[p].id, row |-> user[request[p].id],
                      password |-> request[p].password, by |-> request[p].by]
  <2>1. request[p].id \in User /\ Exists(request[p].id) /\ request[p].by \in Reset
        /\ (request[p].by # 0 => reset[request[p].by].state # "unsent")
    BY <1>9, <1>0, <1>s, HeldTypes DEF LoadForReset, At, RequestIsSound
  <2>2. next.pc = "newPassword" /\ next.by = request[p].by /\ next.id = request[p].id /\ next.row = user[next.id]
        /\ request' = [request EXCEPT ![p] = next] /\ UNCHANGED <<user, verification, reset, mailed>>
    BY <1>9, <2>1 DEF LoadForReset, ReadOnly, GoTo, history
  <2> HIDE DEF next
  <2> QED
    BY <1>0, <2>1, <2>2, ReadKeepsRoles
<1>10. CASE SaveVerified(p)
  <2> DEFINE row == [request[p].row EXCEPT !.emailVerified = TRUE,
                                           !.status = StatusOnceVerified(request[p].row.role)]
             next == [pc |-> "deleteToken", id |-> request[p].id]
  <2>1. request[p].id \in User /\ request[p].row \in UserRow /\ request[p].id \in mailed
        /\ request[p].row.role = user[request[p].id].role
    BY <1>10, <1>0, <1>s, HeldTypes DEF SaveVerified, At, RequestIsSound, HoldsRow
  <2>2. row \in UserRow /\ row.status \in {"active", "pending_approval"} /\ row.role = request[p].row.role
    BY <2>1 DEF UserRow, UserStatus, StatusOnceVerified
  <2>3. Save(p, row, next) /\ next.pc = "deleteToken" /\ next.id = request[p].id /\ mailed' = mailed
    BY <1>10 DEF SaveVerified
  <2> HIDE DEF row, next
  <2> QED
    BY <1>0, <2>1, <2>2, <2>3, SaveKeepsRoles
<1>11. CASE SaveProfile(p) \/ SaveSuspended(p) \/ SavePassword(p)
  <2> DEFINE row == IF At(p, "profile") THEN request[p].row
                    ELSE IF At(p, "suspend") THEN [request[p].row EXCEPT !.status = "suspended"]
                    ELSE [request[p].row EXCEPT !.password = request[p].password]
             next == IF At(p, "newPassword") /\ request[p].by # 0
                     THEN [pc |-> "markUsed", by |-> request[p].by] ELSE Idle
  <2>1. /\ request[p].id \in User /\ request[p].row \in UserRow
        /\ At(p, "newPassword") => request[p].password \in 0..MaxPassword
        /\ request[p].row.role = user[request[p].id].role /\ request[p].row.status # "absent"
        /\ request[p].row.status = "suspended" => request[p].row.role = "staff"
        /\ At(p, "suspend") => request[p].row.role = "staff"
        /\ request[p].pc \in {"profile", "suspend", "newPassword"}
    BY <1>11, <1>0, <1>s, HeldTypes, AccountsAssumption
    DEF SaveProfile, SaveSuspended, SavePassword, At, RequestIsSound, HoldsRow
  <2>2. /\ row \in UserRow /\ row.role = request[p].row.role /\ row.status # "absent"
        /\ row.status = "suspended" => row.role = "staff"
    BY <2>1 DEF UserRow, UserStatus, At
  <2>3. next.pc = "idle" \/ (At(p, "newPassword") /\ next.pc = "markUsed" /\ next.by = request[p].by)
    BY DEF Idle
  <2>4. Save(p, row, next) /\ mailed' = mailed
    BY <1>11, <2>1 DEF SaveProfile, SaveSuspended, SavePassword, At, history
  <2> HIDE DEF row, next
  <2> QED
    BY <1>0, <2>1, <2>2, <2>3, <2>4, SaveKeepsRoles
<1> QED
  BY <1>1, <1>2, <1>3, <1>4, <1>5, <1>6, <1>7, <1>8, <1>9, <1>10, <1>11
  DEF UserStep, LoadForProfile, LoadForPassword, LoadStaff

\* Nor does a decision of an admin.
LEMMA AdminStepKeepsRoles ==
    ASSUME TypeOK, RolesStay, NEW a \in Admin, AdminStep(a)
    PROVE  RolesStay'
<1>0. a \in Request
  BY DEF Request
<1>1. ASSUME NEW u \in User, ReadPendingOwner(a, u) PROVE RolesStay'
  <2>1. PICK pc \in {"approve", "reject"} : Load(a, u, "decide", pc)
    BY <1>1 DEF ReadPendingOwner
  <2> DEFINE next == [pc |-> pc, id |-> u, row |-> user[u]]
  <2>2. next.pc = pc /\ next.id = u /\ next.row = user[u] /\ Exists(u)
        /\ user[u].status = "pending_approval" /\ user[u].role = "owner"
        /\ request' = [request EXCEPT ![a] = next] /\ UNCHANGED <<user, verification, reset, mailed>>
    BY <1>1, <2>1 DEF ReadPendingOwner, Load, Begin, history
  <2> HIDE DEF next
  <2> QED
    BY <1>0, <2>2, ReadKeepsRoles
<1>2. CASE SaveDecision(a)
  <2> DEFINE row == [request[a].row EXCEPT !.status = Decision(a)]
  <2>1. RequestIsSound(a)
    BY <1>0 DEF RolesStay
  <2>2. request[a].id \in User /\ request[a].row \in UserRow
        /\ request[a].row.role = user[request[a].id].role
    BY <1>2, <1>0, <2>1, HeldTypes DEF SaveDecision, RequestIsSound, HoldsRow
  <2>3. row \in UserRow /\ row.status \in {"active", "rejected"} /\ row.role = request[a].row.role
    BY <2>2 DEF UserRow, UserStatus, Decision
  <2>4. Save(a, row, Idle) /\ Idle.pc = "idle" /\ mailed' = mailed
    BY <1>2 DEF SaveDecision, Idle
  <2> HIDE DEF row
  <2> QED
    BY <1>0, <2>2, <2>3, <2>4, SaveKeepsRoles
<1> QED
  BY <1>1, <1>2 DEF AdminStep

\* RolesStay is inductive given the types.
LEMMA RolesStep ==
    ASSUME TypeOK, RolesStay, [Next]_vars
    PROVE  RolesStay'
<1>1. ASSUME NEW u \in User, Login(u) \/ AccessTokenExpires(u) PROVE RolesStay'
  BY <1>1 DEF Login, AccessTokenExpires, tables, history, RolesStay, RowIsSound, RequestIsSound, HoldsRow, Exists
<1>2. ASSUME NEW u \in User, NEW t \in Reset, ForgotPassword(u, t) PROVE RolesStay'
  <2>1. /\ UNCHANGED <<user, verification, mailed, request>>
        /\ reset' = [reset EXCEPT ![t] = [state |-> "live", user |-> u]] /\ Exists(u)
    BY <1>2 DEF ForgotPassword, history
  <2>2. ASSUME NEW s \in Reset, reset'[s].state # "unsent" PROVE Exists(reset[s].user)'
    BY <2>1, <2>2 DEF RolesStay, TypeOK, Exists
  <2>3. \A v \in User : RowIsSound(v)'
    BY <2>1 DEF RolesStay, RowIsSound, Exists
  <2>5. \A s \in Reset : reset[s].state # "unsent" => reset'[s].state # "unsent"
    BY <2>1 DEF TypeOK
  <2>4. ASSUME NEW p \in Request PROVE RequestIsSound(p)'
    <3>1. request[p].pc \in {"reset", "newPassword", "markUsed"} /\ request[p].by # 0
            => request[p].by \in Reset
      BY HeldTypes, AccountsAssumption DEF At, Reset
    <3> QED
      BY <2>1, <2>5, <3>1 DEF RolesStay, RequestIsSound, HoldsRow, Exists
  <2> QED
    BY <2>2, <2>3, <2>4 DEF RolesStay
<1>3. CASE Expire
  <2>1. UNCHANGED <<user, mailed, request>>
    BY <1>3 DEF Expire, history
  <2>2. ASSUME NEW s \in Reset, reset'[s].state # "unsent" PROVE Exists(reset[s].user)'
    BY <1>3, <2>1, <2>2 DEF Expire, RolesStay, TypeOK, Exists
  <2>3. ASSUME NEW v \in User PROVE RowIsSound(v)'
    <3>1. verification'[v] # "none" => verification[v] # "none"
      BY <1>3 DEF Expire, TypeOK
    <3> QED
      BY <2>1, <3>1 DEF RolesStay, RowIsSound, Exists
  <2>5. \A s \in Reset : reset[s].state # "unsent" => reset'[s].state # "unsent"
    BY <1>3 DEF Expire, TypeOK
  <2>4. ASSUME NEW p \in Request PROVE RequestIsSound(p)'
    <3>1. request[p].pc \in {"reset", "newPassword", "markUsed"} /\ request[p].by # 0
            => request[p].by \in Reset
      BY HeldTypes, AccountsAssumption DEF At, Reset
    <3> QED
      BY <2>1, <2>5, <3>1 DEF RolesStay, RequestIsSound, HoldsRow, Exists
  <2> QED
    BY <2>2, <2>3, <2>4 DEF RolesStay
<1>4. CASE Restart
  <2>1. UNCHANGED <<user, verification, reset, mailed>> /\ request' = [p \in Request |-> Idle]
    BY <1>4 DEF Restart, tables, history
  <2>2. \A p \in Request : RequestIsSound(p)'
    BY <2>1 DEF RequestIsSound, HoldsRow, Idle
  <2> QED
    BY <2>1, <2>2 DEF RolesStay, RowIsSound, Exists
<1>5. CASE UNCHANGED vars
  BY <1>5 DEF vars, tables, history, RolesStay, RowIsSound, RequestIsSound, HoldsRow, Exists
<1> QED
  BY <1>1, <1>2, <1>3, <1>4, <1>5, UserStepKeepsRoles, AdminStepKeepsRoles DEF Next

\* While requests come one at a time, the one that takes a step is the only one.
LEMMA TheOthersAreIdle ==
    ASSUME TypeOK, AloneIsCurrent, alone, NEW p \in Request, NEW next, request[p] # Idle,
           request' = [request EXCEPT ![p] = next]
    PROVE  /\ request'[p] = next
           /\ \A q \in Request : q # p => request[q] = Idle /\ request'[q] = Idle
BY NextRequest DEF AloneIsCurrent

\* What one request in progress has to satisfy for the invariant to hold.
LEMMA OneInProgress ==
    ASSUME NEW p \in Request, NEW next,
           request'[p] = next, \A q \in Request : q # p => request'[q] = Idle,
           next.pc \in {"verified", "approve", "reject", "profile", "suspend", "newPassword"}
             => next.row = user'[next.id],
           whole' =>
             /\ \A u \in User : verification'[u] # "none" =>
                  \/ user'[u].status = "pending_verification"
                  \/ next.pc = "deleteToken" /\ next.id = u
             /\ next.pc \in {"token", "verify", "verified"}
                  => user'[next.id].status = "pending_verification"
             /\ next.pc \in {"verify", "verified"} => verification'[next.id] # "none",
           "hour" \notin mix' =>
             /\ \A u \in User :
                 /\ verification'[u] # "expired"
                 /\ u \in mailed' /\ user'[u].status = "pending_verification"
                      => verification'[u] = "live"
             /\ next.pc = "deleteToken" => user'[next.id].status # "pending_verification",
           whole' =>
             /\ \A t \in Reset :
                 /\ resetsDone'[t] <= 1
                 /\ resetsDone'[t] # 0 => reset'[t].state # "unsent"
                 /\ resetsDone'[t] # 0 /\ reset'[t].state = "live"
                      => next.pc = "markUsed" /\ next.by = t
             /\ next.pc \in {"reset", "newPassword"} /\ next.by # 0 => resetsDone'[next.by] = 0
    PROVE  AloneInvariant'
<1>0. Idle.pc = "idle"
  BY DEF Idle
<1>1. AloneIsCurrent'
  BY <1>0 DEF AloneIsCurrent, HoldsRow
<1>2. TokensArePending'
  BY <1>0 DEF TokensArePending
<1>3. LinksAreLive'
  BY <1>0 DEF LinksAreLive
<1>4. ResetsAreSpent'
  BY <1>0 DEF ResetsAreSpent
<1> QED
  BY <1>1, <1>2, <1>3, <1>4 DEF AloneInvariant

\* What the invariant says while p is the only request in progress.
LEMMA OneWasInProgress ==
    ASSUME AloneInvariant, alone, NEW p \in Request,
           \A q \in Request : q # p => request[q] = Idle
    PROVE  /\ HoldsRow(p) => request[p].row = user[request[p].id]
           /\ whole =>
             /\ \A u \in User : verification[u] # "none" =>
                  \/ user[u].status = "pending_verification"
                  \/ At(p, "deleteToken") /\ request[p].id = u
             /\ request[p].pc \in {"token", "verify", "verified"}
                  => user[request[p].id].status = "pending_verification"
             /\ request[p].pc \in {"verify", "verified"} => verification[request[p].id] # "none"
           /\ "hour" \notin mix =>
             /\ \A u \in User :
                 /\ verification[u] # "expired"
                 /\ u \in mailed /\ user[u].status = "pending_verification"
                      => verification[u] = "live"
             /\ At(p, "deleteToken") => user[request[p].id].status # "pending_verification"
           /\ whole =>
             /\ \A t \in Reset :
                 /\ resetsDone[t] <= 1
                 /\ resetsDone[t] # 0 => reset[t].state # "unsent"
                 /\ resetsDone[t] # 0 /\ reset[t].state = "live"
                      => At(p, "markUsed") /\ request[p].by = t
             /\ request[p].pc \in {"reset", "newPassword"} /\ request[p].by # 0
                  => resetsDone[request[p].by] = 0
<1>0. Idle.pc = "idle"
  BY DEF Idle
<1>1. HoldsRow(p) => request[p].row = user[request[p].id]
  BY DEF AloneInvariant, AloneIsCurrent
<1>2. whole =>
             /\ \A u \in User : verification[u] # "none" =>
                  \/ user[u].status = "pending_verification"
                  \/ At(p, "deleteToken") /\ request[p].id = u
             /\ request[p].pc \in {"token", "verify", "verified"}
                  => user[request[p].id].status = "pending_verification"
             /\ request[p].pc \in {"verify", "verified"} => verification[request[p].id] # "none"
  BY <1>0 DEF AloneInvariant, TokensArePending, At
<1>3. "hour" \notin mix =>
             /\ \A u \in User :
                 /\ verification[u] # "expired"
                 /\ u \in mailed /\ user[u].status = "pending_verification"
                      => verification[u] = "live"
             /\ At(p, "deleteToken") => user[request[p].id].status # "pending_verification"
  BY DEF AloneInvariant, LinksAreLive, At
<1>4. whole =>
             /\ \A t \in Reset :
                 /\ resetsDone[t] <= 1
                 /\ resetsDone[t] # 0 => reset[t].state # "unsent"
                 /\ resetsDone[t] # 0 /\ reset[t].state = "live"
                      => At(p, "markUsed") /\ request[p].by = t
             /\ request[p].pc \in {"reset", "newPassword"} /\ request[p].by # 0
                  => resetsDone[request[p].by] = 0
  BY <1>0 DEF AloneInvariant, ResetsAreSpent, At
<1> QED
  BY <1>1, <1>2, <1>3, <1>4

\* A request begins: nobody else is in progress, or requests overlap from now on.
LEMMA BeginKeepsAlone ==
    ASSUME TypeOK, AloneInvariant, NEW p \in Request, NEW kind, NEW next, Begin(p, kind, next),
           next.pc \in {"insert", "verify", "deleteToken", "approve", "reject", "profile",
                        "suspend", "newPassword", "reset"},
           next.pc \in {"approve", "reject", "profile", "suspend", "newPassword"}
             => next.row = user[next.id],
           next.pc \in {"verify", "deleteToken"} => next.id \in User /\ verification[next.id] # "none",
           next.pc = "deleteToken" => verification[next.id] # "live",
           next.pc = "newPassword" => next.by = 0,
           next.pc = "reset" => next.by \in Reset /\ reset[next.by].state = "live"
    PROVE  AloneInvariant'
<1> SUFFICES ASSUME alone' PROVE AloneInvariant'
  BY DEF AloneInvariant, AloneIsCurrent, TokensArePending, LinksAreLive, ResetsAreSpent
<1>1. /\ alone /\ \A q \in Request : request[q] = Idle
      /\ request' = [request EXCEPT ![p] = next]
      /\ UNCHANGED <<user, verification, reset, mix, mailed, resetsDone, whole>>
  BY DEF Begin, history
<1>2. request'[p] = next /\ \A q \in Request : q # p => request'[q] = Idle
  BY <1>1, NextRequest
<1>3. request[p].pc = "idle"
  BY <1>1 DEF Idle
<1>4. whole => \A u \in User : verification[u] # "none" => user[u].status = "pending_verification"
  BY <1>1, <1>3, OneWasInProgress DEF At
<1>5. "hour" \notin mix => \A u \in User :
        /\ verification[u] # "expired"
        /\ u \in mailed /\ user[u].status = "pending_verification" => verification[u] = "live"
  BY <1>1, OneWasInProgress
<1>6. "hour" \notin mix => next.pc # "deleteToken"
  BY <1>5 DEF TypeOK
<1>7. whole => \A t \in Reset :
        /\ resetsDone[t] <= 1 /\ (resetsDone[t] # 0 => reset[t].state # "unsent")
        /\ resetsDone[t] # 0 => reset[t].state # "live"
  BY <1>1, <1>3, OneWasInProgress DEF At
<1>8. whole /\ next.pc \in {"reset", "newPassword"} /\ next.by # 0 => resetsDone[next.by] = 0
  BY <1>7
<1> QED
  BY <1>1, <1>2, <1>4, <1>5, <1>6, <1>7, <1>8, OneInProgress

\* A request that goes on with what it has read and writes nothing.
LEMMA LoadKeepsAlone ==
    ASSUME TypeOK, AloneInvariant, NEW p \in Request, LoadForVerify(p) \/ LoadForReset(p), alone
    PROVE  AloneInvariant'
<1> DEFINE next == IF At(p, "verify")
                   THEN [pc |-> "verified", id |-> request[p].id, row |-> user[request[p].id]]
                   ELSE [pc |-> "newPassword", id |-> request[p].id, row |-> user[request[p].id],
                         password |-> request[p].password, by |-> request[p].by]
<1>1. /\ request' = [request EXCEPT ![p] = next]
      /\ UNCHANGED <<user, verification, reset, mix, mailed, resetsDone, alone, whole>>
      /\ request[p].pc \in {"verify", "reset"}
  BY DEF LoadForVerify, LoadForReset, ReadOnly, GoTo, history, At
<1>2. /\ next.id = request[p].id /\ next.row = user[request[p].id]
      /\ next.pc \in {"verified", "newPassword"}
      /\ next.pc = "verified" => At(p, "verify")
      /\ next.pc = "newPassword" => At(p, "reset") /\ next.by = request[p].by
  BY <1>1 DEF At
<1> HIDE DEF next
<1>3. request[p] # Idle
  BY <1>1 DEF Idle
<1>4. /\ request'[p] = next
      /\ \A q \in Request : q # p => request[q] = Idle /\ request'[q] = Idle
  BY <1>1, <1>3, TheOthersAreIdle DEF AloneInvariant
<1> QED
  BY <1>1, <1>2, <1>4, OneWasInProgress, OneInProgress DEF At

\* A request that ends without having written.
LEMMA FailKeepsAlone ==
    ASSUME TypeOK, AloneInvariant, NEW p \in Request, Fail(p), At(p, "insert"), alone
    PROVE  AloneInvariant'
<1>1. /\ request' = [request EXCEPT ![p] = Idle]
      /\ UNCHANGED <<user, verification, reset, mix, mailed, resetsDone, alone, whole>>
      /\ Idle.pc = "idle" /\ request[p] # Idle
  BY DEF Fail, ReadOnly, GoTo, history, At, Idle
<1>2. /\ request'[p] = Idle
      /\ \A q \in Request : q # p => request[q] = Idle /\ request'[q] = Idle
  BY <1>1, TheOthersAreIdle DEF AloneInvariant
<1> QED
  BY <1>1, <1>2, OneWasInProgress, OneInProgress DEF At

\* register: a new row has no token yet.
LEMMA InsertKeepsAlone ==
    ASSUME TypeOK, RolesStay, AloneInvariant, NEW p \in Request, InsertUser(p), alone
    PROVE  AloneInvariant'
<1>1. At(p, "insert") /\ request[p].id \in User
  BY HeldTypes DEF InsertUser, At
<1>2. CASE Exists(request[p].id)
  BY <1>1, <1>2, FailKeepsAlone DEF InsertUser
<1>3. CASE ~ Exists(request[p].id)
  <2> DEFINE id == request[p].id
             row == NewUser(request[p].role, request[p].password)
             next == IF request[p].role = "staff" THEN Idle
                     ELSE [pc |-> "token", id |-> request[p].id]
  <2>1. /\ request' = [request EXCEPT ![p] = next]
        /\ user' = [user EXCEPT ![id] = row]
        /\ UNCHANGED <<verification, reset, mix, mailed, resetsDone, alone, whole>>
    BY <1>3 DEF InsertUser, Save, GoTo, history
  <2>2. /\ next.pc \in {"idle", "token"}
        /\ next.pc = "token" => next.id = id /\ row.status = "pending_verification"
    BY DEF Idle, NewUser
  <2>3. id \notin mailed /\ verification[id] = "none"
    BY <1>1, <1>3 DEF RolesStay, RowIsSound
  <2>4. request[p] # Idle
    BY <1>1 DEF At, Idle
  <2>5. user'[id] = row /\ \A u \in User : u # id => user'[u] = user[u]
    BY <1>1, <2>1 DEF TypeOK
  <2> HIDE DEF row, next, id
  <2>6. /\ request'[p] = next
        /\ \A q \in Request : q # p => request[q] = Idle /\ request'[q] = Idle
    BY <2>1, <2>4, TheOthersAreIdle DEF AloneInvariant
  <2>7. whole' => \A u \in User : verification'[u] # "none" => user'[u].status = "pending_verification"
    BY <1>1, <2>1, <2>3, <2>5, <2>6, OneWasInProgress DEF At
  <2>8. "hour" \notin mix' => \A u \in User :
          /\ verification'[u] # "expired"
          /\ u \in mailed' /\ user'[u].status = "pending_verification" => verification'[u] = "live"
    BY <1>1, <2>1, <2>3, <2>5, <2>6, OneWasInProgress
  <2> QED
    BY <1>1, <2>1, <2>2, <2>5, <2>6, <2>7, <2>8, OneWasInProgress, OneInProgress DEF At
<1> QED
  BY <1>2, <1>3

\* register, its token: the account it is mailed for is still to be verified.
LEMMA TokenKeepsAlone ==
    ASSUME TypeOK, AloneInvariant, NEW p \in Request, InsertToken(p), alone
    PROVE  AloneInvariant'
<1> DEFINE id == request[p].id
<1>1. At(p, "token") /\ id \in User /\ request[p] # Idle
  BY HeldTypes DEF InsertToken, At, Idle
<1>2. /\ request' = [request EXCEPT ![p] = Idle]
      /\ verification' = [verification EXCEPT ![id] = "live"] /\ mailed' = mailed \cup {id}
      /\ UNCHANGED <<user, reset, mix, resetsDone, alone, whole>> /\ Idle.pc = "idle"
  BY DEF InsertToken, GoTo, Idle
<1>3. verification'[id] = "live" /\ \A u \in User : u # id => verification'[u] = verification[u]
  BY <1>1, <1>2 DEF TypeOK
<1>4. /\ request'[p] = Idle
      /\ \A q \in Request : q # p => request[q] = Idle /\ request'[q] = Idle
  BY <1>1, <1>2, TheOthersAreIdle DEF AloneInvariant
<1>5. whole => user[id].status = "pending_verification"
  BY <1>1, <1>4, OneWasInProgress DEF At
<1> HIDE DEF id
<1>6. whole' => \A u \in User : verification'[u] # "none" => user'[u].status = "pending_verification"
  BY <1>1, <1>2, <1>3, <1>4, <1>5, OneWasInProgress DEF At
<1>7. "hour" \notin mix' => \A u \in User :
        /\ verification'[u] # "expired"
        /\ u \in mailed' /\ user'[u].status = "pending_verification" => verification'[u] = "live"
  BY <1>1, <1>2, <1>3, <1>4, OneWasInProgress
<1> QED
  BY <1>1, <1>2, <1>4, <1>6, <1>7, OneWasInProgress, OneInProgress DEF At

\* verifyEmail saves the user before it deletes the token.
LEMMA VerifiedKeepsAlone ==
    ASSUME TypeOK, AloneInvariant, NEW p \in Request, SaveVerified(p), alone
    PROVE  AloneInvariant'
<1> DEFINE id == request[p].id
           row == [request[p].row EXCEPT !.emailVerified = TRUE,
                                         !.status = StatusOnceVerified(request[p].row.role)]
           next == [pc |-> "deleteToken", id |-> id]
<1>1. At(p, "verified") /\ id \in User /\ request[p] # Idle /\ request[p].row \in UserRow
  BY HeldTypes DEF SaveVerified, At, Idle
<1>2. /\ request' = [request EXCEPT ![p] = next]
      /\ user' = [user EXCEPT ![id] = row]
      /\ UNCHANGED <<verification, reset, mix, mailed, resetsDone, alone, whole>>
  BY DEF SaveVerified, Save, GoTo
<1>3. row.status # "pending_verification"
  BY <1>1 DEF UserRow, StatusOnceVerified
<1>4. next.pc = "deleteToken" /\ next.id = id
  OBVIOUS
<1>5. user'[id] = row /\ \A u \in User : u # id => user'[u] = user[u]
  BY <1>1, <1>2 DEF TypeOK
<1> HIDE DEF row, next, id
<1>6. /\ request'[p] = next
      /\ \A q \in Request : q # p => request[q] = Idle /\ request'[q] = Idle
  BY <1>1, <1>2, TheOthersAreIdle DEF AloneInvariant
<1>7. whole' => \A u \in User : verification'[u] # "none" =>
        user'[u].status = "pending_verification" \/ u = id
  BY <1>1, <1>2, <1>5, <1>6, OneWasInProgress DEF At
<1>8. "hour" \notin mix' => \A u \in User :
        /\ verification'[u] # "expired"
        /\ u \in mailed' /\ user'[u].status = "pending_verification" => verification'[u] = "live"
  BY <1>1, <1>2, <1>3, <1>5, <1>6, OneWasInProgress
<1> QED
  BY <1>1, <1>2, <1>3, <1>4, <1>5, <1>6, <1>7, <1>8, OneWasInProgress, OneInProgress DEF At

\* verifyEmail deletes a token that has done its work, or one that expired.
LEMMA DeleteKeepsAlone ==
    ASSUME TypeOK, AloneInvariant, NEW p \in Request, DeleteToken(p), alone
    PROVE  AloneInvariant'
<1> DEFINE id == request[p].id
<1>1. At(p, "deleteToken") /\ id \in User /\ request[p] # Idle
  BY HeldTypes DEF DeleteToken, At, Idle
<1>2. /\ request' = [request EXCEPT ![p] = Idle]
      /\ verification' = [verification EXCEPT ![id] = "none"]
      /\ UNCHANGED <<user, reset, mix, mailed, resetsDone, alone, whole>> /\ Idle.pc = "idle"
  BY DEF DeleteToken, GoTo, Idle, history
<1>3. verification'[id] = "none" /\ \A u \in User : u # id => verification'[u] = verification[u]
  BY <1>1, <1>2 DEF TypeOK
<1>4. /\ request'[p] = Idle
      /\ \A q \in Request : q # p => request[q] = Idle /\ request'[q] = Idle
  BY <1>1, <1>2, TheOthersAreIdle DEF AloneInvariant
<1>5. "hour" \notin mix => user[id].status # "pending_verification"
  BY <1>1, <1>4, OneWasInProgress
<1> HIDE DEF id
<1>6. whole' => \A u \in User : verification'[u] # "none" => user'[u].status = "pending_verification"
  <2> SUFFICES ASSUME whole', NEW u \in User, verification'[u] # "none"
               PROVE  user'[u].status = "pending_verification"
    OBVIOUS
  <2>1. u # id /\ verification[u] # "none" /\ request[p].id # u
    BY <1>3 DEF id
  <2> QED
    BY <2>1, <1>1, <1>2, <1>4, OneWasInProgress DEF At
<1>7. "hour" \notin mix' => \A u \in User :
        /\ verification'[u] # "expired"
        /\ u \in mailed' /\ user'[u].status = "pending_verification" => verification'[u] = "live"
  BY <1>1, <1>2, <1>3, <1>4, <1>5, OneWasInProgress
<1> QED
  BY <1>1, <1>2, <1>4, <1>6, <1>7, OneWasInProgress, OneInProgress DEF At

\* A save of the row that is in the table, but for its password or its status:
\* a status other than active accounts waiting for their mail has no token.
LEMMA RowSaveKeepsAlone ==
    ASSUME TypeOK, AloneInvariant, alone, NEW p \in Request, NEW row, NEW next,
           Save(p, row, next), mailed' = mailed, request[p].id \in User,
           request[p].pc \in {"profile", "newPassword", "suspend", "approve", "reject"},
           \/ row.status = user[request[p].id].status
           \/ row.status # "pending_verification" /\ (whole => verification[request[p].id] = "none"),
           next.pc \in {"idle", "markUsed"},
           whole => \A t \in Reset :
             /\ resetsDone'[t] <= 1
             /\ resetsDone'[t] # 0 => reset[t].state # "unsent"
             /\ resetsDone'[t] # 0 /\ reset[t].state = "live" => next.pc = "markUsed" /\ next.by = t
    PROVE  AloneInvariant'
<1> DEFINE id == request[p].id
<1>1. /\ request' = [request EXCEPT ![p] = next]
      /\ user' = [user EXCEPT ![id] = row]
      /\ UNCHANGED <<verification, reset, mix, mailed, alone, whole>>
      /\ request[p] # Idle
  BY DEF Save, GoTo, Idle
<1>2. user'[id] = row /\ \A u \in User : u # id => user'[u] = user[u]
  BY <1>1 DEF TypeOK
<1>3. /\ request'[p] = next
      /\ \A q \in Request : q # p => request[q] = Idle /\ request'[q] = Idle
  BY <1>1, TheOthersAreIdle DEF AloneInvariant
<1> HIDE DEF id
<1>4. whole' => \A u \in User : verification'[u] # "none" => user'[u].status = "pending_verification"
  <2> SUFFICES ASSUME whole', NEW u \in User, verification'[u] # "none"
               PROVE  user'[u].status = "pending_verification"
    OBVIOUS
  <2>1. user[u].status = "pending_verification"
    BY <1>1, <1>3, OneWasInProgress DEF At
  <2> QED
    BY <2>1, <1>1, <1>2 DEF id
<1>5. "hour" \notin mix' => \A u \in User :
        /\ verification'[u] # "expired"
        /\ u \in mailed' /\ user'[u].status = "pending_verification" => verification'[u] = "live"
  <2> SUFFICES ASSUME "hour" \notin mix', NEW u \in User
               PROVE  /\ verification'[u] # "expired"
                      /\ u \in mailed' /\ user'[u].status = "pending_verification"
                           => verification'[u] = "live"
    OBVIOUS
  <2>1. /\ verification[u] # "expired"
        /\ u \in mailed /\ user[u].status = "pending_verification" => verification[u] = "live"
    BY <1>1, <1>3, OneWasInProgress
  <2>2. user'[u].status = "pending_verification" => user[u].status = "pending_verification"
    BY <1>2 DEF id
  <2> QED
    BY <2>1, <2>2, <1>1
<1> QED
  BY <1>1, <1>3, <1>4, <1>5, OneInProgress

\* The saves of the profile, of a suspension and of a decision: only accounts
\* that were verified, and staff, are decided about or suspended.
LEMMA StatusSaveKeepsAlone ==
    ASSUME TypeOK, RolesStay, AloneInvariant, alone, NEW p \in Request,
           SaveProfile(p) \/ SaveSuspended(p) \/ SaveDecision(p)
    PROVE  AloneInvariant'
<1> DEFINE row == IF At(p, "profile") THEN request[p].row
                  ELSE IF At(p, "suspend") THEN [request[p].row EXCEPT !.status = "suspended"]
                  ELSE [request[p].row EXCEPT !.status = Decision(p)]
           id == request[p].id
<1>1. /\ request[p].pc \in {"profile", "suspend", "approve", "reject"} /\ request[p] # Idle
      /\ Save(p, row, Idle) /\ UNCHANGED <<mailed, resetsDone>> /\ Idle.pc = "idle"
  BY DEF SaveProfile, SaveSuspended, SaveDecision, At, history, Idle
<1>2. id \in User /\ request[p].row \in UserRow
  BY <1>1, HeldTypes
<1>3. \A q \in Request : q # p => request[q] = Idle
  BY <1>1 DEF AloneInvariant, AloneIsCurrent
<1>4. request[p].row = user[id]
  BY <1>1, <1>3, OneWasInProgress DEF HoldsRow
<1>5. /\ At(p, "profile") => row.status = user[id].status
      /\ ~ At(p, "profile") => row.status \in {"suspended", "active", "rejected"}
  BY <1>1, <1>2, <1>4 DEF UserRow, Decision, At
<1>6. RequestIsSound(p) /\ RowIsSound(id)
  BY <1>2 DEF RolesStay
<1>7. At(p, "suspend") => verification[id] = "none"
  BY <1>1, <1>4, <1>6 DEF RequestIsSound, HoldsRow, RowIsSound, At
<1>8. request[p].pc \in {"approve", "reject"} /\ whole => verification[id] = "none"
  <2> SUFFICES ASSUME request[p].pc \in {"approve", "reject"}, whole, verification[id] # "none"
               PROVE  FALSE
    OBVIOUS
  <2>1. user[id].status = "pending_approval"
    BY <1>4, <1>6 DEF RequestIsSound
  <2>2. user[id].status = "pending_verification"
    BY <1>2, <1>3, OneWasInProgress DEF At
  <2> QED
    BY <2>1, <2>2
<1>9. whole => \A t \in Reset :
        /\ resetsDone'[t] <= 1 /\ (resetsDone'[t] # 0 => reset[t].state # "unsent")
        /\ resetsDone'[t] # 0 => reset[t].state # "live"
  BY <1>1, <1>3, OneWasInProgress DEF At
<1>10. \/ row.status = user[id].status
       \/ row.status # "pending_verification" /\ (whole => verification[id] = "none")
  BY <1>1, <1>5, <1>7, <1>8 DEF At
<1> HIDE DEF row
<1> QED
  BY <1>1, <1>2, <1>9, <1>10, RowSaveKeepsAlone

\* updatePassword: a mail sets a password only while it has set none.
LEMMA PasswordSaveKeepsAlone ==
    ASSUME TypeOK, RolesStay, AloneInvariant, alone, NEW p \in Request, SavePassword(p)
    PROVE  AloneInvariant'
<1> DEFINE row == [request[p].row EXCEPT !.password = request[p].password]
           next == IF request[p].by = 0 THEN Idle ELSE [pc |-> "markUsed", by |-> request[p].by]
           id == request[p].id
<1>1. /\ At(p, "newPassword") /\ request[p] # Idle
      /\ Save(p, row, next) /\ mailed' = mailed
      /\ resetsDone' = [t \in Reset |-> resetsDone[t] + (IF t = request[p].by THEN 1 ELSE 0)]
  BY DEF SavePassword, At, Idle
<1>2. id \in User /\ request[p].row \in UserRow
  BY <1>1, HeldTypes DEF At
<1>3. \A q \in Request : q # p => request[q] = Idle
  BY <1>1 DEF AloneInvariant, AloneIsCurrent
<1>4. request[p].row = user[id]
  BY <1>1, <1>3, OneWasInProgress DEF HoldsRow, At
<1>5. row.status = user[id].status
  BY <1>2, <1>4 DEF UserRow
<1>6. /\ next.pc \in {"idle", "markUsed"}
      /\ request[p].by # 0 => next.pc = "markUsed" /\ next.by = request[p].by
  BY DEF Idle
<1> HIDE DEF row, next
<1>7. ASSUME whole, NEW t \in Reset
      PROVE  /\ resetsDone'[t] <= 1
             /\ resetsDone'[t] # 0 => reset[t].state # "unsent"
             /\ resetsDone'[t] # 0 /\ reset[t].state = "live" => next.pc = "markUsed" /\ next.by = t
  <2>0. t # 0 /\ resetsDone[t] \in Nat
    BY AccountsAssumption DEF Reset, TypeOK
  <2>1. CASE t = request[p].by
    <3>1. resetsDone[t] = 0
      BY <2>0, <2>1, <1>1, <1>3, <1>7, OneWasInProgress DEF At
    <3>2. reset[t].state # "unsent"
      BY <2>0, <2>1, <1>1 DEF RolesStay, RequestIsSound, At
    <3> QED
      BY <3>1, <3>2, <2>0, <2>1, <1>1, <1>6
  <2>2. CASE t # request[p].by
    <3>1. resetsDone'[t] = resetsDone[t]
      BY <2>0, <2>2, <1>1
    <3> QED
      BY <3>1, <1>1, <1>3, <1>7, OneWasInProgress DEF At
  <2> QED
    BY <2>1, <2>2
<1> QED
  BY <1>1, <1>2, <1>5, <1>6, <1>7, RowSaveKeepsAlone DEF At

\* resetPassword marks the mail it used.
LEMMA MarkKeepsAlone ==
    ASSUME TypeOK, AloneInvariant, alone, NEW p \in Request, MarkUsed(p)
    PROVE  AloneInvariant'
<1> DEFINE by == request[p].by
<1>1. At(p, "markUsed") /\ by \in Reset /\ request[p] # Idle
  BY HeldTypes DEF MarkUsed, At, Idle
<1>2. /\ request' = [request EXCEPT ![p] = Idle]
      /\ reset' = [reset EXCEPT ![by].state = "used"]
      /\ UNCHANGED <<user, verification, mix, mailed, resetsDone, alone, whole>> /\ Idle.pc = "idle"
  BY DEF MarkUsed, GoTo, Idle, history
<1>3. reset'[by].state = "used" /\ \A t \in Reset : t # by => reset'[t] = reset[t]
  BY <1>1, <1>2 DEF TypeOK
<1>4. /\ request'[p] = Idle
      /\ \A q \in Request : q # p => request[q] = Idle /\ request'[q] = Idle
  BY <1>1, <1>2, TheOthersAreIdle DEF AloneInvariant
<1> HIDE DEF by
<1>5. ASSUME whole', NEW t \in Reset
      PROVE  /\ resetsDone'[t] <= 1
             /\ resetsDone'[t] # 0 => reset'[t].state # "unsent"
             /\ resetsDone'[t] # 0 => reset'[t].state # "live"
  <2>1. /\ resetsDone[t] <= 1 /\ (resetsDone[t] # 0 => reset[t].state # "unsent")
        /\ resetsDone[t] # 0 /\ reset[t].state = "live" => t = by
    BY <1>2, <1>4, <1>5, OneWasInProgress DEF by
  <2> QED
    BY <2>1, <1>2, <1>3
<1> QED
  BY <1>1, <1>2, <1>4, <1>5, OneWasInProgress, OneInProgress DEF At

\* Every step of a user's or an owner's request.
LEMMA UserStepKeepsAlone ==
    ASSUME TypeOK, RolesStay, AloneInvariant, NEW p \in Process, UserStep(p)
    PROVE  AloneInvariant'
<1>0. p \in Request
  BY DEF Request
<1>1. ASSUME NEW u \in User, NEW role \in Role, CheckUnused(p, u, role) PROVE AloneInvariant'
  <2> DEFINE next == [pc |-> "insert", id |-> u, role |-> role, password |-> passwords + 1]
             kind == IF role = "staff" THEN "staff" ELSE "register"
  <2>1. next.pc = "insert" /\ Begin(p, kind, next)
    BY <1>1 DEF CheckUnused, BeginWithPassword
  <2> HIDE DEF next, kind
  <2> QED
    BY <1>0, <2>1, BeginKeepsAlone
<1>2. ASSUME NEW u \in User, FindToken(p, u) PROVE AloneInvariant'
  <2> DEFINE next == [pc |-> IF verification[u] = "live" THEN "verify" ELSE "deleteToken", id |-> u]
  <2>1. /\ next.pc \in {"verify", "deleteToken"} /\ next.id = u /\ verification[u] # "none"
        /\ next.pc = "deleteToken" => verification[u] # "live"
        /\ Begin(p, "verify", next)
    BY <1>2 DEF FindToken
  <2> HIDE DEF next
  <2> QED
    BY <1>0, <2>1, BeginKeepsAlone
<1>3. ASSUME NEW u \in User, NEW kind, NEW pc \in {"profile", "suspend"}, Load(p, u, kind, pc)
      PROVE  AloneInvariant'
  <2> DEFINE next == [pc |-> pc, id |-> u, row |-> user[u]]
  <2>1. next.pc = pc /\ next.id = u /\ next.row = user[u] /\ Begin(p, kind, next)
    BY <1>3 DEF Load
  <2> HIDE DEF next
  <2> QED
    BY <1>0, <1>3, <2>1, BeginKeepsAlone
<1>4. ASSUME NEW u \in User, NEW kind,
             BeginWithPassword(p, kind, [pc |-> "newPassword", id |-> u, row |-> user[u],
                                         password |-> passwords + 1, by |-> 0])
      PROVE  AloneInvariant'
  <2> DEFINE next == [pc |-> "newPassword", id |-> u, row |-> user[u],
                      password |-> passwords + 1, by |-> 0]
  <2>1. next.pc = "newPassword" /\ next.id = u /\ next.row = user[u] /\ next.by = 0
        /\ Begin(p, kind, next)
    BY <1>4 DEF BeginWithPassword
  <2> HIDE DEF next
  <2> QED
    BY <1>0, <2>1, BeginKeepsAlone
<1>5. ASSUME NEW t \in Reset, FindReset(p, t) PROVE AloneInvariant'
  <2> DEFINE next == [pc |-> "reset", id |-> reset[t].user, password |-> passwords + 1, by |-> t]
  <2>1. next.pc = "reset" /\ next.by = t /\ reset[t].state = "live" /\ Begin(p, "forgot", next)
    BY <1>5 DEF FindReset, BeginWithPassword
  <2> HIDE DEF next
  <2> QED
    BY <1>0, <2>1, BeginKeepsAlone
<1>6. ASSUME InsertUser(p) \/ InsertToken(p) \/ LoadForVerify(p) \/ SaveVerified(p) \/ DeleteToken(p)
             \/ SaveProfile(p) \/ LoadForReset(p) \/ SavePassword(p) \/ MarkUsed(p) \/ SaveSuspended(p)
      PROVE  AloneInvariant'
  <2>1. alone' = alone
    BY <1>6 DEF InsertUser, InsertToken, LoadForVerify, SaveVerified, DeleteToken, SaveProfile,
       LoadForReset, SavePassword, MarkUsed, SaveSuspended, Save, Fail, ReadOnly, GoTo
  <2>2. CASE alone
    BY <1>0, <1>6, <2>2, InsertKeepsAlone, TokenKeepsAlone, LoadKeepsAlone, VerifiedKeepsAlone,
       DeleteKeepsAlone, StatusSaveKeepsAlone, PasswordSaveKeepsAlone, MarkKeepsAlone
  <2>3. CASE ~ alone
    BY <2>1, <2>3 DEF AloneInvariant, AloneIsCurrent, TokensArePending, LinksAreLive, ResetsAreSpent
  <2> QED
    BY <2>2, <2>3
<1> QED
  BY <1>1, <1>2, <1>3, <1>4, <1>5, <1>6 DEF UserStep, LoadForProfile, LoadForPassword, LoadStaff

\* And of an admin's.
LEMMA AdminStepKeepsAlone ==
    ASSUME TypeOK, RolesStay, AloneInvariant, NEW a \in Admin, AdminStep(a)
    PROVE  AloneInvariant'
<1>0. a \in Request
  BY DEF Request
<1>1. ASSUME NEW u \in User, ReadPendingOwner(a, u) PROVE AloneInvariant'
  <2>1. PICK pc \in {"approve", "reject"} : Load(a, u, "decide", pc)
    BY <1>1 DEF ReadPendingOwner
  <2> DEFINE next == [pc |-> pc, id |-> u, row |-> user[u]]
  <2>2. next.pc = pc /\ next.id = u /\ next.row = user[u] /\ Begin(a, "decide", next)
    BY <2>1 DEF Load
  <2> HIDE DEF next
  <2> QED
    BY <1>0, <2>2, BeginKeepsAlone
<1>2. CASE SaveDecision(a)
  <2>1. alone' = alone
    BY <1>2 DEF SaveDecision, Save, GoTo
  <2>2. CASE alone
    BY <1>0, <1>2, <2>2, StatusSaveKeepsAlone
  <2>3. CASE ~ alone
    BY <2>1, <2>3 DEF AloneInvariant, AloneIsCurrent, TokensArePending, LinksAreLive, ResetsAreSpent
  <2> QED
    BY <2>2, <2>3
<1> QED
  BY <1>1, <1>2 DEF AdminStep

\* What happens around the requests: a token that expires in between, and a
\* mail that is sent, take nothing from the invariant.
LEMMA SurroundingsKeepAlone ==
    ASSUME TypeOK, AloneInvariant,
           \/ \E u \in User : Login(u) \/ AccessTokenExpires(u)
           \/ \E u \in User, t \in Reset : ForgotPassword(u, t)
           \/ Expire \/ Restart \/ UNCHANGED vars
    PROVE  AloneInvariant'
<1>1. ASSUME NEW u \in User, Login(u) \/ AccessTokenExpires(u) PROVE AloneInvariant'
  BY <1>1 DEF Login, AccessTokenExpires, tables, history, AloneInvariant, AloneIsCurrent, HoldsRow,
     TokensArePending, LinksAreLive, ResetsAreSpent
<1>2. ASSUME NEW u \in User, NEW t \in Reset, ForgotPassword(u, t) PROVE AloneInvariant'
  <2>1. /\ UNCHANGED <<user, verification, mix, request, mailed, resetsDone, alone, whole>>
        /\ reset' = [reset EXCEPT ![t] = [state |-> "live", user |-> u]] /\ reset[t].state = "unsent"
    BY <1>2 DEF ForgotPassword, history
  <2>2. AloneIsCurrent' /\ TokensArePending' /\ LinksAreLive'
    BY <2>1 DEF AloneInvariant, AloneIsCurrent, HoldsRow, TokensArePending, LinksAreLive
  <2>3. \A s \in Reset : reset'[s] = reset[s] \/ s = t
    BY <2>1 DEF TypeOK
  <2>4. ResetsAreSpent'
    BY <2>1, <2>3 DEF AloneInvariant, ResetsAreSpent
  <2> QED
    BY <2>2, <2>4 DEF AloneInvariant
<1>3. CASE Expire
  <2>1. /\ "hour" \in mix
        /\ UNCHANGED <<user, mix, request, mailed, resetsDone, alone, whole>>
    BY <1>3 DEF Expire, history
  <2>2. AloneIsCurrent' /\ LinksAreLive'
    BY <2>1 DEF AloneInvariant, AloneIsCurrent, HoldsRow, LinksAreLive
  <2>3. \A u \in User : verification'[u] # "none" <=> verification[u] # "none"
    BY <1>3 DEF Expire, TypeOK
  <2>4. TokensArePending'
    <3>1. \A p \in Request : request[p].pc \in {"verify", "verified"} => request[p].id \in User
      BY HeldTypes
    <3> QED
      BY <2>1, <2>3, <3>1 DEF AloneInvariant, TokensArePending
  <2>5. \A t \in Reset : /\ reset'[t].state = "live" => reset[t].state = "live"
                         /\ reset'[t].state = "unsent" => reset[t].state = "unsent"
    BY <1>3 DEF Expire, TypeOK
  <2>6. ResetsAreSpent'
    BY <2>1, <2>5 DEF AloneInvariant, ResetsAreSpent
  <2> QED
    BY <2>2, <2>4, <2>6 DEF AloneInvariant
<1>4. CASE Restart
  <2>1. /\ request' = [p \in Request |-> Idle] /\ ~ whole' /\ Idle.pc = "idle"
        /\ UNCHANGED <<user, verification, mix, mailed, alone>>
    BY <1>4 DEF Restart, tables, history, Idle
  <2> QED
    BY <2>1 DEF AloneInvariant, AloneIsCurrent, HoldsRow, TokensArePending, LinksAreLive, ResetsAreSpent
<1>5. CASE UNCHANGED vars
  BY <1>5 DEF vars, tables, history, AloneInvariant, AloneIsCurrent, HoldsRow, TokensArePending,
     LinksAreLive, ResetsAreSpent
<1> QED
  BY <1>1, <1>2, <1>3, <1>4, <1>5

\* The inductive invariant holds in every reachable state.
THEOREM AccountsInvariance == Spec => []AccountsInvariant
<1>1. Init => RolesStay /\ AloneInvariant
  <2> SUFFICES ASSUME Init PROVE RolesStay /\ AloneInvariant
    OBVIOUS
  <2>1. RolesStay
    BY DEF Init, RolesStay, RowIsSound, RequestIsSound, HoldsRow, Idle
  <2>2. AloneInvariant
    BY DEF Init, AloneInvariant, AloneIsCurrent, HoldsRow, TokensArePending, LinksAreLive,
       ResetsAreSpent, Idle
  <2> QED
    BY <2>1, <2>2
<1>2. TypeOK /\ RolesStay /\ AloneInvariant /\ [Next]_vars => RolesStay' /\ AloneInvariant'
  <2> SUFFICES ASSUME TypeOK, RolesStay, AloneInvariant, [Next]_vars PROVE AloneInvariant'
    BY RolesStep
  <2> QED
    BY UserStepKeepsAlone, AdminStepKeepsAlone, SurroundingsKeepAlone DEF Next
<1> QED
  BY <1>1, <1>2, AccountsTypeCorrect, PTL DEF Spec, AccountsInvariant

\* The link of one mail sets one password: resetPassword marks the token after
\* it saved the password, and nobody else gets hold of it in between.
THEOREM LinksSetOnePassword == Spec => []LinkSetsOnePassword
<1>1. AccountsInvariant => LinkSetsOnePassword
  BY DEF AccountsInvariant, AloneInvariant, ResetsAreSpent, LinkSetsOnePassword
<1> QED
  BY <1>1, AccountsInvariance, PTL

\* The link mailed to a new account works until the account is verified, with
\* restarts between any two statements: verifyEmail deletes the token last.
THEOREM LinksWorkUntilVerified == Spec => []LinkWorksUntilVerified
<1>1. AccountsInvariant => LinkWorksUntilVerified
  BY DEF AccountsInvariant, AloneInvariant, LinksAreLive, LinkWorksUntilVerified, TypeOK
<1> QED
  BY <1>1, AccountsInvariance, PTL

\* The only step that changes the status of an owner who was decided about, or
\* of somebody suspended, would be the save of a link followed twice; with
\* requests one at a time and none cut short its token is gone.
LEMMA DecisionsStandStep ==
    ASSUME AccountsInvariant, [Next]_vars, alone', whole, NEW u \in User, user'[u] # user[u]
    PROVE  /\ user[u].role = "owner" /\ user[u].status \in {"active", "rejected"}
                => user'[u].status = user[u].status
           /\ user[u].status = "suspended" => user'[u].status = "suspended"
<1>0. TypeOK /\ RolesStay /\ AloneInvariant
  BY DEF AccountsInvariant
<1>1. PICK p \in Request : \/ InsertUser(p) \/ SaveVerified(p) \/ SaveDecision(p)
                           \/ SaveProfile(p) \/ SavePassword(p) \/ SaveSuspended(p)
  <2>1. ASSUME NEW p \in Process, UserStep(p)
        PROVE  InsertUser(p) \/ SaveVerified(p) \/ SaveProfile(p) \/ SavePassword(p) \/ SaveSuspended(p)
    BY <2>1 DEF UserStep, CheckUnused, FindToken, LoadForProfile, LoadForPassword, LoadStaff, FindReset,
       InsertToken, LoadForVerify, DeleteToken, LoadForReset, MarkUsed, Load, BeginWithPassword, Begin,
       ReadOnly, GoTo
  <2>2. ASSUME NEW a \in Admin, AdminStep(a) PROVE SaveDecision(a)
    BY <2>2 DEF AdminStep, ReadPendingOwner, Load, Begin
  <2>3. (\E q \in Process : UserStep(q)) \/ (\E a \in Admin : AdminStep(a))
    BY DEF Next, Login, AccessTokenExpires, ForgotPassword, Expire, Restart, vars, tables
  <2> QED
    BY <2>1, <2>2, <2>3 DEF Request
<1> DEFINE id == request[p].id
<1>2. /\ request[p].pc \in {"insert", "verified", "approve", "reject", "profile", "newPassword", "suspend"}
      /\ request[p] # Idle /\ alone
  <2>1. request[p].pc \in {"insert", "verified", "approve", "reject", "profile", "newPassword", "suspend"}
    BY <1>1 DEF InsertUser, SaveVerified, SaveDecision, SaveProfile, SavePassword, SaveSuspended, At
  <2>2. alone' = alone
    BY <1>1 DEF InsertUser, SaveVerified, SaveDecision, SaveProfile, SavePassword, SaveSuspended,
       Save, Fail, ReadOnly, GoTo
  <2> QED
    BY <2>1, <2>2 DEF Idle
<1>3. u = id
  BY <1>0, <1>1, <1>2, HeldTypes DEF InsertUser, SaveVerified, SaveDecision, SaveProfile, SavePassword,
     SaveSuspended, Save, Fail, ReadOnly, GoTo, TypeOK
<1>4. \A q \in Request : q # p => request[q] = Idle
  BY <1>0, <1>2 DEF AloneInvariant, AloneIsCurrent
<1>5. /\ HoldsRow(p) => request[p].row = user[id] /\ request[p].row \in UserRow
      /\ RequestIsSound(p) /\ RowIsSound(id)
  BY <1>0, <1>2, <1>4, <1>3, OneWasInProgress, HeldTypes DEF RolesStay, HoldsRow
<1>6. CASE InsertUser(p)
  <2>1. ~ Exists(id)
    BY <1>6 DEF InsertUser, Fail, ReadOnly, GoTo
  <2> QED
    BY <2>1, <1>3 DEF Exists
<1>7. CASE SaveVerified(p)
  <2>1. user[u].status = "pending_verification"
    BY <1>0, <1>2, <1>3, <1>4, <1>7, OneWasInProgress DEF SaveVerified, At
  <2> QED
    BY <2>1
<1>8. CASE SaveDecision(p)
  <2>1. user[u].status = "pending_approval"
    BY <1>3, <1>5, <1>8 DEF SaveDecision, HoldsRow, RequestIsSound
  <2> QED
    BY <2>1
<1>9. CASE SaveProfile(p) \/ SavePassword(p)
  <2>1. request[p].row = user[u] /\ request[p].row \in UserRow
    BY <1>3, <1>5, <1>9 DEF SaveProfile, SavePassword, At, HoldsRow
  <2>2. user'[u].status = user[u].status
    BY <1>0, <1>3, <1>9, <2>1 DEF SaveProfile, SavePassword, Save, UserRow, TypeOK
  <2> QED
    BY <2>2
<1>10. CASE SaveSuspended(p)
  <2>1. request[p].row = user[u] /\ request[p].row \in UserRow /\ request[p].row.role = "staff"
    BY <1>3, <1>5, <1>10 DEF SaveSuspended, At, HoldsRow, RequestIsSound
  <2>2. user'[u].status = "suspended"
    BY <1>0, <1>3, <1>10, <2>1 DEF SaveSuspended, Save, UserRow, TypeOK
  <2> QED
    BY <2>1, <2>2
<1> QED
  BY <1>1, <1>6, <1>7, <1>8, <1>9, <1>10

\* An approval, a rejection or a suspension is never undone while requests come
\* one at a time and none is cut short.
THEOREM AccountDecisionsStand == Spec => DecisionsStand
<1>1. AccountsInvariant /\ [Next]_vars =>
        [alone' /\ whole => \A u \in User :
            /\ user[u].role = "owner" /\ user[u].status \in {"active", "rejected"}
                 => user'[u].status = user[u].status
            /\ user[u].status = "suspended" => user'[u].status = "suspended"]_vars
  BY DecisionsStandStep
<1> QED
  BY <1>1, AccountsInvariance, PTL DEF Spec, DecisionsStand
=============================================================================
