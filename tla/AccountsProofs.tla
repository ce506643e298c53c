----------------------------- MODULE AccountsProofs -----------------------------
(***************************************************************************)
(* Theorems about Accounts for any handlers, emails, passwords, codes and   *)
(* faults.                                                                  *)
(***************************************************************************)
EXTENDS Accounts, TLAPS

USE DEF Fault

Sending(h) == pc[h] \in {"setCode", "sendEmail"}
Verifying(h) == pc[h] \in {"delCode", "verify"}
EmailOf(h) == req[h].email

\* Every code under way or stored is the one that was issued with the row of its
\* email, which exists: a second sign-up never gets as far as a code.
CodesAreIssued ==
    /\ \A h \in Handlers : Sending(h) => HasUser(EmailOf(h)) /\ code[h] = issued[EmailOf(h)]
    /\ \A e \in Emails : codes[e] # NoCode => HasUser(e) /\ codes[e] = issued[e]
    /\ \A h \in Handlers :
        Verifying(h) => HasUser(EmailOf(h)) /\ req[h].code = issued[EmailOf(h)]

\* A verification under way was submitted.
UnderWayIsSubmitted ==
    \A h \in Handlers : pc[h] \in {"getCode", "delCode", "verify"} =>
        [email |-> req[h].email, code |-> req[h].code] \in submitted

RowsVerifiedByCode ==
    \A e \in Emails : IsVerified(e) => [email |-> e, code |-> issued[e]] \in submitted

SignedInIsVerified == \A e \in signedIn : IsVerified(e)

\* A sign-up that has its row is the only one of its email; it was neither answered
\* nor broken off.
OneSignUp ==
    /\ \A g, h \in Handlers : Sending(g) /\ Sending(h) /\ g # h => EmailOf(g) # EmailOf(h)
    /\ \A h \in Handlers : Sending(h) => EmailOf(h) \notin abandoned \cup signedUp
    /\ \A e \in abandoned \cup signedUp : HasUser(e)

CodeInv == TypeOK /\ CodesAreIssued /\ UnderWayIsSubmitted /\ RowsVerifiedByCode
               /\ SignedInIsVerified

AccountsInv == CodeInv /\ OneSignUp /\ AccountsStayVerifiable

--------------------------------------------------------------------------------
(* Types. *)

\* A handler that returns keeps nothing.
LEMMA ReturnTyped ==
    ASSUME TypeOK, NEW h \in Handlers, Return(h)
    PROVE  /\ pc' = [pc EXCEPT ![h] = "idle"]
           /\ pc' \in [Handlers -> Stages]
           /\ req' \in [Handlers -> Credentials \cup Verifications \cup {NoRequest}]
           /\ code' \in [Handlers -> Codes \cup {NoCode}]
           /\ \A g \in Handlers \ {h} :
                pc'[g] = pc[g] /\ req'[g] = req[g] /\ code'[g] = code[g]
BY DEF Return, Goto, TypeOK, Stages

\* Every call keeps the types of requests, codes and rows.
LEMMA TypeStep ==
    ASSUME TypeOK, [Next]_vars
    PROVE  TypeOK'
<1>a. \A r \in Credentials : r.email \in Emails /\ r.password \in Passwords
  BY DEF Credentials
<1>b. \A r \in Verifications : r.email \in Emails
  BY DEF Verifications
<1>1. ASSUME NEW h \in Handlers, SignUp(h) PROVE TypeOK'
  BY <1>1 DEF SignUp, Goto, TypeOK, Stages, history
<1>2. ASSUME NEW h \in Handlers, CreateUser(h) PROVE TypeOK'
  <2>1. req[h] \in Credentials /\ req[h].email \in Emails /\ req[h].password \in Passwords
    BY <1>2, <1>a DEF CreateUser, TypeOK
  <2>2. /\ users' \in [Emails -> [password : Passwords, isVerified : BOOLEAN] \cup {NoUser}]
        /\ issued' \in [Emails -> Codes \cup {NoCode}]
        /\ abandoned' \subseteq Emails
    <3>1. PICK c \in Codes : InsertUser(h, c) \/ UNCHANGED <<users, issued>>
      BY <1>2 DEF CreateUser
    <3>2. [password |-> req[h].password, isVerified |-> FALSE]
              \in [password : Passwords, isVerified : BOOLEAN]
      BY <2>1
    <3>3. /\ users' \in [Emails -> [password : Passwords, isVerified : BOOLEAN] \cup {NoUser}]
          /\ issued' \in [Emails -> Codes \cup {NoCode}]
      BY <2>1, <3>1, <3>2 DEF InsertUser, TypeOK
    <3>4. abandoned' \subseteq Emails
      BY <1>2, <2>1 DEF CreateUser, Abandon, TypeOK
    <3>. QED BY <3>3, <3>4
  <2>3. UNCHANGED <<codes, inbox, signedUp, signedIn, submitted, cutShort>>
    BY <1>2 DEF CreateUser
  <2>4. CASE Return(h)
    BY <2>2, <2>3, <2>4, ReturnTyped DEF TypeOK
  <2>5. CASE /\ \E c \in Codes : code' = [code EXCEPT ![h] = c]
             /\ Goto(h, "setCode") /\ UNCHANGED req
    BY <2>1, <2>2, <2>3, <2>5 DEF TypeOK, Goto, Stages
  <2>. QED BY <1>2, <2>4, <2>5 DEF CreateUser
<1>3. ASSUME NEW h \in Handlers, SetVerifyCode(h) PROVE TypeOK'
  <2>1. req[h] \in Credentials /\ req[h].email \in Emails /\ code[h] \in Codes
    BY <1>3, <1>a DEF SetVerifyCode, TypeOK
  <2>2. /\ codes' \in [Emails -> Codes \cup {NoCode}]
        /\ abandoned' \subseteq Emails
        /\ UNCHANGED <<users, inbox, signedUp, signedIn, issued, submitted, cutShort>>
    BY <1>3, <2>1 DEF SetVerifyCode, Abandon, TypeOK
  <2>3. CASE Return(h)
    BY <2>2, <2>3, ReturnTyped DEF TypeOK
  <2>4. CASE Goto(h, "sendEmail") /\ UNCHANGED <<req, code>>
    BY <2>1, <2>2, <2>4 DEF TypeOK, Goto, Stages
  <2>. QED BY <1>3, <2>3, <2>4 DEF SetVerifyCode
<1>4. ASSUME NEW h \in Handlers, SendEmail(h) PROVE TypeOK'
  <2>1. req[h] \in Credentials /\ req[h].email \in Emails /\ code[h] \in Codes
    BY <1>4, <1>a DEF SendEmail, TypeOK
  <2>2. /\ inbox' \subseteq [email : Emails, code : Codes]
        /\ signedUp' \subseteq Emails
        /\ Return(h)
        /\ UNCHANGED <<users, codes, signedIn, history>>
    BY <1>4, <2>1 DEF SendEmail, TypeOK
  <2>. QED BY <2>2, ReturnTyped DEF TypeOK, history
<1>5. ASSUME NEW h \in Handlers, VerifyEmail(h) PROVE TypeOK'
  BY <1>5 DEF VerifyEmail, Goto, TypeOK, Stages
<1>6. ASSUME NEW h \in Handlers, GetVerifyCode(h) PROVE TypeOK'
  <2>1. CASE Return(h)
    BY <1>6, <2>1, ReturnTyped DEF GetVerifyCode, TypeOK, history
  <2>2. CASE Goto(h, "delCode") /\ UNCHANGED <<req, code>>
    BY <1>6, <2>2 DEF GetVerifyCode, TypeOK, Goto, Stages, history
  <2>. QED BY <1>6, <2>1, <2>2 DEF GetVerifyCode
<1>7. ASSUME NEW h \in Handlers, DelVerifyCode(h) PROVE TypeOK'
  BY <1>7 DEF DelVerifyCode, Goto, TypeOK, Stages, history
<1>8. ASSUME NEW h \in Handlers, MarkVerified(h) PROVE TypeOK'
  <2>1. req[h].email \in Emails
    BY <1>8, <1>b DEF MarkVerified, TypeOK
  <2>2. /\ users' \in [Emails -> [password : Passwords, isVerified : BOOLEAN] \cup {NoUser}]
        /\ cutShort' \subseteq Emails
    <3>1. \/ UNCHANGED users
          \/ /\ users[req[h].email] # NoUser
             /\ users' = [users EXCEPT ![req[h].email].isVerified = TRUE]
      BY <1>8 DEF MarkVerified
    <3>2. cutShort' \subseteq Emails
      BY <1>8, <2>1 DEF MarkVerified, TypeOK
    <3>. QED BY <2>1, <3>1, <3>2 DEF TypeOK
  <2>. QED BY <1>8, <2>2, ReturnTyped DEF MarkVerified, TypeOK
<1>9. ASSUME NEW r \in Credentials, Authenticate(r) PROVE TypeOK'
  BY <1>9, <1>a DEF Authenticate, TypeOK, local, history
<1>10. ASSUME Crash PROVE TypeOK'
  <2>1. /\ {req[h].email : h \in {g \in Handlers : pc[g] = "verify"}} \subseteq Emails
        /\ {req[h].email : h \in {g \in Handlers : pc[g] = "setCode"}} \subseteq Emails
    BY <1>a, <1>b DEF TypeOK
  <2>. QED BY <1>10, <2>1 DEF Crash, TypeOK, Stages
<1>11. CASE UNCHANGED vars
  BY <1>11 DEF vars, local, history, TypeOK
<1>. QED BY <1>1, <1>2, <1>3, <1>4, <1>5, <1>6, <1>7, <1>8, <1>9, <1>10, <1>11 DEF Next

\* Requests, codes and rows keep their types through every call.
THEOREM TypeCorrect == Spec => []TypeOK
<1>1. Init => TypeOK
  BY AccountsAssumption DEF Init, TypeOK, Stages
<1>2. TypeOK /\ [Next]_vars => TypeOK'
  BY TypeStep
<1>. QED BY <1>1, <1>2, PTL DEF Spec

--------------------------------------------------------------------------------
(* Codes. *)

\* What a handler does leaves the other handlers where they are.
LEMMA OthersStay ==
    ASSUME TypeOK, NEW h \in Handlers,
           \/ SignUp(h) \/ CreateUser(h) \/ SetVerifyCode(h) \/ SendEmail(h)
           \/ VerifyEmail(h) \/ GetVerifyCode(h) \/ DelVerifyCode(h) \/ MarkVerified(h)
    PROVE  \A g \in Handlers \ {h} :
                pc'[g] = pc[g] /\ req'[g] = req[g] /\ code'[g] = code[g]
<1>1. CASE Return(h)
  BY <1>1, ReturnTyped
<1>2. CASE Goto(h, pc'[h]) /\ UNCHANGED <<req, code>>
  BY <1>2 DEF Goto, TypeOK
<1>3. CASE SignUp(h)
  BY <1>3 DEF SignUp, Goto, TypeOK
<1>4. CASE CreateUser(h)
  BY <1>1, <1>4 DEF CreateUser, Goto, TypeOK
<1>5. CASE VerifyEmail(h)
  BY <1>5 DEF VerifyEmail, Goto, TypeOK
<1>6. CASE SetVerifyCode(h)
  BY <1>1, <1>6 DEF SetVerifyCode, Goto, TypeOK
<1>7. CASE SendEmail(h)
  BY <1>1, <1>7 DEF SendEmail
<1>8. CASE GetVerifyCode(h)
  BY <1>1, <1>8 DEF GetVerifyCode, Goto, TypeOK
<1>9. CASE DelVerifyCode(h)
  BY <1>9 DEF DelVerifyCode, Goto, TypeOK
<1>10. CASE MarkVerified(h)
  BY <1>1, <1>10 DEF MarkVerified
<1>. QED BY <1>3, <1>4, <1>5, <1>6, <1>7, <1>8, <1>9, <1>10

\* When the store and what was signed in and submitted stay, only the handlers count.
LEMMA HandlersOnly ==
    ASSUME CodeInv, TypeOK', UNCHANGED <<users, codes, issued, signedIn>>,
           submitted \subseteq submitted',
           \A h \in Handlers :
                \/ pc'[h] = pc[h] /\ req'[h] = req[h] /\ code'[h] = code[h]
                \/ pc'[h] \in {"idle", "createUser"}
                \/ pc'[h] = "getCode" /\ req'[h] \in submitted' 
                \/ /\ pc[h] = "getCode" /\ pc'[h] = "delCode" /\ req'[h] = req[h]
                   /\ codes[req[h].email] = req[h].code
    PROVE  CodeInv'
<1>1. CodesAreIssued'
  <2>1. ASSUME NEW h \in Handlers, Sending(h)' 
        PROVE (HasUser(EmailOf(h)) /\ code[h] = issued[EmailOf(h)])'
    BY <2>1 DEF CodeInv, CodesAreIssued, Sending, HasUser, EmailOf
  <2>2. ASSUME NEW h \in Handlers, Verifying(h)' 
        PROVE (HasUser(EmailOf(h)) /\ req[h].code = issued[EmailOf(h)])'
    <3>1. CASE pc'[h] = pc[h] /\ req'[h] = req[h]
      BY <2>2, <3>1 DEF CodeInv, CodesAreIssued, Verifying, HasUser, EmailOf
    <3>2. CASE /\ pc[h] = "getCode" /\ pc'[h] = "delCode" /\ req'[h] = req[h]
               /\ codes[req[h].email] = req[h].code
      <4>1. req[h].email \in Emails /\ req[h].code \in Numerals
        BY <3>2 DEF CodeInv, TypeOK, Verifications
      <4>2. codes[req[h].email] # NoCode
        BY <3>2, <4>1, AccountsAssumption
      <4>. QED BY <3>2, <4>1, <4>2 DEF CodeInv, CodesAreIssued, HasUser, EmailOf
    <3>. QED BY <2>2, <3>1, <3>2 DEF Verifying
  <2>3. \A e \in Emails : codes'[e] # NoCode => HasUser(e)' /\ codes'[e] = issued'[e]
    BY DEF CodeInv, CodesAreIssued, HasUser
  <2>. QED BY <2>1, <2>2, <2>3 DEF CodesAreIssued
<1>2. UnderWayIsSubmitted'
  <2> SUFFICES ASSUME NEW h \in Handlers, pc'[h] \in {"getCode", "delCode", "verify"}
               PROVE  [email |-> req'[h].email, code |-> req'[h].code] \in submitted'
    BY DEF UnderWayIsSubmitted
  <2>1. CASE pc[h] \in {"getCode", "delCode", "verify"} /\ req'[h] = req[h]
    BY <2>1 DEF CodeInv, UnderWayIsSubmitted
  <2>2. CASE pc'[h] = "getCode" /\ req'[h] \in submitted'
    BY <2>2 DEF TypeOK, Verifications
  <2>. QED BY <2>1, <2>2
<1>3. RowsVerifiedByCode' /\ SignedInIsVerified'
  BY DEF CodeInv, RowsVerifiedByCode, SignedInIsVerified, IsVerified, HasUser
<1>. QED BY <1>1, <1>2, <1>3 DEF CodeInv

\* The INSERT makes a row whose code nobody has submitted yet; the rows of other
\* emails and their codes stay.
LEMMA InsertFacts ==
    ASSUME TypeOK, NEW h \in Handlers, NEW c \in Codes, InsertUser(h, c),
           req[h] \in Credentials, NEW e \in Emails, e = req[h].email
    PROVE  /\ ~HasUser(e) /\ HasUser(e)' /\ ~IsVerified(e)'
           /\ issued'[e] = c
           /\ \A f \in Emails \ {e} : users'[f] = users[f] /\ issued'[f] = issued[f]
<1>. req[h].password \in Passwords
  BY DEF Credentials
<1>1. users'[e] = [password |-> req[h].password, isVerified |-> FALSE]
  BY DEF InsertUser, TypeOK
<1>2. users'[e] # NoUser
  BY <1>1, [password |-> req[h].password, isVerified |-> FALSE]
                \in [password : Passwords, isVerified : BOOLEAN], AccountsAssumption
<1>3. ~(users'[e].isVerified)
  BY <1>1
<1>4. users[e] = NoUser /\ issued'[e] = c
  BY DEF InsertUser, TypeOK
<1>5. \A f \in Emails \ {e} : users'[f] = users[f] /\ issued'[f] = issued[f]
  BY DEF InsertUser, TypeOK
<1>. QED BY <1>2, <1>3, <1>4, <1>5 DEF HasUser, IsVerified

\* The UPDATE verifies the row of the request, or no row changes.
LEMMA MarkFacts ==
    ASSUME TypeOK, NEW h \in Handlers, MarkVerified(h), NEW e \in Emails, e = req[h].email
    PROVE  /\ \A f \in Emails : HasUser(f) <=> HasUser(f)'
           /\ \A f \in Emails : IsVerified(f) => IsVerified(f)'
           /\ \A f \in Emails \ {e} : users'[f] = users[f]
           /\ IsVerified(e)' \/ ~HasUser(e) \/ (UNCHANGED users /\ cutShort' = cutShort \cup {e})
<1>1. ASSUME UNCHANGED users
      PROVE  \A f \in Emails : (HasUser(f) <=> HasUser(f)') /\ (IsVerified(f) => IsVerified(f)')
  BY <1>1 DEF HasUser, IsVerified
<1>2. ASSUME users[e] # NoUser, users' = [users EXCEPT ![e].isVerified = TRUE]
      PROVE  /\ users'[e] # NoUser /\ users'[e].isVerified
             /\ \A f \in Emails \ {e} : users'[f] = users[f]
  <2>1. users[e] \in [password : Passwords, isVerified : BOOLEAN]
    BY <1>2 DEF TypeOK
  <2>2. PICK row \in [password : Passwords, isVerified : BOOLEAN] : users[e] = row
    BY <2>1
  <2>3. users' = [users EXCEPT ![e] = [row EXCEPT !.isVerified = TRUE]]
    BY <1>2, <2>2
  <2>4. users'[e] = [row EXCEPT !.isVerified = TRUE]
    BY <2>3 DEF TypeOK
  <2>5. /\ [row EXCEPT !.isVerified = TRUE] \in [password : Passwords, isVerified : BOOLEAN]
        /\ [row EXCEPT !.isVerified = TRUE].isVerified
    BY <2>2
  <2>6. users'[e] # NoUser /\ users'[e].isVerified
    BY <2>4, <2>5, AccountsAssumption
  <2>7. \A f \in Emails \ {e} : users'[f] = users[f]
    BY <2>3 DEF TypeOK
  <2>. QED BY <2>6, <2>7
<1>3. CASE users[e] # NoUser /\ users' = [users EXCEPT ![e].isVerified = TRUE]
  <2>1. /\ users'[e] # NoUser /\ users'[e].isVerified
        /\ \A f \in Emails \ {e} : users'[f] = users[f]
    BY <1>2, <1>3
  <2>2. \A f \in Emails : HasUser(f) <=> HasUser(f)'
    BY <1>3, <2>1 DEF HasUser
  <2>3. \A f \in Emails : IsVerified(f) => IsVerified(f)'
    BY <2>1 DEF HasUser, IsVerified
  <2>4. IsVerified(e)'
    BY <2>1 DEF HasUser, IsVerified
  <2>. QED BY <2>1, <2>2, <2>3, <2>4
<1>4. CASE users[e] = NoUser /\ UNCHANGED users
  BY <1>1, <1>4 DEF HasUser
<1>5. CASE cutShort' = cutShort \cup {e} /\ UNCHANGED users
  BY <1>1, <1>5
<1>6. \/ users[e] # NoUser /\ users' = [users EXCEPT ![e].isVerified = TRUE]
      \/ users[e] = NoUser /\ UNCHANGED users
      \/ cutShort' = cutShort \cup {e} /\ UNCHANGED users
  BY DEF MarkVerified
<1>. QED BY <1>3, <1>4, <1>5, <1>6

\* A second sign-up of an email stops at the INSERT: no call changes the code an
\* account waits for before the account is verified.
LEMMA CodeStep ==
    ASSUME CodeInv, [Next]_vars
    PROVE  CodeInv'
<1>t. TypeOK /\ TypeOK'
  BY TypeStep DEF CodeInv
<1>a. \A r \in Credentials : r.email \in Emails /\ r.password \in Passwords
  BY DEF Credentials
<1>b. \A r \in Verifications : r.email \in Emails /\ r.code \in Numerals
  BY DEF Verifications
<1>1. ASSUME NEW h \in Handlers, SignUp(h) PROVE CodeInv'
  <2>1. pc'[h] = "createUser"
    BY <1>1, <1>t DEF SignUp, Goto, TypeOK
  <2>. QED BY <1>1, <1>t, <2>1, OthersStay, HandlersOnly DEF SignUp, history
<1>2. ASSUME NEW h \in Handlers, CreateUser(h) PROVE CodeInv'
  <2>1. \A g \in Handlers \ {h} : pc'[g] = pc[g] /\ req'[g] = req[g] /\ code'[g] = code[g]
    BY <1>2, <1>t, OthersStay
  <2>2. req[h] \in Credentials
    BY <1>2, <1>t DEF CreateUser, TypeOK
  <2>e. PICK email \in Emails : email = req[h].email
    BY <2>2, <1>a
  <2>3. PICK c \in Codes :
            \/ /\ InsertUser(h, c)
               /\ code' = [code EXCEPT ![h] = c] /\ Goto(h, "setCode") /\ UNCHANGED req
            \/ InsertUser(h, c) /\ Return(h)
            \/ Return(h) /\ UNCHANGED <<users, issued>>
    BY <1>2 DEF CreateUser
  <2>4. UNCHANGED <<codes, signedIn, submitted>>
    BY <1>2 DEF CreateUser
  <2>5. CASE Return(h) /\ UNCHANGED <<users, issued>>
    <3>1. pc'[h] = "idle"
      BY <2>5, <1>t, ReturnTyped DEF TypeOK
    <3>. QED BY <1>t, <2>1, <2>4, <2>5, <3>1, HandlersOnly
  <2>6. CASE /\ InsertUser(h, c)
             /\ \/ pc'[h] = "setCode" /\ req'[h] = req[h] /\ code'[h] = c
                \/ pc'[h] = "idle"
    <3>1. /\ ~HasUser(email) /\ HasUser(email)' /\ ~IsVerified(email)'
          /\ issued'[email] = c
          /\ \A e \in Emails \ {email} : users'[e] = users[e] /\ issued'[e] = issued[e]
      BY <1>t, <2>2, <2>e, <2>6, InsertFacts
    <3>2. \A e \in Emails : HasUser(e) => /\ e # email /\ users'[e] = users[e]
                                          /\ issued'[e] = issued[e] /\ HasUser(e)'
      BY <3>1 DEF HasUser
    <3>3. ASSUME NEW g \in Handlers, Sending(g)'
          PROVE  (HasUser(EmailOf(g)) /\ code[g] = issued[EmailOf(g)])'
      <4>1. CASE g = h
        BY <2>e, <2>6, <3>1, <3>3, <4>1 DEF Sending, EmailOf, HasUser
      <4>2. CASE g # h
        <5>1. Sending(g) /\ EmailOf(g) \in Emails /\ EmailOf(g)' = EmailOf(g)
          BY <1>t, <1>a, <2>1, <3>3, <4>2 DEF Sending, EmailOf, TypeOK
        <5>. QED BY <2>1, <3>2, <4>2, <5>1 DEF CodeInv, CodesAreIssued, HasUser
      <4>. QED BY <4>1, <4>2
    <3>4. ASSUME NEW g \in Handlers, Verifying(g)'
          PROVE  (HasUser(EmailOf(g)) /\ req[g].code = issued[EmailOf(g)])'
      <4>1. Verifying(g) /\ EmailOf(g) \in Emails /\ EmailOf(g)' = EmailOf(g) /\ req'[g] = req[g]
        BY <1>t, <1>b, <2>1, <2>6, <3>4 DEF Verifying, EmailOf, TypeOK
      <4>. QED BY <3>2, <4>1 DEF CodeInv, CodesAreIssued, HasUser
    <3>5. \A e \in Emails : codes'[e] # NoCode => HasUser(e)' /\ codes'[e] = issued'[e]
      BY <2>4, <3>2 DEF CodeInv, CodesAreIssued
    <3>6. UnderWayIsSubmitted'
      BY <2>1, <2>4, <2>6 DEF CodeInv, UnderWayIsSubmitted
    <3>7. RowsVerifiedByCode'
      <4> SUFFICES ASSUME NEW e \in Emails, IsVerified(e)'
                   PROVE  [email |-> e, code |-> issued'[e]] \in submitted'
        BY DEF RowsVerifiedByCode, IsVerified, HasUser
      <4>1. e # email
        BY <3>1
      <4>2. IsVerified(e) /\ issued'[e] = issued[e]
        BY <3>1, <4>1 DEF IsVerified, HasUser
      <4>. QED BY <2>4, <4>2 DEF CodeInv, RowsVerifiedByCode, IsVerified, HasUser
    <3>8. SignedInIsVerified'
      BY <1>t, <2>4, <3>2 DEF CodeInv, SignedInIsVerified, IsVerified, TypeOK
    <3>. QED BY <1>t, <3>3, <3>4, <3>5, <3>6, <3>7, <3>8 DEF CodeInv, CodesAreIssued
  <2>7. Return(h) => pc'[h] = "idle"
    BY <1>t, ReturnTyped DEF TypeOK
  <2>8. ASSUME code' = [code EXCEPT ![h] = c], Goto(h, "setCode"), UNCHANGED req
        PROVE pc'[h] = "setCode" /\ req'[h] = req[h] /\ code'[h] = c
    BY <1>t, <2>8 DEF Goto, TypeOK
  <2>. QED BY <2>3, <2>5, <2>6, <2>7, <2>8
<1>3. ASSUME NEW h \in Handlers, SetVerifyCode(h) PROVE CodeInv'
  <2>1. \A g \in Handlers \ {h} : pc'[g] = pc[g] /\ req'[g] = req[g] /\ code'[g] = code[g]
    BY <1>3, <1>t, OthersStay
  <2>2. /\ Sending(h) /\ EmailOf(h) \in Emails
        /\ HasUser(EmailOf(h)) /\ code[h] = issued[EmailOf(h)]
    BY <1>3, <1>t, <1>a DEF SetVerifyCode, Sending, EmailOf, TypeOK, CodeInv, CodesAreIssued
  <2>3. UNCHANGED <<users, issued, signedIn, submitted>>
    BY <1>3 DEF SetVerifyCode
  <2>4. \/ pc'[h] = "sendEmail" /\ req'[h] = req[h] /\ code'[h] = code[h]
        \/ pc'[h] = "idle"
    BY <1>3, <1>t, ReturnTyped DEF SetVerifyCode, Goto, TypeOK
  <2>5. \A e \in Emails : codes'[e] = codes[e] \/ (e = EmailOf(h) /\ codes'[e] = code[h])
    BY <1>3, <1>t DEF SetVerifyCode, EmailOf, TypeOK
  <2>6. CodesAreIssued'
    <3>1. \A e \in Emails : codes'[e] # NoCode => HasUser(e)' /\ codes'[e] = issued'[e]
      BY <2>2, <2>3, <2>5 DEF CodeInv, CodesAreIssued, HasUser
    <3>2. \A g \in Handlers : Sending(g)' => HasUser(EmailOf(g))' /\ code'[g] = issued'[EmailOf(g)']
      BY <2>1, <2>2, <2>3, <2>4 DEF CodeInv, CodesAreIssued, HasUser, Sending, EmailOf
    <3>3. \A g \in Handlers :
            Verifying(g)' => HasUser(EmailOf(g))' /\ req'[g].code = issued'[EmailOf(g)']
      BY <2>1, <2>3, <2>4 DEF CodeInv, CodesAreIssued, HasUser, Verifying, EmailOf
    <3>. QED BY <3>1, <3>2, <3>3 DEF CodesAreIssued
  <2>7. UnderWayIsSubmitted'
    BY <2>1, <2>3, <2>4 DEF CodeInv, UnderWayIsSubmitted
  <2>8. RowsVerifiedByCode' /\ SignedInIsVerified'
    BY <2>3 DEF CodeInv, RowsVerifiedByCode, SignedInIsVerified, IsVerified, HasUser
  <2>. QED BY <1>t, <2>6, <2>7, <2>8 DEF CodeInv
<1>4. ASSUME NEW h \in Handlers, SendEmail(h) PROVE CodeInv'
  <2>1. pc'[h] = "idle"
    BY <1>4, <1>t, ReturnTyped DEF SendEmail, TypeOK
  <2>. QED BY <1>4, <1>t, <2>1, OthersStay, HandlersOnly DEF SendEmail, history
<1>5. ASSUME NEW h \in Handlers, VerifyEmail(h) PROVE CodeInv'
  <2>1. pc'[h] = "getCode" /\ req'[h] \in submitted' /\ submitted \subseteq submitted'
    BY <1>5, <1>t DEF VerifyEmail, Goto, TypeOK
  <2>. QED BY <1>5, <1>t, <2>1, OthersStay, HandlersOnly DEF VerifyEmail
<1>6. ASSUME NEW h \in Handlers, GetVerifyCode(h) PROVE CodeInv'
  <2>1. \/ pc'[h] = "idle"
        \/ /\ pc[h] = "getCode" /\ pc'[h] = "delCode" /\ req'[h] = req[h]
           /\ codes[req[h].email] = req[h].code
    BY <1>6, <1>t, ReturnTyped DEF GetVerifyCode, Goto, TypeOK
  <2>. QED BY <1>6, <1>t, <2>1, OthersStay, HandlersOnly DEF GetVerifyCode, history
<1>7. ASSUME NEW h \in Handlers, DelVerifyCode(h) PROVE CodeInv'
  <2>1. \A g \in Handlers \ {h} : pc'[g] = pc[g] /\ req'[g] = req[g] /\ code'[g] = code[g]
    BY <1>7, <1>t, OthersStay
  <2>2. /\ pc[h] = "delCode" /\ pc'[h] = "verify" /\ req'[h] = req[h]
        /\ UNCHANGED <<users, issued, signedIn, submitted>>
    BY <1>7, <1>t DEF DelVerifyCode, Goto, TypeOK, history
  <2>3. \A e \in Emails : codes'[e] # NoCode => codes'[e] = codes[e]
    BY <1>7, <1>t DEF DelVerifyCode, TypeOK
  <2>4. CodesAreIssued'
    <3>1. \A e \in Emails : codes'[e] # NoCode => HasUser(e)' /\ codes'[e] = issued'[e]
      BY <2>2, <2>3 DEF CodeInv, CodesAreIssued, HasUser
    <3>2. \A g \in Handlers : Sending(g)' => HasUser(EmailOf(g))' /\ code'[g] = issued'[EmailOf(g)']
      BY <2>1, <2>2 DEF CodeInv, CodesAreIssued, HasUser, Sending, EmailOf
    <3>3. \A g \in Handlers :
            Verifying(g)' => HasUser(EmailOf(g))' /\ req'[g].code = issued'[EmailOf(g)']
      BY <2>1, <2>2 DEF CodeInv, CodesAreIssued, HasUser, Verifying, EmailOf
    <3>. QED BY <3>1, <3>2, <3>3 DEF CodesAreIssued
  <2>5. UnderWayIsSubmitted'
    BY <2>1, <2>2 DEF CodeInv, UnderWayIsSubmitted
  <2>6. RowsVerifiedByCode' /\ SignedInIsVerified'
    BY <2>2 DEF CodeInv, RowsVerifiedByCode, SignedInIsVerified, IsVerified, HasUser
  <2>. QED BY <1>t, <2>4, <2>5, <2>6 DEF CodeInv
<1>8. ASSUME NEW h \in Handlers, MarkVerified(h) PROVE CodeInv'
  <2>1. \A g \in Handlers \ {h} : pc'[g] = pc[g] /\ req'[g] = req[g] /\ code'[g] = code[g]
    BY <1>8, <1>t, OthersStay
  <2>2. pc'[h] = "idle" /\ pc[h] = "verify" /\ UNCHANGED <<codes, issued, signedIn, submitted>>
    BY <1>8, <1>t, ReturnTyped DEF MarkVerified, TypeOK
  <2>e. PICK email \in Emails : email = req[h].email
    BY <1>t, <1>b, <2>2 DEF TypeOK
  <2>3. /\ \A e \in Emails : HasUser(e) <=> HasUser(e)'
        /\ \A e \in Emails : IsVerified(e) => IsVerified(e)'
        /\ \A e \in Emails \ {email} : users'[e] = users[e]
    BY <1>8, <1>t, <2>e, MarkFacts
  <2>4. CodesAreIssued'
    <3>1. \A e \in Emails : codes'[e] # NoCode => HasUser(e)' /\ codes'[e] = issued'[e]
      BY <2>2, <2>3 DEF CodeInv, CodesAreIssued
    <3>2. ASSUME NEW g \in Handlers, Sending(g)'
          PROVE  HasUser(EmailOf(g))' /\ code'[g] = issued'[EmailOf(g)']
      <4>1. PICK e \in Emails : e = req[g].email /\ e = req'[g].email /\ Sending(g)
        BY <1>t, <1>a, <2>1, <2>2, <3>2 DEF Sending, TypeOK
      <4>2. HasUser(e) /\ code[g] = issued[e]
        BY <4>1 DEF CodeInv, CodesAreIssued, EmailOf
      <4>. QED BY <2>1, <2>2, <2>3, <3>2, <4>1, <4>2 DEF EmailOf, HasUser, Sending
    <3>3. ASSUME NEW g \in Handlers, Verifying(g)'
          PROVE  HasUser(EmailOf(g))' /\ req'[g].code = issued'[EmailOf(g)']
      <4>1. PICK e \in Emails : e = req[g].email /\ req'[g] = req[g] /\ Verifying(g)
        BY <1>t, <1>b, <2>1, <2>2, <3>3 DEF Verifying, TypeOK
      <4>2. HasUser(e) /\ req[g].code = issued[e]
        BY <4>1 DEF CodeInv, CodesAreIssued, EmailOf
      <4>. QED BY <2>2, <2>3, <4>1, <4>2 DEF EmailOf, HasUser
    <3>. QED BY <3>1, <3>2, <3>3 DEF CodesAreIssued
  <2>5. UnderWayIsSubmitted'
    BY <2>1, <2>2 DEF CodeInv, UnderWayIsSubmitted
  <2>6. RowsVerifiedByCode'
    <3>1. [email |-> email, code |-> issued[email]] \in submitted
      <4>1. [email |-> email, code |-> req[h].code] \in submitted
        BY <2>2, <2>e DEF CodeInv, UnderWayIsSubmitted
      <4>2. req[h].code = issued[email]
        BY <2>2, <2>e DEF CodeInv, CodesAreIssued, Verifying, EmailOf
      <4>. QED BY <4>1, <4>2
    <3> SUFFICES ASSUME NEW e \in Emails, IsVerified(e)', e # email
                 PROVE  [email |-> e, code |-> issued[e]] \in submitted
      BY <2>2, <3>1 DEF RowsVerifiedByCode, IsVerified, HasUser
    <3>2. IsVerified(e)
      BY <2>3 DEF IsVerified, HasUser
    <3>. QED BY <3>2 DEF CodeInv, RowsVerifiedByCode, IsVerified, HasUser
  <2>7. SignedInIsVerified'
    BY <1>t, <2>2, <2>3 DEF CodeInv, SignedInIsVerified, TypeOK
  <2>. QED BY <1>t, <2>4, <2>5, <2>6, <2>7 DEF CodeInv
<1>9. ASSUME NEW r \in Credentials, Authenticate(r) PROVE CodeInv'
  <2>1. UNCHANGED <<pc, req, code, users, codes, issued, submitted>>
    BY <1>9 DEF Authenticate, local, history
  <2>2. CodesAreIssued' /\ UnderWayIsSubmitted' /\ RowsVerifiedByCode'
    BY <2>1 DEF CodeInv, CodesAreIssued, UnderWayIsSubmitted, RowsVerifiedByCode,
                Sending, Verifying, EmailOf, HasUser, IsVerified
  <2>3. SignedInIsVerified'
    <3>1. IsVerified(r.email) /\ signedIn' = signedIn \cup {r.email}
      BY <1>9 DEF Authenticate, IsVerified, HasUser
    <3>2. \A e \in signedIn : IsVerified(e)
      BY DEF CodeInv, SignedInIsVerified
    <3>. QED BY <2>1, <3>1, <3>2 DEF SignedInIsVerified, IsVerified, HasUser
  <2>. QED BY <1>t, <2>2, <2>3 DEF CodeInv
<1>10. ASSUME Crash PROVE CodeInv'
  BY <1>10, <1>t, HandlersOnly DEF Crash
<1>11. CASE UNCHANGED vars
  BY <1>11, <1>t, HandlersOnly DEF vars, local, history
<1>. QED BY <1>1, <1>2, <1>3, <1>4, <1>5, <1>6, <1>7, <1>8, <1>9, <1>10, <1>11 DEF Next

\* CodeInv holds of every reachable state.
LEMMA CodeInductive == Spec => []CodeInv
<1>1. Init => CodeInv
  <2> SUFFICES ASSUME Init PROVE CodeInv
    OBVIOUS
  <2>1. TypeOK
    BY AccountsAssumption DEF Init, TypeOK, Stages
  <2>2. CodesAreIssued /\ UnderWayIsSubmitted
    BY DEF Init, CodesAreIssued, UnderWayIsSubmitted, Sending, Verifying
  <2>3. RowsVerifiedByCode /\ SignedInIsVerified
    BY DEF Init, RowsVerifiedByCode, SignedInIsVerified, IsVerified, HasUser
  <2>. QED BY <2>1, <2>2, <2>3 DEF CodeInv
<1>2. CodeInv /\ [Next]_vars => CodeInv'
  BY CodeStep
<1>. QED BY <1>1, <1>2, PTL DEF Spec

\* Whoever is verified, or signs in, had the code its own sign-up made submitted, for
\* any number of sign-ups, verifications and crashes.
THEOREM AccountsNeedTheirCode == Spec => []VerifiedByItsCode
<1>1. CodeInv => VerifiedByItsCode
  BY DEF CodeInv, VerifiedByItsCode, SignedInIsVerified, RowsVerifiedByCode, HasUser
<1>. QED BY <1>1, CodeInductive, PTL

--------------------------------------------------------------------------------
(* Accounts that can still be verified. *)

\* When no handler gets a row, only the emails that are newly abandoned or answered
\* count.
LEMMA NoNewSender ==
    ASSUME CodeInv, CodeInv', OneSignUp,
           \A e \in Emails : HasUser(e) => HasUser(e)',
           \A h \in Handlers : Sending(h)' => Sending(h) /\ req'[h] = req[h],
           \A e \in abandoned' \cup signedUp' :
                \/ e \in abandoned \cup signedUp
                \/ /\ HasUser(e)
                   /\ \A h \in Handlers : Sending(h)' => req[h].email # e
    PROVE  OneSignUp'
<1>1. \A g, h \in Handlers : Sending(g)' /\ Sending(h)' /\ g # h => EmailOf(g)' # EmailOf(h)'
  BY DEF OneSignUp, EmailOf
<1>2. \A h \in Handlers : Sending(h)' => EmailOf(h)' \notin abandoned' \cup signedUp'
  BY DEF OneSignUp, EmailOf
<1>3. \A e \in abandoned' \cup signedUp' : HasUser(e)'
  BY DEF OneSignUp, CodeInv, TypeOK
<1>. QED BY <1>1, <1>2, <1>3 DEF OneSignUp

\* One email, one sign-up beyond the INSERT.
LEMMA OneSignUpStep ==
    ASSUME CodeInv, OneSignUp, [Next]_vars
    PROVE  OneSignUp'
<1>t. TypeOK /\ TypeOK' /\ CodeInv'
  BY TypeStep, CodeStep DEF CodeInv
<1>a. \A r \in Credentials : r.email \in Emails
  BY DEF Credentials
<1>1. ASSUME NEW h \in Handlers,
             SignUp(h) \/ VerifyEmail(h) \/ GetVerifyCode(h) \/ DelVerifyCode(h)
      PROVE  OneSignUp'
  <2>1. pc'[h] \in {"createUser", "getCode", "delCode", "verify", "idle"}
    BY <1>1, <1>t, ReturnTyped DEF SignUp, VerifyEmail, GetVerifyCode, DelVerifyCode, Goto, TypeOK
  <2>2. UNCHANGED <<users, abandoned, signedUp>>
    BY <1>1 DEF SignUp, VerifyEmail, GetVerifyCode, DelVerifyCode, history
  <2>. QED BY <1>1, <1>t, <2>1, <2>2, OthersStay, NoNewSender DEF Sending, HasUser
<1>2. ASSUME NEW h \in Handlers, CreateUser(h) PROVE OneSignUp'
  <2>1. \A g \in Handlers \ {h} : pc'[g] = pc[g] /\ req'[g] = req[g]
    BY <1>2, <1>t, OthersStay
  <2>2. req[h] \in Credentials
    BY <1>2, <1>t DEF CreateUser, TypeOK
  <2>3. PICK email \in Emails : email = req[h].email
    BY <1>a, <2>2
  <2>4. UNCHANGED signedUp
    BY <1>2 DEF CreateUser
  <2>5. CASE Return(h) /\ UNCHANGED <<users, abandoned>>
    <3>1. pc'[h] = "idle"
      BY <1>t, <2>5, ReturnTyped DEF TypeOK
    <3>. QED BY <1>t, <2>1, <2>4, <2>5, <3>1, NoNewSender DEF Sending, HasUser
  <2>6. ASSUME NEW c \in Codes, InsertUser(h, c),
               \/ pc'[h] = "setCode" /\ req'[h] = req[h] /\ UNCHANGED abandoned
               \/ pc'[h] = "idle" /\ abandoned' = abandoned \cup {email}
        PROVE  OneSignUp'
    <3>1. /\ ~HasUser(email) /\ HasUser(email)'
          /\ \A e \in Emails : HasUser(e) => HasUser(e)'
      BY <1>t, <2>2, <2>3, <2>6, InsertFacts DEF HasUser
    <3>2. \A g \in Handlers : Sending(g) => HasUser(EmailOf(g)) /\ EmailOf(g) # email
      BY <3>1 DEF CodeInv, CodesAreIssued
    <3>3. \A g, k \in Handlers : Sending(g)' /\ Sending(k)' /\ g # k => EmailOf(g)' # EmailOf(k)'
      BY <2>1, <2>3, <2>6, <3>2 DEF OneSignUp, EmailOf, Sending
    <3>4. email \notin abandoned \cup signedUp
      BY <3>1 DEF OneSignUp
    <3>5. \A g \in Handlers : Sending(g)' => EmailOf(g)' \notin abandoned' \cup signedUp'
      BY <2>1, <2>3, <2>4, <2>6, <3>2, <3>4 DEF OneSignUp, EmailOf, Sending
    <3>6. \A e \in abandoned' \cup signedUp' : HasUser(e)'
      BY <1>t, <2>4, <2>6, <3>1 DEF OneSignUp, TypeOK
    <3>. QED BY <3>3, <3>5, <3>6 DEF OneSignUp
  <2>7. PICK c \in Codes :
            \/ /\ InsertUser(h, c)
               /\ Goto(h, "setCode") /\ UNCHANGED <<req, abandoned>>
            \/ InsertUser(h, c) /\ Return(h) /\ abandoned' = abandoned \cup {email}
            \/ Return(h) /\ UNCHANGED <<users, abandoned>>
    BY <1>2, <2>3 DEF CreateUser, Abandon
  <2>8. Return(h) => pc'[h] = "idle"
    BY <1>t, ReturnTyped DEF TypeOK
  <2>9. Goto(h, "setCode") => pc'[h] = "setCode"
    BY <1>t DEF Goto, TypeOK
  <2>. QED BY <2>5, <2>6, <2>7, <2>8, <2>9
<1>3. ASSUME NEW h \in Handlers, SetVerifyCode(h) \/ SendEmail(h) PROVE OneSignUp'
  <2>1. \A g \in Handlers \ {h} : pc'[g] = pc[g] /\ req'[g] = req[g]
    BY <1>3, <1>t, OthersStay
  <2>2. Sending(h) /\ req[h].email \in Emails /\ HasUser(req[h].email)
    BY <1>3, <1>t, <1>a DEF SetVerifyCode, SendEmail, Sending, TypeOK, CodeInv, CodesAreIssued, EmailOf
  <2>3. UNCHANGED users
    BY <1>3 DEF SetVerifyCode, SendEmail
  <2>4. \/ pc'[h] = "idle" /\ abandoned' \cup signedUp' \subseteq abandoned \cup signedUp \cup {req[h].email}
        \/ req'[h] = req[h] /\ UNCHANGED <<abandoned, signedUp>>
    BY <1>3, <1>t, ReturnTyped DEF SetVerifyCode, SendEmail, Abandon, TypeOK, history
  <2>5. CASE req'[h] = req[h] /\ UNCHANGED <<abandoned, signedUp>>
    BY <1>t, <2>1, <2>2, <2>3, <2>5, NoNewSender DEF Sending, HasUser
  <2>6. CASE /\ pc'[h] = "idle"
             /\ abandoned' \cup signedUp' \subseteq abandoned \cup signedUp \cup {req[h].email}
    <3>1. \A g \in Handlers : Sending(g)' => g # h /\ Sending(g) /\ req'[g] = req[g]
                                              /\ req[g].email # req[h].email
      BY <2>1, <2>2, <2>6 DEF Sending, OneSignUp, EmailOf
    <3>. QED BY <1>t, <2>2, <2>3, <2>6, <3>1, NoNewSender DEF HasUser
  <2>. QED BY <2>4, <2>5, <2>6
<1>4. ASSUME NEW h \in Handlers, MarkVerified(h) PROVE OneSignUp'
  <2>1. pc[h] = "verify" /\ pc'[h] = "idle" /\ UNCHANGED <<abandoned, signedUp>>
    BY <1>4, <1>t, ReturnTyped DEF MarkVerified, TypeOK
  <2>2. req[h].email \in Emails
    BY <1>t, <2>1 DEF TypeOK, Verifications
  <2>3. \A e \in Emails : HasUser(e) => HasUser(e)'
    BY <1>4, <1>t, <2>2, MarkFacts
  <2>. QED BY <1>4, <1>t, <2>1, <2>3, OthersStay, NoNewSender DEF Sending
<1>5. ASSUME NEW r \in Credentials, Authenticate(r) PROVE OneSignUp'
  BY <1>5 DEF Authenticate, local, history, OneSignUp, Sending, EmailOf, HasUser
<1>6. ASSUME Crash PROVE OneSignUp'
  <2>1. \A h \in Handlers : ~Sending(h)'
    BY <1>6 DEF Crash, Sending
  <2>2. UNCHANGED <<users, signedUp>>
    BY <1>6 DEF Crash
  <2>3. \A e \in abandoned' : e \in abandoned \/ HasUser(e)
    <3> SUFFICES ASSUME NEW e \in abandoned', e \notin abandoned PROVE HasUser(e)
      OBVIOUS
    <3>1. PICK h \in Handlers : pc[h] = "setCode" /\ e = req[h].email
      BY <1>6 DEF Crash
    <3>. QED BY <3>1 DEF CodeInv, CodesAreIssued, Sending, EmailOf
  <2>. QED BY <1>t, <2>1, <2>2, <2>3, NoNewSender DEF HasUser
<1>7. CASE UNCHANGED vars
  BY <1>7 DEF vars, local, history, OneSignUp, Sending, EmailOf, HasUser
<1>. QED BY <1>1, <1>2, <1>3, <1>4, <1>5, <1>6, <1>7 DEF Next

\* The ways of AccountsStayVerifiable for one email.
Verifiable(e) ==
    \/ IsVerified(e)
    \/ codes[e] = issued[e]
    \/ At(e, "setCode") \/ At(e, "verify")
    \/ e \in cutShort
    \/ e \in abandoned /\ e \notin signedUp

\* A step that has nothing to do with an email leaves it a way.
LEMMA VerifiableStays ==
    ASSUME NEW e \in Emails, Verifiable(e),
           IsVerified(e) => IsVerified(e)',
           codes'[e] = codes[e], issued'[e] = issued[e],
           \A h \in Handlers : pc[h] \in {"setCode", "verify"} /\ req[h].email = e =>
                pc'[h] = pc[h] /\ req'[h] = req[h],
           cutShort \subseteq cutShort', abandoned \subseteq abandoned',
           e \in abandoned /\ e \in signedUp' => e \in signedUp
    PROVE  Verifiable(e)'
<1>1. At(e, "setCode") => At(e, "setCode")'
  BY DEF At
<1>2. At(e, "verify") => At(e, "verify")'
  BY DEF At
<1>. QED BY <1>1, <1>2 DEF Verifiable

\* The code is in Redis before its row is answered for, and leaves Redis only in
\* the hands of a handler that goes on to the UPDATE.
LEMMA VerifiableStep ==
    ASSUME AccountsInv, [Next]_vars
    PROVE  AccountsStayVerifiable'
<1>t. TypeOK /\ TypeOK' /\ CodeInv /\ OneSignUp
  BY TypeStep DEF CodeInv, AccountsInv
<1>a. \A r \in Credentials : r.email \in Emails
  BY DEF Credentials
<1>b. \A r \in Verifications : r.email \in Emails
  BY DEF Verifications
<1>v. \A e \in Emails : HasUser(e) => Verifiable(e)
  BY DEF AccountsInv, AccountsStayVerifiable, Verifiable, IsVerified, HasUser
<1> SUFFICES ASSUME NEW e \in Emails, HasUser(e)' PROVE Verifiable(e)'
  BY DEF AccountsStayVerifiable, Verifiable, IsVerified, HasUser, At
<1>1. ASSUME NEW h \in Handlers, SignUp(h) \/ VerifyEmail(h) \/ GetVerifyCode(h)
      PROVE  Verifiable(e)'
  <2>1. /\ pc[h] \in {"idle", "getCode"}
        /\ UNCHANGED <<users, codes, issued, cutShort, abandoned, signedUp>>
    BY <1>1 DEF SignUp, VerifyEmail, GetVerifyCode, history
  <2>. QED BY <1>1, <1>t, <1>v, <2>1, OthersStay, VerifiableStays DEF HasUser, IsVerified
<1>2. ASSUME NEW h \in Handlers, CreateUser(h) PROVE Verifiable(e)'
  <2>1. \A g \in Handlers \ {h} : pc'[g] = pc[g] /\ req'[g] = req[g]
    BY <1>2, <1>t, OthersStay
  <2>2. req[h] \in Credentials /\ pc[h] = "createUser"
    BY <1>2, <1>t DEF CreateUser, TypeOK
  <2>3. PICK email \in Emails : email = req[h].email
    BY <1>a, <2>2
  <2>4. UNCHANGED <<codes, signedUp, cutShort>> /\ abandoned \subseteq abandoned'
    BY <1>2 DEF CreateUser, Abandon
  <2>5. PICK c \in Codes :
            \/ /\ InsertUser(h, c)
               /\ \/ Goto(h, "setCode") /\ UNCHANGED req
                  \/ email \in abandoned'
            \/ UNCHANGED <<users, issued>>
    BY <1>2, <2>3 DEF CreateUser, Abandon
  <2>6. CASE UNCHANGED <<users, issued>>
    BY <1>v, <2>1, <2>2, <2>4, <2>6, VerifiableStays DEF HasUser, IsVerified
  <2>7. CASE InsertUser(h, c) /\ e # email
    <3>1. users'[e] = users[e] /\ issued'[e] = issued[e]
      BY <1>t, <2>2, <2>3, <2>7, InsertFacts
    <3>. QED BY <1>v, <2>1, <2>2, <2>4, <3>1, VerifiableStays DEF HasUser, IsVerified
  <2>8. CASE e = email /\ Goto(h, "setCode") /\ UNCHANGED req
    <3>1. pc'[h] = "setCode" /\ req'[h].email = e
      BY <1>t, <2>3, <2>8 DEF Goto, TypeOK
    <3>. QED BY <3>1 DEF Verifiable, At
  <2>9. CASE e = email /\ InsertUser(h, c) /\ email \in abandoned'
    <3>1. ~HasUser(e)
      BY <1>t, <2>2, <2>3, <2>9, InsertFacts
    <3>2. e \notin signedUp'
      BY <1>t, <2>4, <3>1 DEF OneSignUp
    <3>. QED BY <2>9, <3>2 DEF Verifiable
  <2>. QED BY <2>5, <2>6, <2>7, <2>8, <2>9
<1>3. ASSUME NEW h \in Handlers, SetVerifyCode(h) PROVE Verifiable(e)'
  <2>1. \A g \in Handlers \ {h} : pc'[g] = pc[g] /\ req'[g] = req[g]
    BY <1>3, <1>t, OthersStay
  <2>2. /\ Sending(h) /\ req[h].email \in Emails /\ code[h] = issued[req[h].email]
        /\ req[h].email \notin signedUp
    BY <1>3, <1>t, <1>a DEF SetVerifyCode, Sending, TypeOK, CodeInv, CodesAreIssued, OneSignUp, EmailOf
  <2>3. /\ UNCHANGED <<users, issued, signedUp, cutShort>>
        /\ abandoned \subseteq abandoned'
    BY <1>3 DEF SetVerifyCode, Abandon
  <2>4. \/ codes'[req[h].email] = code[h]
        \/ req[h].email \in abandoned'
    BY <1>3, <1>t, <2>2 DEF SetVerifyCode, Abandon, TypeOK
  <2>5. \A f \in Emails : f # req[h].email => codes'[f] = codes[f]
    BY <1>3, <1>t DEF SetVerifyCode, TypeOK
  <2>6. CASE e = req[h].email
    BY <2>2, <2>3, <2>4, <2>6 DEF Verifiable
  <2>7. CASE e # req[h].email
    BY <1>v, <2>1, <2>3, <2>5, <2>7, VerifiableStays DEF HasUser, IsVerified
  <2>. QED BY <2>6, <2>7
<1>4. ASSUME NEW h \in Handlers, SendEmail(h) PROVE Verifiable(e)'
  <2>1. Sending(h) /\ req[h].email \notin abandoned /\ pc[h] = "sendEmail"
    BY <1>4, <1>t DEF SendEmail, Sending, OneSignUp, EmailOf
  <2>2. /\ UNCHANGED <<users, codes, issued, cutShort, abandoned>>
        /\ signedUp' \subseteq signedUp \cup {req[h].email}
    BY <1>4 DEF SendEmail, history
  <2>. QED BY <1>4, <1>t, <1>v, <2>1, <2>2, OthersStay, VerifiableStays DEF HasUser, IsVerified
<1>5. ASSUME NEW h \in Handlers, DelVerifyCode(h) PROVE Verifiable(e)'
  <2>1. /\ pc[h] = "delCode" /\ pc'[h] = "verify" /\ req'[h] = req[h]
        /\ UNCHANGED <<users, issued, cutShort, abandoned, signedUp>>
    BY <1>5, <1>t DEF DelVerifyCode, Goto, TypeOK, history
  <2>2. \A f \in Emails : f # req[h].email => codes'[f] = codes[f]
    BY <1>5, <1>t DEF DelVerifyCode, TypeOK
  <2>3. CASE e = req[h].email
    BY <2>1, <2>3 DEF Verifiable, At
  <2>4. CASE e # req[h].email
    BY <1>5, <1>t, <1>v, <2>1, <2>2, <2>4, OthersStay, VerifiableStays DEF HasUser, IsVerified
  <2>. QED BY <2>3, <2>4
<1>6. ASSUME NEW h \in Handlers, MarkVerified(h) PROVE Verifiable(e)'
  <2>1. /\ pc[h] = "verify"
        /\ UNCHANGED <<codes, issued, abandoned, signedUp>>
        /\ cutShort \subseteq cutShort'
    BY <1>6 DEF MarkVerified
  <2>2. PICK email \in Emails : email = req[h].email
    BY <1>t, <1>b, <2>1 DEF TypeOK
  <2>3. /\ \A f \in Emails : HasUser(f) <=> HasUser(f)'
        /\ \A f \in Emails : IsVerified(f) => IsVerified(f)'
        /\ IsVerified(email)' \/ ~HasUser(email) \/ (cutShort' = cutShort \cup {email})
    BY <1>6, <1>t, <2>2, MarkFacts
  <2>4. CASE e = email
    BY <2>3, <2>4 DEF Verifiable
  <2>5. CASE e # email
    BY <1>6, <1>t, <1>v, <2>1, <2>2, <2>3, <2>5, OthersStay, VerifiableStays
  <2>. QED BY <2>4, <2>5
<1>7. ASSUME NEW r \in Credentials, Authenticate(r) PROVE Verifiable(e)'
  BY <1>7, <1>v, VerifiableStays DEF Authenticate, local, history, HasUser, IsVerified
<1>8. ASSUME Crash PROVE Verifiable(e)'
  <2>1. UNCHANGED <<users, codes, issued, signedUp>>
    BY <1>8 DEF Crash
  <2>2. cutShort \subseteq cutShort' /\ abandoned \subseteq abandoned'
    BY <1>8 DEF Crash
  <2>3. CASE At(e, "setCode")
    <3>1. e \in abandoned'
      BY <1>8, <2>3 DEF Crash, At
    <3>2. e \notin signedUp
      BY <1>t, <2>3 DEF At, OneSignUp, Sending, EmailOf
    <3>. QED BY <2>1, <3>1, <3>2 DEF Verifiable
  <2>4. CASE At(e, "verify")
    <3>1. e \in cutShort'
      BY <1>8, <2>4 DEF Crash, At
    <3>. QED BY <3>1 DEF Verifiable
  <2>5. CASE ~At(e, "setCode") /\ ~At(e, "verify")
    BY <1>v, <2>1, <2>2, <2>5, VerifiableStays DEF At, HasUser, IsVerified
  <2>. QED BY <2>3, <2>4, <2>5
<1>9. CASE UNCHANGED vars
  BY <1>9, <1>v, VerifiableStays DEF vars, local, history, HasUser, IsVerified
<1>. QED BY <1>1, <1>2, <1>3, <1>4, <1>5, <1>6, <1>7, <1>8, <1>9 DEF Next

\* No account is stranded but by a failure between the DEL and the UPDATE, or by one
\* of its sign-up, which then was never answered.
THEOREM NoAccountIsStranded == Spec => []AccountsStayVerifiable
<1>1. Init => AccountsInv
  <2> SUFFICES ASSUME Init PROVE AccountsInv
    OBVIOUS
  <2>1. TypeOK
    BY AccountsAssumption DEF Init, TypeOK, Stages
  <2>2. CodesAreIssued /\ UnderWayIsSubmitted /\ OneSignUp
    BY DEF Init, CodesAreIssued, UnderWayIsSubmitted, OneSignUp, Sending, Verifying
  <2>3. RowsVerifiedByCode /\ SignedInIsVerified /\ AccountsStayVerifiable
    BY DEF Init, RowsVerifiedByCode, SignedInIsVerified, AccountsStayVerifiable, IsVerified, HasUser
  <2>. QED BY <2>1, <2>2, <2>3 DEF CodeInv, AccountsInv
<1>2. AccountsInv /\ [Next]_vars => AccountsInv'
  BY CodeStep, OneSignUpStep, VerifiableStep DEF AccountsInv
<1>3. AccountsInv => AccountsStayVerifiable
  BY DEF AccountsInv
<1>. QED BY <1>1, <1>2, <1>3, PTL DEF Spec

--------------------------------------------------------------------------------
(* The mails of sign-ups. *)

NoMail == inbox = {}

\* The email service refuses what a sign-up posts, so that no mail with a code is ever
\* accepted, and no answered sign-up is mailed: not in some unlucky interleaving but in
\* every one, for any emails and any faults (sendEmail, checkParamsMiddleware).
THEOREM NoSignUpIsMailed == Spec => [](signedUp # {} => ~SignUpMailed)
<1>1. \A h \in Handlers : ~ValidParams(Details(h))
  BY DEF ValidParams, Details, ContentTypes
<1>2. Init => NoMail
  BY DEF Init, NoMail
<1>3. NoMail /\ [Next]_vars => NoMail'
  <2> SUFFICES ASSUME inbox = {}, [Next]_vars PROVE inbox' = {}
    BY DEF NoMail
  <2>1. ASSUME NEW h \in Handlers, SendEmail(h) PROVE inbox' = {}
    BY <1>1, <2>1 DEF SendEmail
  <2>2. CASE \E h \in Handlers : SendEmail(h)
    BY <2>1, <2>2
  <2>3. CASE ~\E h \in Handlers : SendEmail(h)
    BY <2>3 DEF Next, SignUp, CreateUser, SetVerifyCode, VerifyEmail, GetVerifyCode,
         DelVerifyCode, MarkVerified, Authenticate, Crash, vars, history
  <2>. QED BY <2>2, <2>3
<1>4. NoMail => (signedUp # {} => ~SignUpMailed)
  <2> SUFFICES ASSUME inbox = {}, NEW e \in signedUp PROVE ~SignUpMailed
    BY DEF NoMail
  <2>1. [email |-> e, code |-> issued[e]] \notin inbox
    OBVIOUS
  <2>. QED BY <2>1 DEF SignUpMailed
<1>. QED BY <1>2, <1>3, <1>4, PTL DEF Spec

--------------------------------------------------------------------------------
(* Codes no number is rendered to. *)

\* An account whose sign-up drew a code that begins with 0 is never verified, nor
\* signed in with, whatever is submitted: Itoa renders no number to such a code, and
\* the sign-up cannot be repeated (service.VerifyEmail compares texts).
THEOREM ZeroLedCodesLockOut ==
    Spec => [](\A e \in Emails : issued[e] \notin Numerals => ~IsVerified(e) /\ e \notin signedIn)
<1>1. CodeInv => \A e \in Emails : issued[e] \notin Numerals =>
                                     ~IsVerified(e) /\ e \notin signedIn
  <2> SUFFICES ASSUME CodeInv, NEW e \in Emails, IsVerified(e) \/ e \in signedIn
               PROVE  issued[e] \in Numerals
    OBVIOUS
  <2>1. [email |-> e, code |-> issued[e]] \in submitted
    BY DEF CodeInv, RowsVerifiedByCode, SignedInIsVerified
  <2>2. [email |-> e, code |-> issued[e]] \in [email : Emails, code : Numerals]
    BY <2>1 DEF CodeInv, TypeOK, Verifications
  <2>. QED BY <2>2
<1>. QED BY <1>1, CodeInductive, PTL

================================================================================
