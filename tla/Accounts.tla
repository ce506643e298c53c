-------------------------------- MODULE Accounts --------------------------------
(***************************************************************************)
(* Accounts (url/internal/auth): sign-up, verification of the email, and    *)
(* the check a sign-in makes.  Concurrent handlers write users to           *)
(* PostgreSQL, verification codes to Redis under the email itself, and post *)
(* the code to the email service, one after the other with no common        *)
(* transaction, and any of these calls can fail.                            *)
(*                                                                          *)
(* The users table is not in the repository: username is taken to be        *)
(* unique.  EXPIRE is sent a duration Redis does not parse and its error is *)
(* dropped, so that codes stay until they are deleted.  Validation and      *)
(* bcrypt turn requests away before anything is read and are left out.      *)
(***************************************************************************)
EXTENDS EmailParams

CONSTANTS
    Handlers,   \* goroutines serving /api/v1/users
    Emails,
    Passwords,
    NoUser,
    Codes,      \* what GenerateVerificationCode(6) returns: six digits
    Numerals,   \* what strconv.Itoa renders the number of a request to
    NoCode,
    Faults,     \* which calls may fail, see FaultKinds
    NoRequest   \* the request of an idle handler

\* insert, set, get, del, post, begin, update, commit: the call of that name
\* returns an error, executed or not; crash: the process dies.
FaultKinds ==
    {"insert", "set", "get", "del", "post", "begin", "update", "commit", "crash"}

ASSUME AccountsAssumption ==
    /\ Emails \subseteq MailAddresses
    /\ NoUser \notin [password : Passwords, isVerified : BOOLEAN]
    /\ NoCode \notin Codes \cup Numerals
    /\ Faults \subseteq FaultKinds

VARIABLES
    pc,         \* handler -> the next call, or "idle"
    req,        \* handler -> its request
    code,       \* handler -> the code a sign-up generated
    users,      \* email -> its row of users
    codes,      \* email -> the value of its key in Redis
    inbox,      \* codes the email service accepted a mail for
    signedUp,   \* emails whose sign-up was answered 201
    issued,     \* history: email -> the code of the sign-up that made its row
    submitted,  \* history: numerals received by verify-code, with their email
    cutShort,   \* history: emails whose verification broke off after the DEL
    abandoned,  \* history: emails whose sign-up broke off before the code was stored
    signedIn    \* history: emails somebody signed in with

local == <<pc, req, code>>
history == <<issued, submitted, cutShort, abandoned>>
vars == <<local, users, codes, inbox, signedUp, signedIn, history>>

Stages == {"idle", "createUser", "setCode", "sendEmail", "getCode", "delCode", "verify"}

Credentials == [email : Emails, password : Passwords]
Verifications == [email : Emails, code : Numerals]

TypeOK ==
    /\ pc \in [Handlers -> Stages]
    /\ req \in [Handlers -> Credentials \cup Verifications \cup {NoRequest}]
    /\ code \in [Handlers -> Codes \cup {NoCode}]
    /\ \A h \in Handlers :
        /\ pc[h] \in {"createUser", "setCode", "sendEmail"} => req[h] \in Credentials
        /\ pc[h] \in {"getCode", "delCode", "verify"} => req[h] \in Verifications
        /\ pc[h] \in {"setCode", "sendEmail"} => code[h] \in Codes
    /\ users \in [Emails -> [password : Passwords, isVerified : BOOLEAN] \cup {NoUser}]
    /\ codes \in [Emails -> Codes \cup {NoCode}]
    /\ inbox \subseteq [email : Emails, code : Codes]
    /\ signedUp \subseteq Emails
    /\ issued \in [Emails -> Codes \cup {NoCode}]
    /\ submitted \subseteq Verifications
    /\ cutShort \subseteq Emails
    /\ abandoned \subseteq Emails
    /\ signedIn \subseteq Emails

Init ==
    /\ pc = [h \in Handlers |-> "idle"]
    /\ req = [h \in Handlers |-> NoRequest]
    /\ code = [h \in Handlers |-> NoCode]
    /\ users = [e \in Emails |-> NoUser]
    /\ codes = [e \in Emails |-> NoCode]
    /\ inbox = {}
    /\ signedUp = {}
    /\ issued = [e \in Emails |-> NoCode]
    /\ submitted = {}
    /\ cutShort = {}
    /\ abandoned = {}
    /\ signedIn = {}

Fault(kind) == kind \in Faults

Goto(h, stage) == pc' = [pc EXCEPT ![h] = stage]

Return(h) ==
    /\ Goto(h, "idle")
    /\ req' = [req EXCEPT ![h] = NoRequest]
    /\ code' = [code EXCEPT ![h] = NoCode]

--------------------------------------------------------------------------------
(* SignUp *)

SignUp(h) ==
    /\ pc[h] = "idle"
    /\ \E r \in Credentials : req' = [req EXCEPT ![h] = r]
    /\ Goto(h, "createUser")
    /\ UNCHANGED <<code, users, codes, inbox, signedUp, signedIn, history>>

\* The INSERT of handler h, with the code it will generate next.
InsertUser(h, c) ==
    LET e == req[h].email
    IN  /\ users[e] = NoUser
        /\ users' = [users EXCEPT ![e] =
                        [password |-> req[h].password, isVerified |-> FALSE]]
        /\ issued' = [issued EXCEPT ![e] = c]

Abandon(e) == abandoned' = abandoned \cup {e}

\* Mutant of CreateUser: a duplicate is not an error, a new code is sent.
CreateUserAgain(h) ==
    /\ pc[h] = "createUser"
    /\ \E c \in Codes :
        /\ InsertUser(h, c) \/ (users[req[h].email] # NoUser /\ UNCHANGED <<users, issued>>)
        /\ code' = [code EXCEPT ![h] = c]
    /\ Goto(h, "setCode")
    /\ UNCHANGED <<req, codes, inbox, signedUp, signedIn, submitted, cutShort, abandoned>>

\* Mutant of CreateUser: goes on without a code when none could be generated.
CreateUserCodeless(h) ==
    /\ pc[h] = "createUser"
    /\ \E c \in Codes : InsertUser(h, c)
    /\ Goto(h, "setCode")
    /\ UNCHANGED <<req, code, codes, inbox, signedUp, signedIn, submitted, cutShort, abandoned>>

\* CreateUser, and the code that is generated if it succeeds.  A generator that
\* fails ends in the same state as an INSERT that was executed and then failed.
CreateUser(h) ==
    /\ pc[h] = "createUser"
    /\ \E c \in Codes :
        \/ /\ InsertUser(h, c)
           /\ code' = [code EXCEPT ![h] = c]
           /\ Goto(h, "setCode")
           /\ UNCHANGED <<req, abandoned>>
        \/ /\ Fault("insert") /\ InsertUser(h, c)
           /\ Abandon(req[h].email)
           /\ Return(h)
        \/ /\ Fault("insert") \/ users[req[h].email] # NoUser
           /\ Return(h)
           /\ UNCHANGED <<users, issued, abandoned>>
    /\ UNCHANGED <<codes, inbox, signedUp, signedIn, submitted, cutShort>>

SetVerifyCode(h) ==
    LET store == [codes EXCEPT ![req[h].email] = code[h]]
    IN  /\ pc[h] = "setCode"
        /\ \/ /\ codes' = store
              /\ Goto(h, "sendEmail")
              /\ UNCHANGED <<req, code, abandoned>>
           \/ /\ Fault("set")
              /\ codes' \in {codes, store}
              /\ Abandon(req[h].email)
              /\ Return(h)
        /\ UNCHANGED <<users, inbox, signedUp, signedIn, issued, submitted, cutShort>>

\* What sendEmail posts to the email service.
Details(h) == [to |-> {req[h].email}, subject |-> "verify",
               contentType |-> "text/plain", body |-> code[h]]

\* The email service takes the mail or refuses it, and its status is not looked
\* at: only a failure of the POST itself is an error.
SendEmail(h) ==
    LET accepted == IF ValidParams(Details(h))
                    THEN inbox \cup {[email |-> req[h].email, code |-> code[h]]}
                    ELSE inbox
    IN  /\ pc[h] = "sendEmail"
        /\ \/ inbox' = accepted /\ signedUp' = signedUp \cup {req[h].email}
           \/ Fault("post") /\ inbox' \in {inbox, accepted} /\ UNCHANGED signedUp
        /\ Return(h)
        /\ UNCHANGED <<users, codes, signedIn, history>>

--------------------------------------------------------------------------------
(* VerifyEmail *)

VerifyEmail(h) ==
    /\ pc[h] = "idle"
    /\ \E r \in Verifications :
        /\ req' = [req EXCEPT ![h] = r]
        /\ submitted' = submitted \cup {r}
    /\ Goto(h, "getCode")
    /\ UNCHANGED <<code, users, codes, inbox, signedUp, signedIn, issued, cutShort, abandoned>>

\* Mutant of GetVerifyCode: a code is good for one attempt (GETDEL).
GetVerifyCodeOnce(h) ==
    /\ pc[h] = "getCode"
    /\ IF req[h].code = codes[req[h].email]
       THEN Goto(h, "delCode") /\ UNCHANGED <<req, code>>
       ELSE Return(h)
    /\ codes' = [codes EXCEPT ![req[h].email] = NoCode]
    /\ UNCHANGED <<users, inbox, signedUp, signedIn, history>>

\* A missing key is an error, and so is any other code.
GetVerifyCode(h) ==
    /\ pc[h] = "getCode"
    /\ \/ /\ req[h].code = codes[req[h].email]
          /\ Goto(h, "delCode")
          /\ UNCHANGED <<req, code>>
       \/ /\ req[h].code # codes[req[h].email] \/ Fault("get")
          /\ Return(h)
    /\ UNCHANGED <<users, codes, inbox, signedUp, signedIn, history>>

\* The error of DelVerifyCode is dropped.
DelVerifyCode(h) ==
    /\ pc[h] = "delCode"
    /\ \/ codes' = [codes EXCEPT ![req[h].email] = NoCode]
       \/ Fault("del") /\ UNCHANGED codes
    /\ Goto(h, "verify")
    /\ UNCHANGED <<req, code, users, inbox, signedUp, signedIn, history>>

\* store.VerifyEmail in a transaction of its own.  When that cannot begin or the
\* UPDATE fails, the row is as it was and the code is gone; a COMMIT that failed may
\* have been executed.
MarkVerified(h) ==
    LET e == req[h].email
        verified == IF users[e] = NoUser THEN users
                    ELSE [users EXCEPT ![e].isVerified = TRUE]
    IN  /\ pc[h] = "verify"
        /\ \/ users' = verified /\ UNCHANGED cutShort
           \/ /\ \E kind \in {"begin", "update", "commit"} : Fault(kind)
              /\ users' \in IF Fault("commit") THEN {users, verified} ELSE {users}
              /\ cutShort' = cutShort \cup {e}
        /\ Return(h)
        /\ UNCHANGED <<codes, inbox, signedUp, signedIn, issued, submitted, abandoned>>

--------------------------------------------------------------------------------

\* authenticate is one SELECT; the tokens made next are the module Tokens.
Authenticate(r) ==
    /\ users[r.email] # NoUser
    /\ users[r.email].isVerified
    /\ users[r.email].password = r.password
    /\ signedIn' = signedIn \cup {r.email}
    /\ UNCHANGED <<local, users, codes, inbox, signedUp, history>>

Crash ==
    /\ Fault("crash")
    /\ pc' = [h \in Handlers |-> "idle"]
    /\ req' = [h \in Handlers |-> NoRequest]
    /\ code' = [h \in Handlers |-> NoCode]
    /\ cutShort' = cutShort \cup {req[h].email : h \in {g \in Handlers : pc[g] = "verify"}}
    /\ abandoned' = abandoned \cup {req[h].email : h \in {g \in Handlers : pc[g] = "setCode"}}
    /\ UNCHANGED <<users, codes, inbox, signedUp, signedIn, issued, submitted>>

Next ==
    \/ \E h \in Handlers :
        \/ SignUp(h) \/ CreateUser(h) \/ SetVerifyCode(h) \/ SendEmail(h)
        \/ VerifyEmail(h) \/ GetVerifyCode(h) \/ DelVerifyCode(h) \/ MarkVerified(h)
    \/ \E r \in Credentials : Authenticate(r)
    \/ Crash

Spec == Init /\ [][Next]_vars

--------------------------------------------------------------------------------
(* Properties. *)

HasUser(e) == users[e] # NoUser

IsVerified(e) == HasUser(e) /\ users[e].isVerified

\* An email is verified, and signed in with, only after somebody submitted the
\* very code that the sign-up which made the account stored for it: a second
\* sign-up stops at CreateUser and never replaces the code (service.SignUp), and
\* authenticate refuses a user who is not verified.
VerifiedByItsCode ==
    \A e \in Emails : IsVerified(e) \/ e \in signedIn =>
        [email |-> e, code |-> issued[e]] \in submitted

At(e, stage) == \E h \in Handlers : pc[h] = stage /\ req[h].email = e

\* Every account is verified, or its code is in Redis or about to be, or a handler
\* is about to verify it, with two exceptions: a verification broke off between
\* the DEL of the code and the UPDATE of the row (service.VerifyEmail), or the
\* sign-up broke off between the INSERT and the SET (service.SignUp), and then it
\* was never answered, nor was any later one of that email.
AccountsStayVerifiable ==
    \A e \in Emails : HasUser(e) =>
        \/ IsVerified(e)
        \/ codes[e] = issued[e]
        \/ At(e, "setCode") \/ At(e, "verify")
        \/ e \in cutShort
        \/ e \in abandoned /\ e \notin signedUp

\* service.go:84 says "send email to user": the email service has accepted a
\* mail with the code when a sign-up is answered.  It takes "plain/text" and is
\* sent "text/plain", so it does not hold.
SignUpMailed ==
    \A e \in signedUp : [email |-> e, code |-> issued[e]] \in inbox
================================================================================
