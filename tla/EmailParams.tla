------------------------------ MODULE EmailParams ------------------------------
(***************************************************************************)
(* What the email service takes (microservice-email/internal/api): the      *)
(* contract between its HTTP API and those who post to it.                  *)
(***************************************************************************)
CONSTANT MailAddresses  \* the strings that contain "@"

ContentTypes == {"plain/text", "text/html"}

\* checkParamsMiddleware calls the view only for an email that satisfies this.
\* An email's "to" is the set of the strings in the list.
ValidParams(email) ==
    /\ email.to # {}
    /\ email.to \subseteq MailAddresses
    /\ email.subject # ""
    /\ email.contentType \in ContentTypes
================================================================================
