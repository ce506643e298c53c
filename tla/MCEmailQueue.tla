------------------------------ MODULE MCEmailQueue ------------------------------
(***************************************************************************)
(* A small instance of EmailQueue for TLC: three emails that pass the       *)
(* parameter check and one with the content type the URL service sends.     *)
(***************************************************************************)
EXTENDS EmailQueue

CONSTANTS v1, v2    \* model values

MCAddresses == {"a@x", "b@x"}

Mail(to, type) ==
    [to |-> {to}, subject |-> "verify", contentType |-> type]

MCEmails == {Mail("a@x", "plain/text"), Mail("a@x", "text/html"),
             Mail("b@x", "text/html"), Mail("b@x", "text/plain")}
================================================================================
