----------------------------- MODULE LinkRegistry -----------------------------
(***************************************************************************)
(* What a URL shortener promises its clients, with no database, transaction *)
(* or probe in sight.  A client claims a name that nobody has bound, binds  *)
(* it to the URL it was asked for, and is granted a link that stands for    *)
(* that name, or gives up.  Two clients may hold a claim on one name, the   *)
(* later binding then wins; but a name that is bound is claimed again only  *)
(* blindly, and nobody is granted a link for a name it did not bind itself. *)
(* A link need not be the name: it may stand for another one, and is then   *)
(* no name anybody has bound, so that somebody else may claim it.           *)
(***************************************************************************)
CONSTANTS
    Clients,    \* who asks for links, at the same time
    Names,      \* the names that can be bound
    Links,      \* the links that can be granted
    NamesOf,    \* link -> the names it may stand for
    URLs,       \* the URLs a name can be bound to
    Unbound,    \* the binding of a name nobody has taken, not in URLs
    NoClaim     \* the claim of a client that holds none

VARIABLES
    bindings,   \* name -> URL or Unbound
    claims,     \* client -> [link, name, url, blind, bound] or NoClaim
    granted     \* the links handed out, as [link, name, url] records

vars == <<bindings, claims, granted>>

Init ==
    /\ bindings = [n \in Names |-> Unbound]
    /\ claims = [c \in Clients |-> NoClaim]
    /\ granted = {}

\* n is one of NamesOf[l].
Claim(c, l, n, u, blind) ==
    /\ claims[c] = NoClaim
    /\ blind \/ bindings[n] = Unbound
    /\ claims' = [claims EXCEPT ![c] =
                     [link |-> l, name |-> n, url |-> u, blind |-> blind, bound |-> FALSE]]
    /\ UNCHANGED <<bindings, granted>>

Bound(claim) ==
    [link |-> claim.link, name |-> claim.name, url |-> claim.url,
     blind |-> claim.blind, bound |-> TRUE]

\* The client learns that its name is bound, or takes the binding for failed.
Bind(c) ==
    /\ claims[c] # NoClaim
    /\ ~claims[c].bound
    /\ bindings' = [bindings EXCEPT ![claims[c].name] = claims[c].url]
    /\ \/ claims' = [claims EXCEPT ![c] = Bound(claims[c])]
       \/ claims' = [claims EXCEPT ![c] = NoClaim]
    /\ UNCHANGED granted

Grant(c) ==
    /\ claims[c] # NoClaim
    /\ claims[c].bound
    /\ granted' = granted \cup {[link |-> claims[c].link, name |-> claims[c].name,
                              url |-> claims[c].url]}
    /\ claims' = [claims EXCEPT ![c] = NoClaim]
    /\ UNCHANGED bindings

\* Clients give up, one of them or all of them at once.
Release(lost) ==
    /\ claims' = [c \in Clients |-> IF c \in lost THEN NoClaim ELSE claims[c]]
    /\ UNCHANGED <<bindings, granted>>

Next ==
    \/ \E c \in Clients, l \in Links : \E n \in NamesOf[l], u \in URLs, blind \in BOOLEAN :
          Claim(c, l, n, u, blind)
    \/ \E c \in Clients : Bind(c) \/ Grant(c)
    \/ \E lost \in SUBSET Clients : Release(lost)

Spec == Init /\ [][Next]_vars
===============================================================================
