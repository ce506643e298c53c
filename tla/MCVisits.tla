-------------------------------- MODULE MCVisits --------------------------------
(***************************************************************************)
(* Two users, two codes and three clients: a desktop Chrome, an Edge that   *)
(* is too old to be counted and a client that asks not to be tracked.       *)
(***************************************************************************)
EXTENDS Visits

MCSystemParts == {[prefix |-> "Windows", version |-> <<10, 0>>]}
MCProductTokens == {[prefix |-> "Chrome/", version |-> <<87, 0>>],
                    [prefix |-> "Edg/", version |-> <<79, 0>>]}

Header(product) == <<[prefix |-> "(", version |-> << >>],
                     [prefix |-> "Windows", version |-> <<10, 0>>],
                     [prefix |-> ")", version |-> << >>], product>>

Client(product, dnt, remote) ==
    [agent |-> Header(product), dnt |-> dnt, prefetch |-> FALSE,
     forwarded |-> "", remote |-> remote]

MCRequests ==
    {Client([prefix |-> "Chrome/", version |-> <<87, 0>>], dnt, "here") : dnt \in BOOLEAN}
        \cup {Client([prefix |-> "Edg/", version |-> <<79, 0>>], FALSE, "there")}

MCWindowsVersions == <<10, 0>> :> <<10>>
MCSafariVersions == <<537, 36>> :> <<6, 0>>
MCMinVersion == "Chrome" :> 64 @@ "Firefox" :> 58 @@ "Safari" :> 11
                    @@ "Opera" :> 50 @@ "Edge" :> 80 @@ "IE" :> 11
================================================================================
