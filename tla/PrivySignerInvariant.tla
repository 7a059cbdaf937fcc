------------------------- MODULE PrivySignerInvariant --------------------------
(***************************************************************************)
(* The inductive invariants behind the safety properties of PrivySigner.   *)
(* TLC checks them as invariants, PrivySignerProofs proves them.           *)
(***************************************************************************)
EXTENDS PrivySigner, SequencesExt

Started == {"lookup", "store", "gotUser"} \union Awaiting

\* Who a handler acts for is settled exactly from "lookup" on, and only a
\* handler that has passed that point has called Privy.
Placed ==
    \A r \in Requests :
        /\ pc[r] \in Started => who[r] \in Users
        /\ pc[r] \in {"idle", "auth"} => who[r] = Empty
        /\ call[r].op # "none" => who[r] \in Users

\* A handler acts for a user its request could speak for when it was checked.
Entitled ==
    \A r \in Requests :
        /\ pc[r] = "auth" \/ who[r] \in Users => Screen(input[r]) = 0
        /\ who[r] \in Users => \E t \in 0 .. clock : Authenticates(input[r], who[r], t)

\* Wallets a handler, a reply, a call or the cache holds under a user's name
\* are wallets of that user.
Held ==
    /\ WellOwned(accounts, nextId)
    /\ \A u \in Users : Ids(cache[u].value.linked) \subseteq Ids(accounts[u])
    /\ \A r \in Requests : who[r] = Empty => record[r] = NoUser /\ reply[r] = NoReply
    /\ \A r \in Requests : who[r] \in Users =>
          /\ Ids(record[r].linked) \subseteq Ids(accounts[who[r]])
          /\ Ids(reply[r].linked) \subseteq Ids(accounts[who[r]])
          /\ call[r].op = "sign" => call[r].wallet \in Ids(accounts[who[r]])

\* Records carry the id of the user they are kept for.
Named ==
    /\ \A u \in Users : Cached(cache, u) => cache[u].value.id = u
    /\ \A r \in Requests :
          pc[r] \in {"awaitCreate", "store", "gotUser", "awaitSign"} => record[r].id = who[r]

\* Where a signature can be, given where its handler is.
Signing ==
    /\ \A r \in Requests :
          /\ call[r].op = "sign" =>
                /\ pc[r] \in {"awaitSign", "done"} /\ input[r].route # "get"
                /\ \A s \in signatures : s.request # r
          /\ pc[r] = "awaitSign" /\ call[r].op # "none" => call[r].op = "sign"
          /\ pc[r] = "awaitSign" => input[r].route # "get"
          /\ pc[r] = "awaitSign" /\ call[r].op # "none" => reply[r].status = 0
          /\ pc[r] = "awaitSign" /\ reply[r].status = 200 =>
                \E s \in signatures : s.request = r
    /\ \A s \in signatures :
          /\ pc[s.request] \in {"awaitSign", "done"}
          /\ call[s.request].op = "none"
          /\ input[s.request].route # "get"
          /\ s.hash = input[s.request].hash
          /\ who[s.request] \in Users
          /\ s.wallet \in Ids(accounts[who[s.request]])
    /\ \A s, t \in signatures : s.request = t.request => s = t

\* What an answer 200 stands for.
Reported ==
    \A r \in Requests :
        /\ pc[r] # "done" => code[r] = 0
        /\ code[r] = 200 =>
              /\ who[r] \in Users /\ record[r].id = who[r]
              /\ input[r].route # "get" => \E s \in signatures : s.request = r

\* Of a user who changes no delegation, a reply of Privy is a beginning of the
\* list Privy has now; a record that waits for a wallet has none delegated, so
\* that the wallet appended to it is the one it selects.
Selecting ==
    /\ CacheSelectsSameWallet
    /\ \A r \in Requests :
          /\ pc[r] = "awaitCreate" => ~HasDelegated(record[r].linked)
          /\ who[r] \in Users \ changed => IsPrefix(reply[r].linked, accounts[who[r]])

\* The wallet Privy's list selects for a user.
Chosen(u, w) ==
    HasDelegated(accounts[u]) /\ w = GetUsersEthDelegatedWallet(accounts[u]).id

\* Whoever changes no delegation has signatures made, and asked for, with the
\* wallet that its list selects.
Settled ==
    /\ \A r \in Requests :
          call[r].op = "sign" /\ who[r] \notin changed => Chosen(who[r], call[r].wallet)
    /\ \A s \in signatures : who[s.request] \notin changed => Chosen(who[s.request], s.wallet)

\* The whole of it: at every moment what each handler, the cache and Privy
\* hold agree about whose wallets they are, which of them a user signs with and
\* which requests are signed.
Consistent ==
    Placed /\ Entitled /\ Held /\ Named /\ Signing /\ Reported /\ Selecting /\ Settled
================================================================================
