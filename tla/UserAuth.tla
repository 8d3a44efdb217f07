------------------------------ MODULE UserAuth ------------------------------
(****************************************************************************)
(* The user service: accounts, token pairs, the blacklist that makes logouts  *)
(* stick, and API keys.                                                      *)
(*                                                                          *)
(*   services/user/internal/{handler,middleware,service,repository}          *)
(*   pkg/jwt/jwt.go                                                          *)
(*                                                                          *)
(* A step is one SQL statement, or one comparison with the clock.  Clients    *)
(* send each end point a token of the kind it asks for; a token is as good as *)
(* its signature, so a pair that was never issued is never sent.             *)
(****************************************************************************)
EXTENDS FiniteSets, Naturals, Sequences

CONSTANTS Emails, Names,  \* of the accounts
          Requests,       \* concurrent requests; each slot serves one after
                          \* the other
          NoUser,         \* the user of no request
          MaxKeys,        \* MaxAPIKeysPerUser (10)
          AccessTTL,      \* AccessTokenTTL (2 h)
          RefreshTTL,     \* RefreshTokenTTL (7 days)
          MaxPairs,       \* bound: token pairs issued
          MaxNow          \* bound: the clock

ASSUME AuthAssumption ==
  /\ Emails # {} /\ Names # {}
  /\ Requests # {} /\ IsFiniteSet(Requests)
  /\ MaxKeys \in Nat \ {0}
  /\ AccessTTL \in Nat /\ RefreshTTL \in Nat
  /\ MaxPairs \in Nat /\ MaxNow \in Nat

VARIABLES users,     \* the rows of users; nothing deletes one
          keys,      \* how many rows of api_keys an account has
          pairs,     \* the token pairs issued, with the end of each token
          blacklist, \* the rows of token_blacklist
          req,       \* the request a slot serves
          now,       \* the clock
          loggedOut  \* history: pairs whose logout was answered with success

vars == <<users, keys, pairs, blacklist, req, now, loggedOut>>

Account == [email : Emails, name : Names]
Public  == {"register", "login", "refresh"}
Guarded == {"read", "logout", "createKey", "deleteKey"}

\* Where a request that passed JWTAuth can be.
Inside == {"read", "parseAgain", "add", "count", "create", "delete"}
Over   == {"done", "conflict"}

\* Where a request that came with a token needs it.
WithPair == Inside \cup {"blacklisted", "parse", "parseRefresh", "getUser"}

\* `late': the request came after its pair's logout had been answered.
Idle    == [pc |-> "done", op |-> "read", user |-> NoUser, pair |-> 0,
            late |-> FALSE]
Request == [pc : {"checkEmail", "checkName", "insert", "lookup", "parseRefresh",
                  "getUser", "issue", "blacklisted", "parse"} \cup Inside \cup Over,
            op : Public \cup Guarded, user : Account \cup {NoUser},
            pair : 0..MaxPairs, late : BOOLEAN]

TypeOK ==
  /\ users \subseteq Account
  /\ keys \in [Account -> Nat]
  /\ pairs \in Seq([user : users, until : Nat, renew : Nat])
  /\ Len(pairs) <= MaxPairs
  /\ blacklist \subseteq [pair : 1..Len(pairs), until : Nat]
  /\ req \in [Requests -> Request]
  /\ \A c \in Requests : /\ req[c].pc # "done" => req[c].user \in Account
                         /\ req[c].pc = "issue" => req[c].user \in users
                         /\ req[c].pc \in WithPair => req[c].pair \in 1..Len(pairs)
  /\ now \in 0..MaxNow
  /\ loggedOut \subseteq 1..Len(pairs)

Init ==
  /\ users = {} /\ keys = [u \in Account |-> 0]
  /\ pairs = <<>> /\ blacklist = {}
  /\ req = [c \in Requests |-> Idle]
  /\ now = 0 /\ loggedOut = {}

-----------------------------------------------------------------------------
\* The request goes on, or is answered: with success or with a refusal, which
\* leave the same state, or with a conflict.
Go(c, from, to) ==
  /\ req[c].pc = from
  /\ req' = [req EXCEPT ![c] = IF to = "done" THEN Idle ELSE [@ EXCEPT !.pc = to]]

UserOf(c) == req[c].user
Alive(p)  == now < pairs[p].until   \* jwt: exp is after the clock

-----------------------------------------------------------------------------
(* What clients ask for.                                                     *)

Call(c, op, u, p) ==
  /\ req[c].pc \in Over
  /\ req' = [req EXCEPT ![c] =
       [pc   |-> CASE op = "register" -> "checkEmail" [] op = "login" -> "lookup"
                   [] op = "refresh" -> "parseRefresh" [] OTHER -> "blacklisted",
        op   |-> op, user |-> u, pair |-> p, late |-> op \in Guarded /\ p \in loggedOut]]
  /\ UNCHANGED <<users, keys, pairs, blacklist, now, loggedOut>>

Register(c, u)       == Call(c, "register", u, 0)
Login(c, u)          == Call(c, "login", u, 0)
WithToken(c, op, p)  == Call(c, op, pairs[p].user, p)

-----------------------------------------------------------------------------
(* Registration, login and refresh.                                          *)

CheckEmail(c) ==
  /\ Go(c, "checkEmail",
        IF \E u \in users : u.email = UserOf(c).email THEN "conflict"
                                                      ELSE "checkName")
  /\ UNCHANGED <<users, keys, pairs, blacklist, now, loggedOut>>

CheckName(c) ==
  /\ Go(c, "checkName",
        IF \E u \in users : u.name = UserOf(c).name THEN "conflict" ELSE "insert")
  /\ UNCHANGED <<users, keys, pairs, blacklist, now, loggedOut>>

\* The unique indexes of email and username.
Taken(a) == \E u \in users : u.email = a.email \/ u.name = a.name

\* Mutant: no unique index, only the two checks before.
Insert_NoIndex(c) ==
  /\ Go(c, "insert", "issue")
  /\ users' = users \cup {UserOf(c)}
  /\ UNCHANGED <<keys, pairs, blacklist, now, loggedOut>>

\* A duplicate is told apart by the name of the index in the error.
Insert(c) ==
  /\ \/ Go(c, "insert", "conflict") /\ Taken(UserOf(c)) /\ UNCHANGED users
     \/ /\ Go(c, "insert", "issue") /\ ~Taken(UserOf(c))
        /\ users' = users \cup {UserOf(c)}
  /\ UNCHANGED <<keys, pairs, blacklist, now, loggedOut>>

\* Mutant: an email nobody has is not noticed.
Lookup_Unchecked(c) ==
  /\ Go(c, "lookup", "issue")
  /\ UNCHANGED <<users, keys, pairs, blacklist, now, loggedOut>>

\* By email, then the password; the row has the name the client did not send.
Lookup(c) ==
  /\ req[c].pc = "lookup"
  /\ \/ \E u \in users : /\ u.email = UserOf(c).email
                         /\ req' = [req EXCEPT ![c].pc = "issue", ![c].user = u]
     \/ Go(c, "lookup", "done")
  /\ UNCHANGED <<users, keys, pairs, blacklist, now, loggedOut>>

ParseRefresh(c) ==
  /\ Go(c, "parseRefresh",
        IF now < pairs[req[c].pair].renew THEN "getUser" ELSE "done")
  /\ UNCHANGED <<users, keys, pairs, blacklist, now, loggedOut>>

\* Users are not deleted: the row of a token is there.
GetUser(c) ==
  /\ UserOf(c) \in users
  /\ Go(c, "getUser", "issue")
  /\ UNCHANGED <<users, keys, pairs, blacklist, now, loggedOut>>

\* A new pair; the one a refresh came with stays valid.
GenerateTokenPair(c) ==
  /\ Len(pairs) < MaxPairs
  /\ Go(c, "issue", "done")
  /\ pairs' = Append(pairs, [user |-> UserOf(c), until |-> now + AccessTTL,
                             renew |-> now + RefreshTTL])
  /\ UNCHANGED <<users, keys, blacklist, now, loggedOut>>

-----------------------------------------------------------------------------
(* JWTAuth: first the blacklist, then the token itself.                      *)

Blacklisted(p) == \E b \in blacklist : b.pair = p

CheckBlacklist(c) ==
  /\ Go(c, "blacklisted",
        IF Blacklisted(req[c].pair) THEN "done" ELSE "parse")
  /\ UNCHANGED <<users, keys, pairs, blacklist, now, loggedOut>>

First(op) ==
  CASE op = "read" -> "read"       [] op = "logout" -> "parseAgain"
    [] op = "createKey" -> "count" [] op = "deleteKey" -> "delete"

ParseToken(c) ==
  /\ req[c].op \in Guarded
  /\ Go(c, "parse", IF Alive(req[c].pair) THEN First(req[c].op) ELSE "done")
  /\ UNCHANGED <<users, keys, pairs, blacklist, now, loggedOut>>

\* The caller's profile, or its keys: one query.
Read(c) ==
  /\ Go(c, "read", "done")
  /\ UNCHANGED <<users, keys, pairs, blacklist, now, loggedOut>>

-----------------------------------------------------------------------------
(* Logout.                                                                   *)

\* The handler parses once more; a token that ended meanwhile counts as logged
\* out.
LogoutParse(c) ==
  /\ Go(c, "parseAgain", IF Alive(req[c].pair) THEN "add" ELSE "done")
  /\ loggedOut' = IF Alive(req[c].pair) THEN loggedOut
                                        ELSE loggedOut \cup {req[c].pair}
  /\ UNCHANGED <<users, keys, pairs, blacklist, now>>

\* Mutant: the entry ends with the request and not with the token.
Blacklist_Now(c) ==
  /\ Go(c, "add", "done")
  /\ blacklist' = blacklist \cup {[pair |-> req[c].pair, until |-> now]}
  /\ loggedOut' = loggedOut \cup {req[c].pair}
  /\ UNCHANGED <<users, keys, pairs, now>>

\* Logout's insert, with the end the token itself has.
Blacklist(c) ==
  /\ Go(c, "add", "done")
  /\ blacklist' = blacklist \cup
       {[pair |-> req[c].pair, until |-> pairs[req[c].pair].until]}
  /\ loggedOut' = loggedOut \cup {req[c].pair}
  /\ UNCHANGED <<users, keys, pairs, now>>

\* No caller yet: entries whose end has passed are removed.
CleanExpired ==
  /\ \E b \in blacklist : b.until < now
  /\ blacklist' = {b \in blacklist : b.until >= now}
  /\ UNCHANGED <<users, keys, pairs, req, now, loggedOut>>

-----------------------------------------------------------------------------
(* API keys.                                                                 *)

\* Mutant: one key over the limit.
CountKeys_OneMore(c) ==
  /\ Go(c, "count", IF keys[UserOf(c)] > MaxKeys THEN "done" ELSE "create")
  /\ UNCHANGED <<users, keys, pairs, blacklist, now, loggedOut>>

CountKeys(c) ==
  /\ Go(c, "count", IF keys[UserOf(c)] >= MaxKeys THEN "done" ELSE "create")
  /\ UNCHANGED <<users, keys, pairs, blacklist, now, loggedOut>>

CreateKey(c) ==
  /\ Go(c, "create", "done")
  /\ keys' = [keys EXCEPT ![UserOf(c)] = @ + 1]
  /\ UNCHANGED <<users, pairs, blacklist, now, loggedOut>>

\* The row of this id and this user, if there is one.
DeleteKey(c) ==
  /\ \/ /\ Go(c, "delete", "done")
        /\ keys[UserOf(c)] > 0
        /\ keys' = [keys EXCEPT ![UserOf(c)] = @ - 1]
     \/ Go(c, "delete", "done") /\ UNCHANGED keys
  /\ UNCHANGED <<users, pairs, blacklist, now, loggedOut>>

-----------------------------------------------------------------------------
\* A statement fails, with or without effect, or the client or the process is
\* gone: the request ends where it is.
Abandon(c) ==
  /\ req[c].pc \notin Over
  /\ Go(c, req[c].pc, "done")
  /\ UNCHANGED <<users, keys, pairs, blacklist, now, loggedOut>>

Tick == /\ now < MaxNow /\ now' = now + 1
        /\ UNCHANGED <<users, keys, pairs, blacklist, req, loggedOut>>

Calls(c) ==
  \/ \E u \in Account : Register(c, u) \/ Login(c, u)
  \/ \E p \in 1..Len(pairs), op \in Guarded \cup {"refresh"} : WithToken(c, op, p)

Accounts(c) == \/ CheckEmail(c) \/ CheckName(c) \/ Insert(c) \/ Lookup(c)
               \/ ParseRefresh(c) \/ GetUser(c) \/ GenerateTokenPair(c)
Tokens(c)   == \/ CheckBlacklist(c) \/ ParseToken(c) \/ Read(c)
               \/ LogoutParse(c) \/ Blacklist(c)
Keys(c)     == CountKeys(c) \/ CreateKey(c) \/ DeleteKey(c)

Next ==
  \/ \E c \in Requests : \/ Calls(c) \/ Accounts(c) \/ Tokens(c) \/ Keys(c)
                         \/ Abandon(c)
  \/ CleanExpired \/ Tick

Spec == Init /\ [][Next]_vars

-----------------------------------------------------------------------------
(* Properties.                                                                *)

\* Registrations that overlap, past their checks: each email and each name has
\* one account, and who is told of a conflict can find the account that has it.
AccountsDistinct ==
  /\ \A u, v \in users : u.email = v.email \/ u.name = v.name => u = v
  /\ \A c \in Requests : req[c].pc = "conflict" => Taken(UserOf(c))

\* A request that comes after its token's logout was answered never passes
\* JWTAuth, however the clean-up of the blacklist, the clock and other logouts
\* of the same token fall in between.
LogoutSticks ==
  \A c \in Requests : req[c].late => req[c].pc \notin Inside

\* The limit of API keys is checked before the insert, so concurrent requests
\* exceed it, but by no more than the requests that run besides one.
KeysBounded ==
  \A u \in Account : keys[u] < MaxKeys + Cardinality(Requests)
=============================================================================
