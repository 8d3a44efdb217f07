--------------------------- MODULE UserAuth_proof ---------------------------
(* Theorems about UserAuth, for any accounts, requests, limits and lifetimes. *)
EXTENDS UserAuth, FiniteSetTheorems, SequenceTheorems, TLAPS

-----------------------------------------------------------------------------
(* Types.                                                                     *)

Places == {"checkEmail", "checkName", "insert", "lookup", "parseRefresh",
           "getUser", "issue", "blacklisted", "parse"} \cup Inside \cup Over
Pair   == [user : users, until : Nat, renew : Nat]

\* What a request that moves on keeps.
LEMMA GoKeeps ==
  ASSUME TypeOK, NEW c \in Requests, NEW from, NEW to \in Places, Go(c, from, to)
  PROVE  /\ req' \in [Requests -> Request]
         /\ req[c].pc = from
         /\ \A d \in Requests \ {c} : req'[d] = req[d]
         /\ req'[c].pc = to
         /\ to = "done" => req'[c] = Idle
         /\ to # "done" => /\ req'[c].user = req[c].user
                           /\ req'[c].op = req[c].op
                           /\ req'[c].pair = req[c].pair
                           /\ req'[c].late = req[c].late
<1> DEFINE q == IF to = "done" THEN Idle ELSE [req[c] EXCEPT !.pc = to]
<1>1. req \in [Requests -> Request] /\ req[c] \in Request
  BY DEF TypeOK
<1>2. Idle \in Request /\ Idle.pc = "done"
  BY AuthAssumption DEF Idle, Request, Over, Guarded
<1>3. [req[c] EXCEPT !.pc = to] \in Request
  BY <1>1 DEF Request, Places
<1>4. q \in Request /\ q.pc = to
  BY <1>1, <1>2, <1>3 DEF Request
<1>5. q = Idle \/ (q.user = req[c].user /\ q.op = req[c].op
                     /\ q.pair = req[c].pair /\ q.late = req[c].late)
  BY <1>1 DEF Request
<1>6. to # "done" => q.user = req[c].user /\ q.op = req[c].op
                     /\ q.pair = req[c].pair /\ q.late = req[c].late
  BY <1>1 DEF Request
<1>7. to = "done" => q = Idle
  OBVIOUS
<1>8. req' = [req EXCEPT ![c] = q]
  BY DEF Go
<1> HIDE DEF q
<1>9. /\ req'[c] = q
      /\ \A d \in Requests \ {c} : req'[d] = req[d]
      /\ req' \in [Requests -> Request]
  BY <1>1, <1>4, <1>8
<1> QED BY <1>4, <1>6, <1>7, <1>9 DEF Go

\* The part of TypeOK that is about requests.
ReqOK ==
  /\ req \in [Requests -> Request]
  /\ \A c \in Requests : /\ req[c].pc # "done" => req[c].user \in Account
                         /\ req[c].pc = "issue" => req[c].user \in users
                         /\ req[c].pc \in WithPair => req[c].pair \in 1..Len(pairs)

\* A request that moves on, while no pair disappears, stays well typed.
LEMMA GoTypeOK ==
  ASSUME TypeOK, NEW c \in Requests, NEW from \in Places \ {"done"},
         NEW to \in Places, to \in WithPair => from \in WithPair,
         Go(c, from, to), UNCHANGED pairs, users \subseteq users',
         to = "issue" => req[c].user \in users'
  PROVE  ReqOK'
<1>1. /\ req' \in [Requests -> Request] /\ req[c].pc = from
      /\ \A d \in Requests \ {c} : req'[d] = req[d]
      /\ req'[c].pc = to
      /\ to # "done" => req'[c].user = req[c].user /\ req'[c].op = req[c].op
                        /\ req'[c].pair = req[c].pair
  BY GoKeeps
<1>2. "done" \notin WithPair
  BY DEF WithPair, Inside
<1> QED BY <1>1, <1>2 DEF ReqOK, TypeOK

\* Initially.
LEMMA InitTypeOK == Init => TypeOK
<1> SUFFICES ASSUME Init PROVE TypeOK
  OBVIOUS
<1>1. Idle \in Request /\ Idle.pc = "done"
  BY AuthAssumption DEF Idle, Request, Over, Guarded
<1>2. <<>> \in Seq(Pair) /\ Len(<<>>) = 0
  OBVIOUS
<1>3. "done" \notin WithPair
  BY DEF WithPair, Inside
<1> QED BY <1>1, <1>2, <1>3, AuthAssumption DEF Init, TypeOK, Pair

\* A step keeps the types.
LEMMA StepTypeOK ==
  ASSUME TypeOK, [Next]_vars
  PROVE  TypeOK'
<1>t. /\ Len(pairs) \in Nat /\ pairs \in Seq(Pair)
      /\ \A p \in 1..Len(pairs) : pairs[p] \in Pair
  BY LenProperties, ElementOfSeq DEF TypeOK, Pair
<1>p. /\ {"checkEmail", "checkName", "insert", "lookup", "parseRefresh",
          "getUser", "issue", "blacklisted", "parse"} \cup Inside \cup Over
           \subseteq Places
      /\ "done" \notin {"checkEmail", "checkName", "insert", "lookup",
            "parseRefresh", "getUser", "issue", "blacklisted", "parse"}
      /\ "done" \notin Inside
  BY DEF Places, Inside
<1>i. /\ {"read", "parseAgain", "add", "count", "create", "delete"} \subseteq Inside
      /\ {"done", "conflict"} \subseteq Over
  BY DEF Inside, Over
<1>w. /\ Inside \cup {"blacklisted", "parse", "parseRefresh", "getUser"} = WithPair
      /\ \A x \in {"done", "conflict", "checkEmail", "checkName", "insert",
                    "lookup", "issue"} : x \notin WithPair
  BY DEF Inside, WithPair
<1>1. ASSUME NEW c \in Requests, Calls(c) PROVE TypeOK'
  <2>1. PICK op \in Public \cup Guarded, u \in Account, p \in 0..Len(pairs) :
          /\ Call(c, op, u, p)
          /\ op \in {"register", "login"} \/ p \in 1..Len(pairs)
    <3>1. CASE \E u \in Account : Register(c, u) \/ Login(c, u)
      <4>1. PICK u \in Account : Register(c, u) \/ Login(c, u)
        BY <3>1
      <4>2. 0 \in 0..Len(pairs)
        BY <1>t
      <4> QED BY <4>1, <4>2 DEF Register, Login, Public
    <3>2. CASE \E p \in 1..Len(pairs), op \in Guarded \cup {"refresh"} :
                 WithToken(c, op, p)
      <4>1. PICK p \in 1..Len(pairs), op \in Guarded \cup {"refresh"} :
              WithToken(c, op, p)
        BY <3>2
      <4>2. pairs[p].user \in Account /\ p \in 0..Len(pairs)
        BY <1>t DEF Pair, TypeOK
      <4> QED BY <4>1, <4>2 DEF WithToken, Public
    <3> QED BY <1>1, <3>1, <3>2 DEF Calls
  <2> DEFINE q == [pc |-> CASE op = "register" -> "checkEmail"
                            [] op = "login" -> "lookup"
                            [] op = "refresh" -> "parseRefresh"
                            [] OTHER -> "blacklisted",
                   op |-> op, user |-> u, pair |-> p,
                   late |-> op \in Guarded /\ p \in loggedOut]
  <2>2. p \in 0..MaxPairs
    BY <1>t, AuthAssumption DEF TypeOK
  <2>3. /\ q \in Request /\ q.user = u /\ q.pair = p
        /\ q.pc \in WithPair => p \in 1..Len(pairs)
    BY <1>w, <2>1, <2>2 DEF Request
  <2>4. req' = [req EXCEPT ![c] = q]
    BY <2>1 DEF Call
  <2> HIDE DEF q
  <2>5. ReqOK'
    BY <2>1, <2>3, <2>4 DEF Call, ReqOK, TypeOK
  <2>6. UNCHANGED <<users, keys, pairs, blacklist, now, loggedOut>>
    BY <2>1 DEF Call
  <2> QED BY <2>5, <2>6 DEF ReqOK, TypeOK
<1>2. ASSUME NEW c \in Requests, CheckEmail(c) PROVE TypeOK'
  <2>1. PICK to \in {"conflict", "checkName"} : Go(c, "checkEmail", to)
    BY <1>2 DEF CheckEmail
  <2>2. ReqOK'
    BY <1>2, <1>p, <1>i, <1>w, <2>1, GoTypeOK DEF CheckEmail
  <2> QED BY <1>2, <2>2 DEF CheckEmail, ReqOK, TypeOK
<1>3. ASSUME NEW c \in Requests, CheckName(c) PROVE TypeOK'
  <2>1. PICK to \in {"conflict", "insert"} : Go(c, "checkName", to)
    BY <1>3 DEF CheckName
  <2>2. ReqOK'
    BY <1>3, <1>p, <1>i, <1>w, <2>1, GoTypeOK DEF CheckName
  <2> QED BY <1>3, <2>2 DEF CheckName, ReqOK, TypeOK
<1>4. ASSUME NEW c \in Requests, Insert(c) PROVE TypeOK'
  <2>1. PICK to \in {"conflict", "issue"} :
          Go(c, "insert", to) /\ (to = "issue" => UserOf(c) \in users')
    BY <1>4 DEF Insert
  <2>3. req[c].pc = "insert"
    BY <2>1 DEF Go
  <2>4. users \subseteq users' /\ users' \subseteq Account
    BY <1>4, <2>3 DEF Insert, UserOf, TypeOK
  <2>6. UNCHANGED <<keys, pairs, blacklist, now, loggedOut>>
    BY <1>4 DEF Insert
  <2>2. ReqOK'
    BY <1>p, <1>i, <1>w, <2>1, <2>4, <2>6, GoTypeOK DEF UserOf
  <2>5. pairs \in Seq(Pair')
    <3>1. Pair \subseteq Pair'
      BY <2>4 DEF Pair
    <3> QED BY <1>t, <3>1
  <2> QED BY <2>2, <2>4, <2>5, <2>6 DEF ReqOK, TypeOK, Pair
<1>5. ASSUME NEW c \in Requests, Lookup(c) PROVE TypeOK'
  <2>1. CASE \E u \in users : req' = [req EXCEPT ![c].pc = "issue", ![c].user = u]
    <3>1. PICK u \in users : req' = [req EXCEPT ![c].pc = "issue", ![c].user = u]
      BY <2>1
    <3> DEFINE q == [req[c] EXCEPT !.pc = "issue", !.user = u]
    <3>2. /\ q \in Request /\ q.user = u /\ q.op = req[c].op
          /\ q.pair = req[c].pair
      BY DEF TypeOK, Request
    <3>3. req' = [req EXCEPT ![c] = q]
      BY <3>1 DEF TypeOK, Request
    <3>4. req[c].pc = "lookup" /\ u \in Account
      BY <1>5 DEF Lookup, TypeOK
    <3>6. q.pc = "issue"
      BY DEF TypeOK, Request
    <3>7. /\ "issue" \notin WithPair /\ u \in users'
          /\ UNCHANGED <<users, keys, pairs, blacklist, now, loggedOut>>
      BY <1>5, <1>w DEF Lookup
    <3> HIDE DEF q
    <3>8. /\ req' \in [Requests -> Request] /\ req'[c] = q
          /\ \A d \in Requests \ {c} : req'[d] = req[d]
      BY <3>2, <3>3 DEF TypeOK
    <3>5. ReqOK'
      BY <3>2, <3>4, <3>6, <3>7, <3>8 DEF ReqOK, TypeOK
    <3> QED BY <1>5, <3>5 DEF Lookup, ReqOK, TypeOK
  <2>2. CASE Go(c, "lookup", "done")
    <3>1. ReqOK'
      BY <1>5, <1>p, <1>i, <1>w, <2>2, GoTypeOK DEF Lookup
    <3> QED BY <1>5, <3>1 DEF Lookup, ReqOK, TypeOK
  <2> QED BY <1>5, <2>1, <2>2 DEF Lookup
<1>6. ASSUME NEW c \in Requests, ParseRefresh(c) PROVE TypeOK'
  <2>1. PICK to \in {"getUser", "done"} : Go(c, "parseRefresh", to)
    BY <1>6 DEF ParseRefresh
  <2>2. ReqOK'
    BY <1>6, <1>p, <1>i, <1>w, <2>1, GoTypeOK DEF ParseRefresh
  <2> QED BY <1>6, <2>2 DEF ParseRefresh, ReqOK, TypeOK
<1>7. ASSUME NEW c \in Requests, GetUser(c) PROVE TypeOK'
  <2>1. ReqOK'
    BY <1>7, <1>p, <1>i, <1>w, GoTypeOK DEF GetUser, UserOf
  <2> QED BY <1>7, <2>1 DEF GetUser, ReqOK, TypeOK
<1>9. ASSUME NEW c \in Requests, CheckBlacklist(c) PROVE TypeOK'
  <2>1. PICK to \in {"parse", "done"} : Go(c, "blacklisted", to)
    BY <1>9 DEF CheckBlacklist
  <2>2. ReqOK'
    BY <1>9, <1>p, <1>i, <1>w, <2>1, GoTypeOK DEF CheckBlacklist
  <2> QED BY <1>9, <2>2 DEF CheckBlacklist, ReqOK, TypeOK
<1>10. ASSUME NEW c \in Requests, ParseToken(c) PROVE TypeOK'
  <2>1. First(req[c].op) \in Inside
    BY <1>10, <1>i DEF ParseToken, First, Guarded
  <2>2. PICK to \in Inside \cup {"done"} : Go(c, "parse", to)
    BY <1>10, <2>1 DEF ParseToken
  <2>3. ReqOK'
    BY <1>10, <1>p, <1>i, <1>w, <2>2, GoTypeOK DEF ParseToken
  <2> QED BY <1>10, <2>3 DEF ParseToken, ReqOK, TypeOK
<1>11. ASSUME NEW c \in Requests, Read(c) PROVE TypeOK'
  <2>1. ReqOK'
    BY <1>11, <1>p, <1>i, <1>w, GoTypeOK DEF Read
  <2> QED BY <1>11, <2>1 DEF Read, ReqOK, TypeOK
<1>12. ASSUME NEW c \in Requests, LogoutParse(c) PROVE TypeOK'
  <2>1. PICK to \in {"add", "done"} : Go(c, "parseAgain", to)
    BY <1>12 DEF LogoutParse
  <2>2. ReqOK'
    BY <1>12, <1>p, <1>i, <1>w, <2>1, GoTypeOK DEF LogoutParse
  <2>3. req[c].pair \in 1..Len(pairs)
    BY <1>w, <1>i, <2>1 DEF Go, TypeOK
  <2> QED BY <1>12, <2>2, <2>3 DEF LogoutParse, ReqOK, TypeOK
<1>13. ASSUME NEW c \in Requests, Blacklist(c) PROVE TypeOK'
  <2>1. ReqOK'
    BY <1>13, <1>p, <1>i, <1>w, GoTypeOK DEF Blacklist
  <2>2. req[c].pair \in 1..Len(pairs)
    BY <1>13, <1>w, <1>i DEF Blacklist, Go, TypeOK
  <2>3. pairs[req[c].pair].until \in Nat
    BY <1>t, <2>2 DEF Pair
  <2> DEFINE b == [pair |-> req[c].pair, until |-> pairs[req[c].pair].until]
  <2>6. b \in [pair : 1..Len(pairs), until : Nat]
    BY <2>2, <2>3
  <2>7. blacklist' = blacklist \cup {b} /\ loggedOut' = loggedOut \cup {req[c].pair}
    BY <1>13 DEF Blacklist
  <2> HIDE DEF b
  <2>4. /\ blacklist' \subseteq [pair : 1..Len(pairs), until : Nat]
        /\ loggedOut' \subseteq 1..Len(pairs)
    BY <2>2, <2>6, <2>7 DEF TypeOK
  <2>5. UNCHANGED <<users, keys, pairs, now>>
    BY <1>13 DEF Blacklist
  <2> QED BY <2>1, <2>4, <2>5 DEF ReqOK, TypeOK
<1>14. ASSUME NEW c \in Requests, CountKeys(c) PROVE TypeOK'
  <2>1. PICK to \in {"create", "done"} : Go(c, "count", to)
    BY <1>14 DEF CountKeys
  <2>2. ReqOK'
    BY <1>14, <1>p, <1>i, <1>w, <2>1, GoTypeOK DEF CountKeys
  <2> QED BY <1>14, <2>2 DEF CountKeys, ReqOK, TypeOK
<1>15. ASSUME NEW c \in Requests, CreateKey(c) PROVE TypeOK'
  <2>1. ReqOK'
    BY <1>15, <1>p, <1>i, <1>w, GoTypeOK DEF CreateKey
  <2>2. UserOf(c) \in Account
    BY <1>15 DEF CreateKey, Go, UserOf, TypeOK
  <2>3. keys' \in [Account -> Nat]
    BY <1>15, <2>2 DEF CreateKey, TypeOK
  <2> QED BY <1>15, <2>1, <2>3 DEF CreateKey, ReqOK, TypeOK
<1>16. ASSUME NEW c \in Requests, DeleteKey(c) PROVE TypeOK'
  <2>1. Go(c, "delete", "done")
    BY <1>16 DEF DeleteKey
  <2>2. ReqOK'
    BY <1>16, <1>p, <1>i, <1>w, <2>1, GoTypeOK DEF DeleteKey
  <2>3. UserOf(c) \in Account
    BY <2>1 DEF Go, UserOf, TypeOK
  <2>4. keys' \in [Account -> Nat]
    BY <1>16, <2>3 DEF DeleteKey, TypeOK
  <2> QED BY <1>16, <2>2, <2>4 DEF DeleteKey, ReqOK, TypeOK
<1>17. ASSUME NEW c \in Requests, Abandon(c) PROVE TypeOK'
  <2>1. req[c].pc \in Places \ {"done"}
    BY <1>17 DEF Abandon, TypeOK, Request, Places, Over
  <2>2. ReqOK'
    BY <1>17, <1>p, <1>i, <1>w, <2>1, GoTypeOK DEF Abandon
  <2> QED BY <1>17, <2>2 DEF Abandon, ReqOK, TypeOK
<1>18. ASSUME NEW c \in Requests, GenerateTokenPair(c) PROVE TypeOK'
  <2> DEFINE new == [user |-> UserOf(c), until |-> now + AccessTTL,
                     renew |-> now + RefreshTTL]
  <2>1. /\ Go(c, "issue", "done") /\ Len(pairs) < MaxPairs
        /\ pairs' = Append(pairs, new)
        /\ UNCHANGED <<users, keys, blacklist, now, loggedOut>>
    BY <1>18 DEF GenerateTokenPair
  <2>2. /\ req' \in [Requests -> Request] /\ req[c].pc = "issue"
        /\ \A d \in Requests \ {c} : req'[d] = req[d]
        /\ req'[c].pc = "done"
    <3>1. "issue" \in Places /\ "done" \in Places
      BY <1>p, <1>i
    <3> QED BY <3>1, <2>1, GoKeeps
  <2>3. UserOf(c) \in users
    BY <2>2 DEF UserOf, TypeOK
  <2>4. new \in Pair
    BY <2>3, AuthAssumption DEF Pair, TypeOK
  <2> HIDE DEF new
  <2>5. /\ pairs' \in Seq(Pair) /\ Len(pairs') = Len(pairs) + 1
    BY <1>t, <2>1, <2>4
  <2>6. 1..Len(pairs) \subseteq 1..Len(pairs')
    BY <1>t, <2>5
  <2>7. ReqOK'
    BY <1>w, <2>1, <2>2, <2>6 DEF ReqOK, TypeOK
  <2>8. /\ Len(pairs') <= MaxPairs /\ pairs' \in Seq(Pair')
    BY <1>t, <2>1, <2>5, AuthAssumption DEF Pair
  <2>9. /\ blacklist' \subseteq [pair : 1..Len(pairs'), until : Nat]
        /\ loggedOut' \subseteq 1..Len(pairs')
    BY <2>1, <2>6 DEF TypeOK
  <2> QED BY <2>1, <2>7, <2>8, <2>9 DEF ReqOK, TypeOK, Pair
<1>19. ASSUME CleanExpired PROVE TypeOK'
  BY <1>19 DEF CleanExpired, TypeOK
<1>20. ASSUME Tick PROVE TypeOK'
  BY <1>20, AuthAssumption DEF Tick, TypeOK
<1>21. ASSUME UNCHANGED vars PROVE TypeOK'
  BY <1>21 DEF vars, TypeOK
<1> QED
  BY <1>1, <1>2, <1>3, <1>4, <1>5, <1>6, <1>7, <1>9, <1>10, <1>11, <1>12,
     <1>13, <1>14, <1>15, <1>16, <1>17, <1>18, <1>19, <1>20, <1>21
     DEF Next, Accounts, Tokens, Keys

\* Every reachable state is well typed: a request past its look-up has the row
\* of a user, and a token's pair was issued.
THEOREM TypeCorrect == Spec => []TypeOK
<1>1. Init => TypeOK
  BY InitTypeOK
<1>2. TypeOK /\ [Next]_vars => TypeOK'
  BY StepTypeOK
<1> QED BY <1>1, <1>2, PTL DEF Spec

-----------------------------------------------------------------------------
(* What the rest is about: which steps lead where.                            *)

\* What a step of the request in slot c does, as far as the invariants tell.
Moves(c) ==
  /\ \A d \in Requests \ {c} : req'[d] = req[d]
  /\ req'[c].pc = "conflict" => Taken(UserOf(c)) /\ req'[c].user = req[c].user
  /\ req'[c].pc = "create" => /\ req[c].pc = "count" /\ keys[UserOf(c)] < MaxKeys
                              /\ req'[c].user = req[c].user
  /\ req'[c].late =>
       \/ req'[c].pc = "blacklisted" /\ req'[c].pair \in loggedOut
       \/ /\ req[c].late /\ req'[c].pair = req[c].pair
          /\ \/ /\ req[c].pc = "blacklisted" /\ req'[c].pc = "parse"
                /\ ~Blacklisted(req[c].pair)
             \/ req[c].pc = "parse" /\ Alive(req[c].pair)
             \/ req[c].pc \notin {"blacklisted", "parse"}

Step(c) == Calls(c) \/ Accounts(c) \/ Tokens(c) \/ Keys(c) \/ Abandon(c)

\* Where JWTAuth's check leads, and what is past it.
LEMMA Labels ==
  /\ Inside \subseteq Places /\ Over \subseteq Places
  /\ {"checkEmail", "checkName", "insert", "lookup", "parseRefresh", "getUser",
      "issue", "blacklisted", "parse", "done", "conflict", "read", "parseAgain",
      "add", "count", "create", "delete"} \subseteq Places
  /\ {"blacklisted", "parse", "done", "conflict"} \cap Inside = {}
  /\ "create" \in Inside
BY DEF Places, Inside, Over

\* A request that goes on to anywhere but the places that matter.
LEMMA GoMoves ==
  ASSUME TypeOK, NEW c \in Requests, NEW from, NEW to \in Places, Go(c, from, to),
         to = "conflict" => Taken(UserOf(c)),
         to = "create" => from = "count" /\ keys[UserOf(c)] < MaxKeys,
         from = "blacklisted" => to \in {"parse", "done"},
         to = "parse" => ~Blacklisted(req[c].pair),
         from = "parse" => to = "done" \/ Alive(req[c].pair)
  PROVE  Moves(c)
<1>1. /\ req[c].pc = from /\ req'[c].pc = to
      /\ \A d \in Requests \ {c} : req'[d] = req[d]
      /\ to = "done" => req'[c] = Idle
      /\ to # "done" => /\ req'[c].user = req[c].user
                        /\ req'[c].pair = req[c].pair
                        /\ req'[c].late = req[c].late
  BY GoKeeps
<1>2. Idle.late = FALSE
  BY DEF Idle
<1> QED BY <1>1, <1>2 DEF Moves

\* Every step of a request is such a move.
LEMMA StepMoves ==
  ASSUME TypeOK, NEW c \in Requests, Step(c)
  PROVE  Moves(c)
<1>1. ASSUME NEW op, NEW u, NEW p, Call(c, op, u, p) PROVE Moves(c)
  <2> DEFINE q == [pc |-> CASE op = "register" -> "checkEmail"
                            [] op = "login" -> "lookup"
                            [] op = "refresh" -> "parseRefresh"
                            [] OTHER -> "blacklisted",
                   op |-> op, user |-> u, pair |-> p,
                   late |-> op \in Guarded /\ p \in loggedOut]
  <2>1. /\ q.pc \notin {"conflict", "create"}
        /\ q.late => q.pc = "blacklisted" /\ q.pair \in loggedOut
    BY DEF Guarded
  <2>2. req' = [req EXCEPT ![c] = q]
    BY <1>1 DEF Call
  <2> HIDE DEF q
  <2>3. req'[c] = q /\ \A d \in Requests \ {c} : req'[d] = req[d]
    BY <2>2 DEF TypeOK
  <2> QED BY <2>1, <2>3 DEF Moves
<1>2. CASE Calls(c)
  BY <1>1, <1>2 DEF Calls, Register, Login, WithToken
<1>3. CASE CheckEmail(c)
  BY <1>3, Labels, GoMoves DEF CheckEmail, Taken
<1>4. CASE CheckName(c)
  BY <1>4, Labels, GoMoves DEF CheckName, Taken
<1>5. CASE Insert(c)
  BY <1>5, Labels, GoMoves DEF Insert
<1>6. CASE Lookup(c)
  <2>1. CASE Go(c, "lookup", "done")
    BY <2>1, Labels, GoMoves
  <2>2. CASE \E u \in users : req' = [req EXCEPT ![c].pc = "issue", ![c].user = u]
    <3>1. PICK u \in users : req' = [req EXCEPT ![c].pc = "issue", ![c].user = u]
      BY <2>2
    <3>2. req'[c].pc = "issue" /\ req'[c].late = req[c].late
          /\ req'[c].pair = req[c].pair
          /\ \A d \in Requests \ {c} : req'[d] = req[d]
      BY <3>1 DEF TypeOK, Request
    <3> QED BY <1>6, <3>2 DEF Lookup, Moves
  <2> QED BY <1>6, <2>1, <2>2 DEF Lookup
<1>7. CASE ParseRefresh(c)
  BY <1>7, Labels, GoMoves DEF ParseRefresh
<1>8. CASE GetUser(c)
  BY <1>8, Labels, GoMoves DEF GetUser
<1>9. CASE GenerateTokenPair(c)
  BY <1>9, Labels, GoMoves DEF GenerateTokenPair
<1>10. CASE CheckBlacklist(c)
  BY <1>10, Labels, GoMoves DEF CheckBlacklist
<1>11. CASE ParseToken(c)
  <2>1. PICK to \in {"read", "parseAgain", "count", "delete", "done"} :
          Go(c, "parse", to) /\ (to # "done" => Alive(req[c].pair))
    BY <1>11 DEF ParseToken, First, Guarded
  <2> QED BY <2>1, Labels, GoMoves
<1>12. CASE Read(c)
  BY <1>12, Labels, GoMoves DEF Read
<1>13. CASE LogoutParse(c)
  BY <1>13, Labels, GoMoves DEF LogoutParse
<1>14. CASE Blacklist(c)
  BY <1>14, Labels, GoMoves DEF Blacklist
<1>15. CASE CountKeys(c)
  <2>1. UserOf(c) \in Account
    BY <1>15 DEF CountKeys, Go, UserOf, TypeOK
  <2>2. ~(keys[UserOf(c)] >= MaxKeys) => keys[UserOf(c)] < MaxKeys
    BY <2>1, AuthAssumption DEF TypeOK
  <2> QED BY <1>15, <2>2, Labels, GoMoves DEF CountKeys
<1>16. CASE CreateKey(c)
  BY <1>16, Labels, GoMoves DEF CreateKey
<1>17. CASE DeleteKey(c)
  BY <1>17, Labels, GoMoves DEF DeleteKey
<1>18. CASE Abandon(c)
  <2>1. req[c].pc # "done" /\ Go(c, req[c].pc, "done")
    BY <1>18 DEF Abandon, Over
  <2> QED BY <2>1, Labels, GoMoves
<1> QED
  BY <1>2, <1>3, <1>4, <1>5, <1>6, <1>7, <1>8, <1>9, <1>10, <1>11, <1>12,
     <1>13, <1>14, <1>15, <1>16, <1>17, <1>18
     DEF Step, Accounts, Tokens, Keys

\* What only grows: the clock, the rows of users, the pairs issued.
LEMMA Grows ==
  ASSUME TypeOK, [Next]_vars
  PROVE  /\ now <= now' /\ users \subseteq users' /\ loggedOut \subseteq loggedOut'
         /\ \A p \in 1..Len(pairs) : p \in 1..Len(pairs') /\ pairs'[p] = pairs[p]
<1>1. now \in Nat /\ Len(pairs) \in Nat
  BY AuthAssumption DEF TypeOK
<1>2. ASSUME NEW c \in Requests, GenerateTokenPair(c)
      PROVE  \A p \in 1..Len(pairs) : p \in 1..Len(pairs') /\ pairs'[p] = pairs[p]
  <2> DEFINE new == [user |-> UserOf(c), until |-> now + AccessTTL,
                     renew |-> now + RefreshTTL]
  <2>1. pairs' = Append(pairs, new)
    BY <1>2 DEF GenerateTokenPair
  <2> HIDE DEF new
  <2> QED BY <1>1, <2>1 DEF TypeOK
<1>3. UNCHANGED pairs \/ \E c \in Requests : GenerateTokenPair(c)
  BY DEF Next, vars, Calls, Call, Register, Login, WithToken, Accounts, Tokens,
         Keys, CheckEmail, CheckName, Insert, Lookup, ParseRefresh, GetUser,
         CheckBlacklist, ParseToken, Read, LogoutParse, Blacklist, CountKeys,
         CreateKey, DeleteKey, Abandon, CleanExpired, Tick
<1>4. now' = now \/ now' = now + 1
  BY DEF Next, vars, Calls, Call, Register, Login, WithToken, Accounts, Tokens,
         Keys, CheckEmail, CheckName, Insert, Lookup, ParseRefresh, GetUser,
         GenerateTokenPair, CheckBlacklist, ParseToken, Read, LogoutParse,
         Blacklist, CountKeys, CreateKey, DeleteKey, Abandon, CleanExpired, Tick
<1>5. users \subseteq users'
  BY DEF Next, vars, Calls, Call, Register, Login, WithToken, Accounts, Tokens,
         Keys, CheckEmail, CheckName, Insert, Lookup, ParseRefresh, GetUser,
         GenerateTokenPair, CheckBlacklist, ParseToken, Read, LogoutParse,
         Blacklist, CountKeys, CreateKey, DeleteKey, Abandon, CleanExpired, Tick
<1>6. loggedOut \subseteq loggedOut'
  BY DEF Next, vars, Calls, Call, Register, Login, WithToken, Accounts, Tokens,
         Keys, CheckEmail, CheckName, Insert, Lookup, ParseRefresh, GetUser,
         GenerateTokenPair, CheckBlacklist, ParseToken, Read, LogoutParse,
         Blacklist, CountKeys, CreateKey, DeleteKey, Abandon, CleanExpired, Tick
<1>7. now <= now'
  BY <1>1, <1>4
<1> QED BY <1>2, <1>3, <1>5, <1>6, <1>7

\* A step is one of a request, or none of any request.
LEMMA Shape ==
  ASSUME TypeOK, [Next]_vars
  PROVE  \/ UNCHANGED <<req, users, keys, loggedOut>>
         \/ \E c \in Requests : Step(c)
BY DEF Next, vars, Step, CleanExpired, Tick

-----------------------------------------------------------------------------
(* One account for an email, one for a name.                                  *)

\* Only Insert adds a row, and it looks at the indexes as it does.
LEMMA InsertOnly ==
  ASSUME TypeOK, [Next]_vars
  PROVE  \/ UNCHANGED users
         \/ \E a \in Account : ~Taken(a) /\ users' = users \cup {a}
<1>1. ASSUME NEW c \in Requests, Insert(c), users' # users
      PROVE  \E a \in Account : ~Taken(a) /\ users' = users \cup {a}
  <2>1. req[c].pc = "insert"
    BY <1>1 DEF Insert, Go
  <2>2. UserOf(c) \in Account
    BY <2>1 DEF UserOf, TypeOK
  <2> QED BY <1>1, <2>2 DEF Insert
<1>2. UNCHANGED users \/ \E c \in Requests : Insert(c)
  BY DEF Next, vars, Calls, Call, Register, Login, WithToken, Accounts, Tokens,
         Keys, CheckEmail, CheckName, Lookup, ParseRefresh, GetUser,
         GenerateTokenPair, CheckBlacklist, ParseToken, Read, LogoutParse,
         Blacklist, CountKeys, CreateKey, DeleteKey, Abandon, CleanExpired, Tick
<1> QED BY <1>1, <1>2

\* Registrations overlap as they like: an email and a name have one account,
\* and a request that was told of a conflict was told the truth.
THEOREM OneAccount == Spec => []AccountsDistinct
<1>1. Init => AccountsDistinct
  <2> SUFFICES ASSUME Init PROVE AccountsDistinct
    OBVIOUS
  <2>1. \A c \in Requests : req[c].pc = "done"
    BY DEF Init, Idle
  <2> QED BY <2>1 DEF Init, AccountsDistinct
<1>2. TypeOK /\ AccountsDistinct /\ [Next]_vars => AccountsDistinct'
  <2> SUFFICES ASSUME TypeOK, AccountsDistinct, [Next]_vars
               PROVE  AccountsDistinct'
    OBVIOUS
  <2>1. \A u, v \in users' : u.email = v.email \/ u.name = v.name => u = v
    BY InsertOnly DEF AccountsDistinct, Taken
  <2>2. ASSUME NEW c \in Requests, req'[c].pc = "conflict"
        PROVE  Taken(UserOf(c)) /\ req'[c].user = req[c].user
    <3>1. CASE UNCHANGED req
      BY <2>2, <3>1 DEF AccountsDistinct
    <3>2. CASE \E d \in Requests : Step(d)
      <4>1. PICK d \in Requests : Step(d)
        BY <3>2
      <4>2. Moves(d)
        BY <4>1, StepMoves
      <4> QED BY <2>2, <4>2 DEF Moves, AccountsDistinct
    <3> QED BY <3>1, <3>2, Shape
  <2>3. \A c \in Requests : req'[c].pc = "conflict" => Taken(UserOf(c))'
    BY <2>2, Grows DEF Taken, UserOf
  <2> QED BY <2>1, <2>3 DEF AccountsDistinct
<1> QED BY <1>1, <1>2, TypeCorrect, PTL DEF Spec

-----------------------------------------------------------------------------
(* A logout sticks.                                                           *)

\* A logged-out pair is on the list until it ends, so a request that comes
\* later is stopped by the one check or by the other.
Revoked ==
  /\ \A b \in blacklist : b.until = pairs[b.pair].until
  /\ \A p \in loggedOut : Blacklisted(p) \/ ~Alive(p)
  /\ \A c \in Requests : req[c].late =>
       /\ req[c].pair \in loggedOut
       /\ \/ req[c].pc = "blacklisted"
          \/ req[c].pc = "parse" /\ ~Alive(req[c].pair)

\* The end of a token is a time.
LEMMA PairsOK ==
  ASSUME TypeOK
  PROVE  \A p \in 1..Len(pairs) : pairs[p].until \in Nat
<1>1. pairs \in Seq(Pair)
  BY DEF TypeOK, Pair
<1>2. \A p \in 1..Len(pairs) : pairs[p] \in Pair
  BY <1>1, ElementOfSeq
<1> QED BY <1>2 DEF Pair

\* What is not alive stays so.
LEMMA DeadStays ==
  ASSUME TypeOK, [Next]_vars, NEW p \in 1..Len(pairs), ~Alive(p)
  PROVE  ~Alive(p)'
<1>1. pairs'[p] = pairs[p] /\ now <= now'
  BY Grows
<1>2. pairs[p].until \in Nat
  BY PairsOK
<1>3. now \in Nat /\ now' \in Nat
  <2>1. now \in 0..MaxNow
    BY DEF TypeOK
  <2>2. TypeOK'
    BY StepTypeOK
  <2>3. now' \in 0..MaxNow
    BY <2>2 DEF TypeOK
  <2> QED BY <2>1, <2>3, AuthAssumption
<1> QED BY <1>1, <1>2, <1>3 DEF Alive

\* The list: an entry lasts as long as the token, and clean-up waits for that.
LEMMA ListKept ==
  ASSUME TypeOK, Revoked, [Next]_vars
  PROVE  /\ \A b \in blacklist' : b.until = pairs'[b.pair].until
         /\ \A p \in loggedOut' : Blacklisted(p)' \/ ~Alive(p)'
<1>t. /\ blacklist \subseteq [pair : 1..Len(pairs), until : Nat]
      /\ loggedOut \subseteq 1..Len(pairs) /\ now \in Nat
      /\ \A p \in 1..Len(pairs) : pairs[p].until \in Nat
  <2>1. now \in Nat
    BY AuthAssumption DEF TypeOK
  <2> QED BY <2>1, PairsOK DEF TypeOK
<1>g. \A p \in 1..Len(pairs) : pairs'[p] = pairs[p]
  BY Grows
<1>d. \A p \in 1..Len(pairs) : ~Alive(p) => ~Alive(p)'
  BY DeadStays
<1>1. CASE UNCHANGED <<blacklist, loggedOut>>
  <2>1. \A b \in blacklist' : b.until = pairs'[b.pair].until
    BY <1>1, <1>t, <1>g DEF Revoked
  <2>2. \A p \in loggedOut' : Blacklisted(p)' \/ ~Alive(p)'
    BY <1>1, <1>t, DeadStays DEF Revoked, Blacklisted
  <2> QED BY <2>1, <2>2
<1>2. ASSUME NEW c \in Requests, Blacklist(c)
      PROVE  /\ \A b \in blacklist' : b.until = pairs'[b.pair].until
             /\ \A p \in loggedOut' : Blacklisted(p)' \/ ~Alive(p)'
  <2> DEFINE new == [pair |-> req[c].pair, until |-> pairs[req[c].pair].until]
  <2>1. /\ blacklist' = blacklist \cup {new}
        /\ loggedOut' = loggedOut \cup {req[c].pair}
    BY <1>2 DEF Blacklist
  <2>2. req[c].pair \in 1..Len(pairs)
    BY <1>2 DEF Blacklist, Go, TypeOK, WithPair, Inside
  <2>3. new.pair = req[c].pair /\ new.until = pairs[req[c].pair].until
    OBVIOUS
  <2> HIDE DEF new
  <2>4. \A b \in blacklist' : b.until = pairs'[b.pair].until
    BY <1>t, <1>g, <2>1, <2>2, <2>3 DEF Revoked
  <2>5. \A p \in loggedOut' : Blacklisted(p)' \/ ~Alive(p)'
    <3>1. ASSUME NEW p \in loggedOut PROVE Blacklisted(p)' \/ ~Alive(p)'
      BY <1>t, <1>d, <2>1 DEF Revoked, Blacklisted
    <3>3. \A p : p = req[c].pair => Blacklisted(p)'
      BY <2>1, <2>3 DEF Blacklisted
    <3> QED BY <2>1, <3>1, <3>3
  <2> QED BY <2>4, <2>5
<1>3. ASSUME NEW c \in Requests, LogoutParse(c)
      PROVE  /\ \A b \in blacklist' : b.until = pairs'[b.pair].until
             /\ \A p \in loggedOut' : Blacklisted(p)' \/ ~Alive(p)'
  <2>1. UNCHANGED blacklist
    BY <1>3 DEF LogoutParse
  <2>2. req[c].pair \in 1..Len(pairs)
    BY <1>3 DEF LogoutParse, Go, TypeOK, WithPair, Inside
  <2>3. \A p \in loggedOut' : p \in 1..Len(pairs) /\ (p \in loggedOut \/ ~Alive(p))
    BY <1>3, <1>t, <2>2 DEF LogoutParse
  <2>4. \A b \in blacklist' : b.until = pairs'[b.pair].until
    BY <1>t, <1>g, <2>1 DEF Revoked
  <2>5. \A p \in loggedOut' : Blacklisted(p)' \/ ~Alive(p)'
    BY <1>d, <2>1, <2>3 DEF Revoked, Blacklisted
  <2> QED BY <2>4, <2>5
<1>4. ASSUME CleanExpired
      PROVE  /\ \A b \in blacklist' : b.until = pairs'[b.pair].until
             /\ \A p \in loggedOut' : Blacklisted(p)' \/ ~Alive(p)'
  <2>1. /\ blacklist' = {b \in blacklist : b.until >= now}
        /\ UNCHANGED <<pairs, now, loggedOut>>
    BY <1>4 DEF CleanExpired
  <2>2. ASSUME NEW p \in loggedOut, Alive(p) PROVE Blacklisted(p)'
    <3>1. PICK b \in blacklist : b.pair = p
      BY <2>2 DEF Revoked, Blacklisted
    <3>2. b.until >= now
      <4>1. b.until = pairs[p].until /\ p \in 1..Len(pairs)
        BY <1>t, <3>1 DEF Revoked
      <4> QED BY <1>t, <2>2, <4>1 DEF Alive
    <3> QED BY <2>1, <3>1, <3>2 DEF Blacklisted
  <2>3. \A b \in blacklist' : b.until = pairs'[b.pair].until
    BY <2>1 DEF Revoked
  <2> QED BY <2>1, <2>2, <2>3 DEF Alive
<1>5. \/ UNCHANGED <<blacklist, loggedOut>> \/ CleanExpired
      \/ \E c \in Requests : Blacklist(c) \/ LogoutParse(c)
  BY DEF Next, vars, Calls, Call, Register, Login, WithToken, Accounts, Tokens,
         Keys, CheckEmail, CheckName, Insert, Lookup, ParseRefresh, GetUser,
         GenerateTokenPair, CheckBlacklist, ParseToken, Read, CountKeys,
         CreateKey, DeleteKey, Abandon, Tick
<1> QED BY <1>1, <1>2, <1>3, <1>4, <1>5

\* A late request is stopped before it is inside.
LEMMA LateStopped ==
  ASSUME TypeOK, Revoked, [Next]_vars, NEW c \in Requests, req'[c].late
  PROVE  /\ req'[c].pair \in loggedOut'
         /\ \/ req'[c].pc = "blacklisted"
            \/ req'[c].pc = "parse" /\ ~Alive(req[c].pair)'
<1>d. \A p \in 1..Len(pairs) : ~Alive(p) => ~(now' < pairs'[p].until)
  BY DeadStays DEF Alive
<1>1. loggedOut \subseteq loggedOut' /\ loggedOut \subseteq 1..Len(pairs)
  BY Grows DEF TypeOK
<1>2. CASE req'[c] = req[c]
  BY <1>1, <1>d, <1>2 DEF Revoked, Alive
<1>3. CASE Moves(c)
  <2>1. CASE req'[c].pc = "blacklisted" /\ req'[c].pair \in loggedOut
    BY <1>1, <2>1
  <2>2. CASE /\ req[c].late /\ req'[c].pair = req[c].pair
             /\ \/ /\ req[c].pc = "blacklisted" /\ req'[c].pc = "parse"
                   /\ ~Blacklisted(req[c].pair)
                \/ req[c].pc = "parse" /\ Alive(req[c].pair)
                \/ req[c].pc \notin {"blacklisted", "parse"}
    <3>1. /\ req[c].pair \in loggedOut /\ req[c].pc = "blacklisted"
          /\ req'[c].pc = "parse" /\ ~Blacklisted(req[c].pair)
      BY <2>2 DEF Revoked
    <3>2. ~Alive(req[c].pair)
      BY <3>1 DEF Revoked
    <3> QED BY <1>1, <1>d, <2>2, <3>1, <3>2 DEF Alive
  <2> QED BY <1>3, <2>1, <2>2 DEF Moves
<1>4. CASE UNCHANGED req
  BY <1>2, <1>4
<1>5. CASE \E d \in Requests : Step(d)
  <2>1. PICK d \in Requests : Step(d)
    BY <1>5
  <2>2. Moves(d)
    BY <2>1, StepMoves
  <2>3. d = c \/ req'[c] = req[c]
    BY <2>2 DEF Moves
  <2> QED BY <1>2, <1>3, <2>2, <2>3
<1> QED BY <1>4, <1>5, Shape

\* A request that comes after its token's logout was answered never passes
\* JWTAuth, for any lifetimes, any clean-up and any overlapping requests.
THEOREM LogoutHolds == Spec => []LogoutSticks
<1>1. Init => Revoked
  BY DEF Init, Revoked, Idle
<1>2. TypeOK /\ Revoked /\ [Next]_vars => Revoked'
  <2> SUFFICES ASSUME TypeOK, Revoked, [Next]_vars PROVE Revoked'
    OBVIOUS
  <2>1. \A c \in Requests : req'[c].late =>
          /\ req'[c].pair \in loggedOut'
          /\ \/ req'[c].pc = "blacklisted"
             \/ req'[c].pc = "parse" /\ ~Alive(req[c].pair)'
    BY LateStopped
  <2> QED BY <2>1, ListKept DEF Revoked
<1>3. Revoked => LogoutSticks
  BY Labels DEF Revoked, LogoutSticks
<1> QED BY <1>1, <1>2, <1>3, TypeCorrect, PTL DEF Spec

-----------------------------------------------------------------------------
(* The limit of API keys.                                                     *)

\* The requests of u that are past the count and before the insert.
Creating(u) == {c \in Requests : req[c].pc = "create" /\ req[c].user = u}

\* Each of them was counted below the limit: together they exceed it by less
\* than their number.
Counted ==
  \A u \in Account : keys[u] + Cardinality(Creating(u)) < MaxKeys + Cardinality(Requests)

\* Sets of requests are finite.
LEMMA CreatingFinite ==
  ASSUME NEW u
  PROVE  /\ IsFiniteSet(Creating(u)) /\ Cardinality(Creating(u)) \in Nat
         /\ Cardinality(Creating(u)) <= Cardinality(Requests)
         /\ Cardinality(Requests) \in Nat
<1>1. Creating(u) \subseteq Requests
  BY DEF Creating
<1> QED BY <1>1, AuthAssumption, FS_Subset, FS_CardinalityType

\* A row is only added by a request that was creating it.
LEMMA KeysMove ==
  ASSUME TypeOK, [Next]_vars
  PROVE  \/ \A u \in Account : keys'[u] <= keys[u]
         \/ \E c \in Requests : CreateKey(c)
<1>t. \A u \in Account : keys[u] \in Nat
  BY DEF TypeOK
<1>1. ASSUME NEW c \in Requests, DeleteKey(c)
      PROVE  \A u \in Account : keys'[u] <= keys[u]
  <2>1. UNCHANGED keys \/ (keys[UserOf(c)] > 0
                            /\ keys' = [keys EXCEPT ![UserOf(c)] = @ - 1])
    BY <1>1 DEF DeleteKey
  <2> QED BY <1>t, <2>1 DEF TypeOK
<1>2. ASSUME UNCHANGED keys PROVE \A u \in Account : keys'[u] <= keys[u]
  BY <1>t, <1>2
<1>3. UNCHANGED keys \/ \E c \in Requests : CreateKey(c) \/ DeleteKey(c)
  BY DEF Next, vars, Calls, Call, Register, Login, WithToken, Accounts, Tokens,
         Keys, CheckEmail, CheckName, Insert, Lookup, ParseRefresh, GetUser,
         GenerateTokenPair, CheckBlacklist, ParseToken, Read, LogoutParse,
         Blacklist, CountKeys, Abandon, CleanExpired, Tick
<1> QED BY <1>1, <1>2, <1>3

\* However the counts and the inserts of concurrent requests fall, an account
\* has fewer keys than the limit and the concurrent requests together.
THEOREM KeysNearLimit == Spec => []KeysBounded
<1>1. Init => Counted
  <2> SUFFICES ASSUME Init, NEW u \in Account
               PROVE  keys[u] + Cardinality(Creating(u)) < MaxKeys + Cardinality(Requests)
    BY DEF Counted
  <2>1. keys[u] = 0
    BY DEF Init
  <2> QED BY <2>1, CreatingFinite, AuthAssumption
<1>2. TypeOK /\ Counted /\ [Next]_vars => Counted'
  <2> SUFFICES ASSUME TypeOK, Counted, [Next]_vars, NEW u \in Account
               PROVE  keys'[u] + Cardinality(Creating(u)')
                        < MaxKeys + Cardinality(Requests)
    BY DEF Counted
  <2>t. keys[u] \in Nat /\ keys'[u] \in Nat
    BY StepTypeOK DEF TypeOK
  <2>f. /\ Cardinality(Creating(u)) \in Nat /\ Cardinality(Creating(u)') \in Nat
        /\ IsFiniteSet(Creating(u)) /\ Cardinality(Requests) \in Nat
        /\ Cardinality(Creating(u)') <= Cardinality(Requests)
    <3>1. Creating(u)' \subseteq Requests
      BY DEF Creating
    <3> QED BY <3>1, CreatingFinite, AuthAssumption, FS_Subset, FS_CardinalityType
  <2>i. keys[u] + Cardinality(Creating(u)) < MaxKeys + Cardinality(Requests)
    BY DEF Counted
  <2>1. CASE \E c \in Requests : CreateKey(c)
    <3>1. PICK c \in Requests : CreateKey(c)
      BY <2>1
    <3>2. /\ req[c].pc = "create" /\ req'[c].pc = "done"
          /\ \A d \in Requests \ {c} : req'[d] = req[d]
      BY <3>1, Labels, GoKeeps DEF CreateKey
    <3>3. keys' = [keys EXCEPT ![UserOf(c)] = @ + 1]
      BY <3>1 DEF CreateKey
    <3>4. CASE UserOf(c) = u
      <4>1. Creating(u)' = Creating(u) \ {c} /\ c \in Creating(u)
        BY <3>2, <3>4 DEF Creating, UserOf
      <4>2. Cardinality(Creating(u)') = Cardinality(Creating(u)) - 1
        BY <4>1, <2>f, FS_RemoveElement
      <4>3. keys'[u] = keys[u] + 1
        BY <3>3, <3>4 DEF TypeOK
      <4> QED BY <2>t, <2>f, <2>i, <4>2, <4>3
    <3>5. CASE UserOf(c) # u
      <4>1. Creating(u)' = Creating(u) /\ keys'[u] = keys[u]
        BY <3>2, <3>3, <3>5 DEF Creating, UserOf, TypeOK
      <4> QED BY <2>i, <4>1
    <3> QED BY <3>4, <3>5
  <2>2. CASE Creating(u)' \subseteq Creating(u) /\ keys'[u] <= keys[u]
    <3>1. Cardinality(Creating(u)') <= Cardinality(Creating(u))
      BY <2>f, <2>2, FS_Subset
    <3> QED BY <2>t, <2>f, <2>i, <3>1, <2>2, AuthAssumption
  <2>3. CASE keys[u] < MaxKeys /\ keys'[u] <= keys[u]
    BY <2>t, <2>f, <2>3, AuthAssumption
  <2>4. CASE \A v \in Account : keys'[v] <= keys[v]
    <3>1. CASE \E c \in Requests : Step(c)
      <4>1. PICK c \in Requests : Step(c)
        BY <3>1
      <4>2. Moves(c)
        BY <4>1, StepMoves
      <4>3. Creating(u)' \subseteq Creating(u)
              \/ (req'[c].pc = "create" /\ req'[c].user = u)
        BY <4>2 DEF Moves, Creating
      <4>4. (req'[c].pc = "create" /\ req'[c].user = u) => keys[u] < MaxKeys
        BY <4>2 DEF Moves, UserOf
      <4> QED BY <2>2, <2>3, <2>4, <4>3, <4>4
    <3>2. CASE UNCHANGED req
      <4>1. Creating(u)' = Creating(u)
        BY <3>2 DEF Creating
      <4> QED BY <2>2, <2>4, <4>1
    <3> QED BY <3>1, <3>2, Shape
  <2> QED BY <2>1, <2>4, KeysMove
<1>3. TypeOK /\ Counted => KeysBounded
  <2> SUFFICES ASSUME TypeOK, Counted, NEW u \in Account
               PROVE  keys[u] < MaxKeys + Cardinality(Requests)
    BY DEF KeysBounded
  <2>1. keys[u] \in Nat
    BY DEF TypeOK
  <2> QED BY <2>1, CreatingFinite, AuthAssumption DEF Counted
<1> QED BY <1>1, <1>2, <1>3, TypeCorrect, PTL DEF Spec
=============================================================================
