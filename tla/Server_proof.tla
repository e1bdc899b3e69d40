---------------------------- MODULE Server_proof ----------------------------
(* Proofs about Sessions: whoever is admitted has given a password that was  *)
(* the user's at most TTL ticks ago, and the user was registered at most one *)
(* tick ago.  Then about HostTasks, for any hosts, any finite number of      *)
(* tasks and any number of clients.                                          *)
EXTENDS Sessions, HostTasks, FiniteSetTheorems, TLAPS

\* A password that is the user's now is new.
CurrentIsNew ==
    \A u \in Users : authentication[u] # None => since[u][authentication[u]] = 0

\* A token loses a tick whenever its password gets older by one.
TokenIsYoung ==
    \A c \in Clients : token[c] # None /\ token[c].left > 0 =>
        since[token[c].user][token[c].password] + token[c].left <= TTL

\* A request that passed jwt.decode sees one more tick at most.
RequestIsYoung ==
    \A c \in Clients : request[c] \in {"lookup", "admitted"} =>
        /\ since[token[c].user][token[c].password] <= TTL
        /\ ~waiting[c] => since[token[c].user][token[c].password] < TTL

\* The same of the look at the hash.
UserWasThere ==
    \A c \in Clients : request[c] = "admitted" =>
        \E p \in Passwords : /\ since[token[c].user][p] <= 1
                             /\ ~waiting[c] => since[token[c].user][p] = 0

SInv ==
    SessionsTypeOK /\ CurrentIsNew /\ TokenIsYoung /\ RequestIsYoung /\ UserWasThere

\* Ticks are numbers, and Long is beyond a token's life.
LEMMA LongIsLong == TTL \in Nat /\ TTL > 0 /\ Long = TTL + 1 /\ Long \in Nat
BY SessionsAssumption DEF Long

\* No attempt and no token is None.
LEMMA SomethingIsNotNone ==
    /\ None \notin Passwords
    /\ \A u \in Users, p \in Passwords :
        [user |-> u, password |-> p] \in Logins /\ [user |-> u, password |-> p] # None
    /\ \A u \in Users, p \in Passwords, n \in 0..TTL :
        /\ [user |-> u, password |-> p, left |-> n] \in Tokens
        /\ [user |-> u, password |-> p, left |-> n] # None
BY SessionsAssumption DEF Logins, Tokens

\* A tick makes no password older than one tick more, and changes types of none.
LEMMA Older ==
    ASSUME SessionsTypeOK, Tick
    PROVE  /\ since' \in [Users -> [Passwords -> 0..Long]]
           /\ \A u \in Users, p \in Passwords : since'[u][p] <= since[u][p] + 1
           /\ \A u \in Users : authentication[u] # None
                  => since'[u][authentication[u]] = 0
  <1> USE LongIsLong
  <1>1. \A u \in Users, p \in Passwords : since[u][p] \in 0..Long
    BY DEF SessionsTypeOK
  <1>2. \A u \in Users : since'[u] = [p \in Passwords |->
                IF authentication[u] = p THEN 0 ELSE Aged(since[u][p])]
    BY DEF Tick
  <1>3. \A u \in Users, p \in Passwords :
            since'[u][p] = IF authentication[u] = p THEN 0 ELSE Aged(since[u][p])
    BY <1>2
  <1>4. \A u \in Users, p \in Passwords :
            since'[u][p] \in 0..Long /\ since'[u][p] <= since[u][p] + 1
    BY <1>1, <1>3 DEF Aged
  <1>5. since' \in [Users -> [Passwords -> 0..Long]]
    <2>1. since' = [u \in Users |-> since'[u]]  BY DEF Tick
    <2>2. \A u \in Users : since'[u] \in [Passwords -> 0..Long]
      <3> SUFFICES ASSUME NEW u \in Users PROVE since'[u] \in [Passwords -> 0..Long]
        OBVIOUS
      <3>1. since'[u] = [p \in Passwords |-> since'[u][p]]  BY <1>2
      <3> QED  BY <3>1, <1>4
    <2> QED  BY <2>1, <2>2
  <1>6. \A u \in Users : authentication[u] # None => since'[u][authentication[u]] = 0
    BY <1>3 DEF SessionsTypeOK
  <1> QED  BY <1>4, <1>5, <1>6

\* The types survive every step.
LEMMA TypesStep ==
    ASSUME SessionsTypeOK, [SessionsNext]_svars
    PROVE  SessionsTypeOK'
  <1> USE LongIsLong
  <1> USE DEF SessionsTypeOK
  <1>1. ASSUME NEW c \in Clients, NEW u \in Users, NEW p \in Passwords, login(c, u, p)
        PROVE  SessionsTypeOK'
    <2> DEFINE l == [user |-> u, password |-> p]
    <2>1. l \in Logins /\ l # None  BY SomethingIsNotNone
    <2>2. attempt' = [attempt EXCEPT ![c] = l]  BY <1>1 DEF login
    <2> HIDE DEF l
    <2> QED  BY <1>1, <2>1, <2>2 DEF login, Goto
  <1>2. ASSUME NEW c \in Clients, use_token(c)
        PROVE  SessionsTypeOK'
    BY <1>2 DEF use_token, Goto
  <1>3. ASSUME NEW c \in Clients, Serve(c)
        PROVE  SessionsTypeOK'
    <2>1. CASE user_exists(c)       BY <2>1 DEF user_exists, Goto, Answer
    <2>2. CASE password_matches(c)
      <3> DEFINE new == [user |-> attempt[c].user, password |-> attempt[c].password,
                         left |-> TTL]
      <3>1. attempt[c] \in Logins  BY <2>2 DEF password_matches
      <3>2. new \in Tokens /\ new # None
        BY <3>1, SomethingIsNotNone DEF Logins
      <3>3. token' = [token EXCEPT ![c] = new] \/ token' = token
        BY <2>2 DEF password_matches
      <3> HIDE DEF new
      <3> QED  BY <2>2, <3>2, <3>3 DEF password_matches, Goto, Answer
    <2>3. CASE decode(c)            BY <2>3 DEF decode, Goto, Answer
    <2>4. CASE lookup(c)            BY <2>4 DEF lookup, Goto, Answer
    <2>5. CASE endpoint(c)          BY <2>5 DEF endpoint, Goto, Answer
    <2>6. CASE RedisRaises(c)       BY <2>6 DEF RedisRaises, Goto, Answer
    <2> QED  BY <1>3, <2>1, <2>2, <2>3, <2>4, <2>5, <2>6 DEF Serve
  <1>4. ASSUME NEW u \in Users, NEW p \in Passwords, save_user_pass(u, p)
        PROVE  SessionsTypeOK'
    BY <1>4 DEF save_user_pass
  <1>5. ASSUME NEW u \in Users, RemoveUser(u)
        PROVE  SessionsTypeOK'
    BY <1>5 DEF RemoveUser
  <1>6. CASE Tick
    <2>1. since' \in [Users -> [Passwords -> 0..Long]]  BY <1>6, Older
    <2>2. \A c \in Clients : token'[c] \in Tokens \cup {None}
                             /\ (token[c] # None => token'[c] # None)
      <3> SUFFICES ASSUME NEW c \in Clients, token[c] # None, token[c].left # 0
                   PROVE  token'[c] \in Tokens /\ token'[c] # None
        BY <1>6 DEF Tick
      <3>1. token[c] \in Tokens  OBVIOUS
      <3>2. token'[c] = [user |-> token[c].user, password |-> token[c].password,
                         left |-> token[c].left - 1]
        BY <1>6, <3>1 DEF Tick, Tokens
      <3>3. token[c].left - 1 \in 0..TTL /\ token[c].user \in Users
            /\ token[c].password \in Passwords
        <4>1. token[c].left \in 0..TTL  BY <3>1 DEF Tokens
        <4>2. \A n \in 0..TTL : n # 0 => n - 1 \in 0..TTL  OBVIOUS
        <4> QED  BY <3>1, <4>1, <4>2 DEF Tokens
      <3> QED  BY <3>2, <3>3, SomethingIsNotNone
    <2>3. token' \in [Clients -> Tokens \cup {None}]  BY <1>6, <2>2 DEF Tick
    <2>4. waiting' \in [Clients -> BOOLEAN]  BY <1>6 DEF Tick
    <2> QED  BY <1>6, <2>1, <2>2, <2>3, <2>4 DEF Tick
  <1>7. CASE UNCHANGED svars
    BY <1>7 DEF svars
  <1> QED  BY <1>1, <1>2, <1>3, <1>4, <1>5, <1>6, <1>7 DEF SessionsNext

\* No step ages the password that is the user's now.
LEMMA CurrentStep ==
    ASSUME SessionsTypeOK, CurrentIsNew, [SessionsNext]_svars
    PROVE  CurrentIsNew'
  <1> USE SomethingIsNotNone DEF SessionsTypeOK
  <1>1. ASSUME NEW u \in Users, NEW p \in Passwords, save_user_pass(u, p)
        PROVE  CurrentIsNew'
    BY <1>1 DEF save_user_pass, CurrentIsNew
  <1>2. ASSUME NEW u \in Users, RemoveUser(u)
        PROVE  CurrentIsNew'
    BY <1>2 DEF RemoveUser, CurrentIsNew
  <1>3. CASE Tick
    BY <1>3, Older DEF Tick, CurrentIsNew
  <1>4. CASE UNCHANGED <<authentication, since>>
    BY <1>4 DEF CurrentIsNew
  <1>5. ASSUME NEW c \in Clients, NEW u \in Users, NEW p \in Passwords, login(c, u, p)
        PROVE  UNCHANGED <<authentication, since>>
    BY <1>5 DEF login
  <1>6. ASSUME NEW c \in Clients, use_token(c) \/ Serve(c)
        PROVE  UNCHANGED <<authentication, since>>
    BY <1>6 DEF use_token, Serve, user_exists, password_matches, decode, lookup,
                endpoint, RedisRaises
  <1> QED  BY <1>1, <1>2, <1>3, <1>4, <1>5, <1>6 DEF SessionsNext, svars

\* What a saved password does to the ages.
LEMMA Saved ==
    ASSUME SessionsTypeOK, NEW u \in Users, NEW p \in Passwords, save_user_pass(u, p)
    PROVE  \A v \in Users, q \in Passwords :
               since'[v][q] = since[v][q] \/ since'[v][q] = 0
BY DEF save_user_pass, SessionsTypeOK

\* The parts of a token, and the age of its password.
LEMMA TokenParts ==
    ASSUME SessionsTypeOK
    PROVE  \A c \in Clients : token[c] # None =>
               /\ token[c].user \in Users /\ token[c].password \in Passwords
               /\ token[c].left \in 0..TTL
               /\ since[token[c].user][token[c].password] \in Nat
  <1> SUFFICES ASSUME NEW c \in Clients, token[c] # None
               PROVE  /\ token[c].user \in Users /\ token[c].password \in Passwords
                      /\ token[c].left \in 0..TTL
                      /\ since[token[c].user][token[c].password] \in Nat
    OBVIOUS
  <1>1. token[c] \in Tokens  BY DEF SessionsTypeOK
  <1>2. token[c].user \in Users /\ token[c].password \in Passwords
        /\ token[c].left \in 0..TTL
    BY <1>1 DEF Tokens
  <1>3. \A u \in Users, p \in Passwords : since[u][p] \in 0..Long
    BY DEF SessionsTypeOK
  <1> QED  BY <1>2, <1>3, LongIsLong

\* A tick takes one off a token that has not expired, and leaves the rest of it.
LEMMA TokenTicks ==
    ASSUME SessionsTypeOK, Tick
    PROVE  \A c \in Clients : token[c] # None =>
               /\ token'[c].user = token[c].user
               /\ token'[c].password = token[c].password
               /\ token[c].left = 0 => token'[c].left = 0
               /\ token[c].left # 0 => token'[c].left = token[c].left - 1
  <1> SUFFICES ASSUME NEW c \in Clients, token[c] # None, token[c].left # 0
               PROVE  /\ token'[c].user = token[c].user
                      /\ token'[c].password = token[c].password
                      /\ token'[c].left = token[c].left - 1
    BY DEF Tick, SessionsTypeOK
  <1>1. token[c] \in Tokens  BY DEF SessionsTypeOK
  <1>2. token'[c] = [user |-> token[c].user, password |-> token[c].password,
                     left |-> token[c].left - 1]
    BY <1>1 DEF Tick, Tokens, SessionsTypeOK
  <1> QED  BY <1>2

\* A login that succeeds gets a token for the password that is the user's now.
LEMMA NewToken ==
    ASSUME SessionsTypeOK, CurrentIsNew, NEW c \in Clients, password_matches(c)
    PROVE  /\ since' = since
           /\ \A d \in Clients : d # c => token'[d] = token[d]
           /\ \/ token'[c] = token[c]
              \/ since[token'[c].user][token'[c].password] = 0 /\ token'[c].left = TTL
  <1> USE DEF SessionsTypeOK
  <1>1. CASE token' = token
    BY <1>1 DEF password_matches
  <1>2. CASE token' # token
    <2>1. attempt[c] \in Logins  BY DEF password_matches
    <2>2. attempt[c].user \in Users /\ attempt[c].password \in Passwords
      BY <2>1 DEF Logins
    <2>3. /\ authentication[attempt[c].user] = attempt[c].password
          /\ token' = [token EXCEPT ![c] = [user |-> attempt[c].user,
                            password |-> attempt[c].password, left |-> TTL]]
      BY <1>2 DEF password_matches
    <2>4. since[attempt[c].user][attempt[c].password] = 0
      BY <2>2, <2>3, SomethingIsNotNone DEF CurrentIsNew
    <2> QED  BY <2>3, <2>4 DEF password_matches
  <1> QED  BY <1>1, <1>2

\* A token ages with the credential it was issued for.
LEMMA TokenStep ==
    ASSUME SessionsTypeOK, CurrentIsNew, TokenIsYoung, [SessionsNext]_svars
    PROVE  TokenIsYoung'
  <1> USE LongIsLong
  <1>1. CASE UNCHANGED <<since, token>>
    BY <1>1 DEF TokenIsYoung
  <1>2. ASSUME NEW c \in Clients, password_matches(c)
        PROVE  TokenIsYoung'
    <2> SUFFICES ASSUME NEW d \in Clients, token'[d] # None, token'[d].left > 0
                 PROVE  since'[token'[d].user][token'[d].password] + token'[d].left <= TTL
      BY DEF TokenIsYoung
    <2>1. CASE token'[d] = token[d]
      BY <1>2, <2>1, NewToken DEF TokenIsYoung
    <2>2. CASE token'[d] # token[d]
      <3>1. d = c  BY <1>2, <2>2, NewToken
      <3>2. since'[token'[d].user][token'[d].password] = 0 /\ token'[d].left = TTL
        BY <1>2, <2>2, <3>1, NewToken
      <3> QED  BY <3>2
    <2> QED  BY <2>1, <2>2
  <1>3. ASSUME NEW u \in Users, NEW p \in Passwords, save_user_pass(u, p)
        PROVE  TokenIsYoung'
    <2>1. token' = token  BY <1>3 DEF save_user_pass
    <2> SUFFICES ASSUME NEW c \in Clients, token[c] # None, token[c].left > 0
                 PROVE  since'[token[c].user][token[c].password] + token[c].left <= TTL
      BY <2>1 DEF TokenIsYoung
    <2>2. since[token[c].user][token[c].password] + token[c].left <= TTL
      BY DEF TokenIsYoung
    <2>3. \/ since'[token[c].user][token[c].password]
              = since[token[c].user][token[c].password]
          \/ since'[token[c].user][token[c].password] = 0
      BY <1>3, Saved, TokenParts
    <2>4. token[c].left \in 0..TTL  BY TokenParts
    <2> QED  BY <2>2, <2>3, <2>4
  <1>4. CASE Tick
    <2> SUFFICES ASSUME NEW c \in Clients, token'[c] # None, token'[c].left > 0
                 PROVE  since'[token'[c].user][token'[c].password] + token'[c].left <= TTL
      BY DEF TokenIsYoung
    <2>1. token[c] # None  BY <1>4 DEF Tick, SessionsTypeOK
    <2> DEFINE u == token[c].user
               p == token[c].password
    <2>2. /\ token'[c].user = u /\ token'[c].password = p
          /\ token[c].left = 0 => token'[c].left = 0
          /\ token[c].left # 0 => token'[c].left = token[c].left - 1
      BY <1>4, <2>1, TokenTicks
    <2>3. u \in Users /\ p \in Passwords /\ token[c].left \in 0..TTL
          /\ since[u][p] \in Nat
      BY <2>1, TokenParts
    <2>4. since'[u][p] \in 0..Long /\ since'[u][p] <= since[u][p] + 1
      BY <1>4, <2>3, Older
    <2>5. token[c].left > 0 /\ token'[c].left = token[c].left - 1
      BY <2>2, <2>3
    <2>6. since[u][p] + token[c].left <= TTL  BY <2>1, <2>5 DEF TokenIsYoung
    <2> HIDE DEF u, p
    <2>7. since'[u][p] + (token[c].left - 1) <= TTL
      BY <2>3, <2>4, <2>6
    <2> QED  BY <2>2, <2>5, <2>7
  <1>5. ASSUME NEW c \in Clients, NEW u \in Users, NEW p \in Passwords, login(c, u, p)
        PROVE  UNCHANGED <<since, token>>
    BY <1>5 DEF login
  <1>6. ASSUME NEW c \in Clients, use_token(c) \/ user_exists(c) \/ decode(c)
                                  \/ lookup(c) \/ endpoint(c) \/ RedisRaises(c)
        PROVE  UNCHANGED <<since, token>>
    BY <1>6 DEF use_token, user_exists, decode, lookup, endpoint, RedisRaises
  <1>7. ASSUME NEW u \in Users, RemoveUser(u)
        PROVE  UNCHANGED <<since, token>>
    BY <1>7 DEF RemoveUser
  <1> QED
    BY <1>1, <1>2, <1>3, <1>4, <1>5, <1>6, <1>7 DEF SessionsNext, Serve, svars

\* A step of one client changes nothing of the others'.
LEMMA OthersStay ==
    ASSUME SessionsTypeOK, NEW c \in Clients,
           \/ use_token(c) \/ Serve(c)
           \/ \E u \in Users, p \in Passwords : login(c, u, p)
    PROVE  /\ since' = since
           /\ \A d \in Clients : d # c => /\ request'[d] = request[d]
                                         /\ token'[d] = token[d]
                                         /\ waiting'[d] = waiting[d]
  <1> USE DEF SessionsTypeOK, Goto, Answer
  <1>1. CASE use_token(c)         BY <1>1 DEF use_token
  <1>2. CASE user_exists(c)       BY <1>2 DEF user_exists
  <1>3. CASE password_matches(c)  BY <1>3 DEF password_matches
  <1>4. CASE decode(c)            BY <1>4 DEF decode
  <1>5. CASE lookup(c)            BY <1>5 DEF lookup
  <1>6. CASE endpoint(c)          BY <1>6 DEF endpoint
  <1>7. CASE RedisRaises(c)       BY <1>7 DEF RedisRaises
  <1>8. CASE \E u \in Users, p \in Passwords : login(c, u, p)
    BY <1>8 DEF login
  <1> QED  BY <1>1, <1>2, <1>3, <1>4, <1>5, <1>6, <1>7, <1>8 DEF Serve

\* Only decode and lookup lead on, and neither touches the token.
LEMMA LeadsOn ==
    ASSUME SessionsTypeOK, NEW c \in Clients, request'[c] \in {"lookup", "admitted"},
           \/ use_token(c) \/ Serve(c)
           \/ \E u \in Users, p \in Passwords : login(c, u, p)
    PROVE  /\ token' = token /\ waiting' = waiting
           /\ \/ request'[c] = "lookup" /\ request[c] = "decode" /\ token[c].left > 0
              \/ /\ request'[c] = "admitted" /\ request[c] = "lookup"
                 /\ authentication[token[c].user] # None
  <1> USE DEF SessionsTypeOK, Goto, Answer
  <1>1. CASE use_token(c)         BY <1>1 DEF use_token
  <1>2. CASE user_exists(c)       BY <1>2 DEF user_exists
  <1>3. CASE password_matches(c)  BY <1>3 DEF password_matches
  <1>4. CASE decode(c)            BY <1>4 DEF decode
  <1>5. CASE lookup(c)            BY <1>5 DEF lookup
  <1>6. CASE endpoint(c)          BY <1>6 DEF endpoint
  <1>7. CASE RedisRaises(c)       BY <1>7 DEF RedisRaises
  <1>8. CASE \E u \in Users, p \in Passwords : login(c, u, p)
    BY <1>8 DEF login
  <1> QED  BY <1>1, <1>2, <1>3, <1>4, <1>5, <1>6, <1>7, <1>8 DEF Serve

\* A request under way stays as young as the token it carries.
LEMMA RequestStep ==
    ASSUME SInv, [SessionsNext]_svars
    PROVE  RequestIsYoung' /\ UserWasThere'
  <1> USE LongIsLong DEF SInv
  <1>1. ASSUME NEW c \in Clients,
               \/ use_token(c) \/ Serve(c)
               \/ \E u \in Users, p \in Passwords : login(c, u, p)
        PROVE  RequestIsYoung' /\ UserWasThere'
    <2>1. since' = since  BY <1>1, OthersStay
    <2>2. ASSUME NEW d \in Clients, request'[d] \in {"lookup", "admitted"}
          PROVE  /\ since[token'[d].user][token'[d].password] <= TTL
                 /\ ~waiting'[d] => since[token'[d].user][token'[d].password] < TTL
      <3>1. CASE d # c
        BY <1>1, <2>2, <3>1, OthersStay DEF RequestIsYoung
      <3>2. CASE d = c /\ request'[c] = "admitted"
        BY <1>1, <2>2, <3>2, LeadsOn DEF RequestIsYoung
      <3>3. CASE d = c /\ request'[c] = "lookup"
        <4>1. token' = token /\ waiting' = waiting /\ request[c] = "decode"
              /\ token[c].left > 0
          BY <1>1, <2>2, <3>3, LeadsOn
        <4>2. token[c] # None  BY <4>1 DEF SessionsTypeOK
        <4>3. since[token[c].user][token[c].password] + token[c].left <= TTL
          BY <4>1, <4>2 DEF TokenIsYoung
        <4>4. /\ token[c].left \in 0..TTL
              /\ since[token[c].user][token[c].password] \in Nat
          BY <4>2, TokenParts
        <4>5. since[token[c].user][token[c].password] < TTL  BY <4>1, <4>3, <4>4
        <4> QED  BY <3>3, <4>1, <4>4, <4>5
      <3> QED  BY <2>2, <3>1, <3>2, <3>3
    <2>3. ASSUME NEW d \in Clients, request'[d] = "admitted"
          PROVE  \E p \in Passwords :
                     /\ since[token'[d].user][p] <= 1
                     /\ ~waiting'[d] => since[token'[d].user][p] = 0
      <3>1. CASE d # c
        BY <1>1, <2>3, <3>1, OthersStay DEF UserWasThere
      <3>2. CASE d = c
        <4>1. token' = token /\ request[c] = "lookup"
              /\ authentication[token[c].user] # None
          BY <1>1, <2>3, <3>2, LeadsOn
        <4>2. token[c] # None  BY <4>1 DEF SessionsTypeOK
        <4>3. token[c].user \in Users  BY <4>2, TokenParts
        <4>4. authentication[token[c].user] \in Passwords
          BY <4>1, <4>3 DEF SessionsTypeOK
        <4>5. since[token[c].user][authentication[token[c].user]] = 0
          BY <4>1, <4>3 DEF CurrentIsNew
        <4> QED  BY <3>2, <4>1, <4>4, <4>5
      <3> QED  BY <3>1, <3>2
    <2> QED  BY <2>1, <2>2, <2>3 DEF RequestIsYoung, UserWasThere
  <1>2. ASSUME NEW u \in Users, NEW q \in Passwords, save_user_pass(u, q)
        PROVE  RequestIsYoung' /\ UserWasThere'
    <2>1. token' = token /\ request' = request /\ waiting' = waiting
      BY <1>2 DEF save_user_pass
    <2>2. \A c \in Clients : request[c] \in {"lookup", "admitted"} =>
              token[c].user \in Users /\ token[c].password \in Passwords
      BY TokenParts DEF SessionsTypeOK
    <2>3. \A v \in Users, p \in Passwords :
              since'[v][p] = since[v][p] \/ since'[v][p] = 0
      BY <1>2, Saved
    <2>4. RequestIsYoung'
      BY <2>1, <2>2, <2>3 DEF RequestIsYoung
    <2>5. UserWasThere'
      <3> SUFFICES ASSUME NEW c \in Clients, request[c] = "admitted"
                   PROVE  \E p \in Passwords :
                              /\ since'[token[c].user][p] <= 1
                              /\ ~waiting[c] => since'[token[c].user][p] = 0
        BY <2>1 DEF UserWasThere
      <3>1. PICK p \in Passwords : /\ since[token[c].user][p] <= 1
                                   /\ ~waiting[c] => since[token[c].user][p] = 0
        BY DEF UserWasThere
      <3>2. since'[token[c].user][p] = since[token[c].user][p]
            \/ since'[token[c].user][p] = 0
        BY <2>2, <2>3
      <3> QED  BY <3>1, <3>2
    <2> QED  BY <2>4, <2>5
  <1>3. ASSUME NEW u \in Users, RemoveUser(u)
        PROVE  RequestIsYoung' /\ UserWasThere'
    BY <1>3 DEF RemoveUser, RequestIsYoung, UserWasThere
  <1>4. CASE Tick
    <2>1. request' = request /\ \A c \in Clients : ~waiting[c]
      BY <1>4 DEF Tick
    <2>2. ASSUME NEW c \in Clients, request[c] \in {"lookup", "admitted"}
          PROVE  /\ token[c].user \in Users /\ token[c].password \in Passwords
                 /\ token'[c].user = token[c].user
                 /\ token'[c].password = token[c].password
                 /\ waiting'[c]
      <3>1. token[c] # None  BY <2>2 DEF SessionsTypeOK
      <3>2. waiting'[c]  BY <1>4, <2>2 DEF Tick
      <3> QED  BY <1>4, <3>1, <3>2, TokenParts, TokenTicks
    <2>3. \A v \in Users, p \in Passwords :
              /\ since[v][p] \in Nat /\ since'[v][p] \in Nat
              /\ since'[v][p] <= since[v][p] + 1
      BY <1>4, Older DEF SessionsTypeOK
    <2>4. RequestIsYoung'
      <3> SUFFICES ASSUME NEW c \in Clients, request[c] \in {"lookup", "admitted"}
                   PROVE  since'[token[c].user][token[c].password] <= TTL
        BY <2>1, <2>2 DEF RequestIsYoung
      <3>1. since[token[c].user][token[c].password] < TTL
        BY <2>1 DEF RequestIsYoung
      <3> QED  BY <2>2, <2>3, <3>1
    <2>5. UserWasThere'
      <3> SUFFICES ASSUME NEW c \in Clients, request[c] = "admitted"
                   PROVE  \E p \in Passwords : since'[token[c].user][p] <= 1
        BY <2>1, <2>2 DEF UserWasThere
      <3>1. PICK p \in Passwords : since[token[c].user][p] = 0
        BY <2>1 DEF UserWasThere
      <3>2. since'[token[c].user][p] <= 1  BY <2>2, <2>3, <3>1
      <3> QED  BY <3>2
    <2> QED  BY <2>4, <2>5
  <1>5. CASE UNCHANGED svars
    BY <1>5 DEF svars, RequestIsYoung, UserWasThere
  <1> QED  BY <1>1, <1>2, <1>3, <1>4, <1>5 DEF SessionsNext

\* The invariant holds at the start, where there are no tokens ...
LEMMA SInvInit == SessionsInit => SInv
  <1> SUFFICES ASSUME SessionsInit PROVE SInv
    OBVIOUS
  <1> USE LongIsLong, SomethingIsNotNone
  <1>1. \A u \in Users, p \in Passwords :
            since[u][p] = IF authentication[u] = p THEN 0 ELSE Long
    BY DEF SessionsInit
  <1>2. since \in [Users -> [Passwords -> 0..Long]]
    BY DEF SessionsInit
  <1>3. SessionsTypeOK  BY <1>2 DEF SessionsInit, SessionsTypeOK
  <1>4. CurrentIsNew  BY <1>1 DEF SessionsInit, CurrentIsNew
  <1>5. TokenIsYoung  BY DEF SessionsInit, TokenIsYoung
  <1>6. RequestIsYoung  BY DEF SessionsInit, RequestIsYoung
  <1>7. UserWasThere  BY DEF SessionsInit, UserWasThere
  <1> QED  BY <1>3, <1>4, <1>5, <1>6, <1>7 DEF SInv

\* ... and every step preserves it.
LEMMA SInvStep == SInv /\ [SessionsNext]_svars => SInv'
BY TypesStep, CurrentStep, TokenStep, RequestStep DEF SInv

\* Every state has the types, and every request has with it what its place
\* needs (main_api.py: login, get_current_user).
THEOREM SessionsTypesHold == SessionsSpec => []SessionsTypeOK
  <1>1. SInv => SessionsTypeOK  BY DEF SInv
  <1> QED  BY <1>1, SInvInit, SInvStep, PTL DEF SessionsSpec

\* An admission is earned by a password that was the user's at most TTL ticks
\* before (get_current_user over tokens of create_access_token).
THEOREM AdmissionsAreEarned == SessionsSpec => []AdmissionIsEarned
  <1>1. SInv => AdmissionIsEarned  BY DEF SInv, RequestIsYoung, AdmissionIsEarned
  <1> QED  BY <1>1, SInvInit, SInvStep, PTL DEF SessionsSpec

\* A user that is removed is out within one request (the second look at the
\* hash, in get_current_user).
THEOREM RemovedUsersAreOut == SessionsSpec => []RemovedUserIsOut
  <1>1. SInv => RemovedUserIsOut  BY DEF SInv, UserWasThere, RemovedUserIsOut
  <1> QED  BY <1>1, SInvInit, SInvStep, PTL DEF SessionsSpec

-----------------------------------------------------------------------------
Answers == [task : Tasks \cup {Null}, status : {"", "PENDING", "SUCCESS"},
            result : Results \cup {Null}]

\* What a client reads or was told is an answer, and it reads of some task.
AnswersOK ==
    /\ poll \in [Pollers -> Answers]
    /\ answer \in [Pollers -> Answers]
    /\ \A c \in Pollers : poll[c] # Nothing => poll[c].task \in Tasks

\* A final state was read with its result.
PollIsWhole ==
    \A c \in Pollers : poll[c].status = "SUCCESS" => poll[c].result # Null

QInv == TasksTypeOK /\ AnswersOK /\ PollIsWhole /\ FinalAnswerIsWhole

LEMMA NullFacts == Null \notin Tasks /\ Null \notin Hosts
  BY HostTasksAssumption

\* Nothing was sent at first.
LEMMA QInit == TasksInit => QInv
  <1> USE NullFacts
  <1>1. TasksInit => TasksTypeOK
    BY DEF TasksInit, TasksTypeOK, Places, Messages, order
  <1>2. TasksInit => AnswersOK /\ PollIsWhole /\ FinalAnswerIsWhole
    <2>1. Nothing \in Answers /\ Nothing.status # "SUCCESS"  BY DEF Nothing, Answers
    <2> QED  BY <2>1 DEF TasksInit, AnswersOK, PollIsWhole, FinalAnswerIsWhole
  <1> QED  BY <1>1, <1>2 DEF QInv

\* Every step keeps the types.
LEMMA TypeStep ==
    ASSUME TasksTypeOK, [TasksNext]_tvars
    PROVE  TasksTypeOK'
  <1> USE NullFacts DEF TasksTypeOK
  <1>0. \A t \in Tasks, k \in {1, 2} : <<t, k>> \in Messages /\ <<t, k>>[1] = t
    BY DEF Messages
  <1>1. ASSUME NEW h \in Hosts, WorkerStarts(h) PROVE TasksTypeOK'
    BY <1>1 DEF WorkerStarts, polling, discovery
  <1>2. ASSUME NEW h \in Hosts, WorkerDies(h) PROVE TasksTypeOK'
    <2>1. /\ place' \in [Messages -> Places]
          /\ \A m \in Messages : place'[m] # "none" => place[m] # "none"
      BY <1>2 DEF WorkerDies, At, Places
    <2> QED  BY <1>2, <2>1 DEF WorkerDies, polling, discovery
  <1>3. ASSUME NEW t \in Tasks, Redeliver(t) PROVE TasksTypeOK'
    BY <1>0, <1>3 DEF Redeliver, Move, polling, discovery, Places
  <1>4. ASSUME NEW t \in Tasks, NEW h \in Hosts, apply_async(t, h) PROVE TasksTypeOK'
    <2>1. host' \in [Tasks -> Hosts \cup {Null}] /\ place' \in [Messages -> Places]
      BY <1>0, <1>4 DEF apply_async, Places
    <2>2. \A m \in Messages : place'[m] # "none" => host'[m[1]] # Null
      BY <1>0, <1>4 DEF apply_async, Messages
    <2> QED  BY <1>4, <2>1, <2>2 DEF apply_async, polling, discovery
  <1>5. ASSUME NEW m \in Messages, Work(m) PROVE TasksTypeOK'
    <2>1. place' \in [Messages -> Places] /\ host' = host /\ UNCHANGED <<up, seen, inspect>>
      BY <1>5 DEF Work, Reserve, Start, Finish, Move, Places, polling, discovery
    <2>2. \A n \in Messages : place'[n] # "none" => place[n] # "none"
      BY <1>5 DEF Work, Reserve, Start, Finish, Move
    <2>3. meta' \in [Tasks -> Results \cup {Null}]
      BY <1>5 DEF Work, Reserve, Start, Finish, Messages, Results, polling, discovery
    <2> QED  BY <2>1, <2>2, <2>3
  <1>6. ASSUME NEW t \in Tasks, Expire(t) PROVE TasksTypeOK'
    BY <1>6 DEF Expire, queues, polling, discovery
  <1>7. CASE StatusNext /\ UNCHANGED meta
    BY <1>7 DEF StatusNext, ready, get_status, Expire, queues, discovery
  <1>8. CASE DiscoveryNext
    <2>1. inspect' \in 0..(Len(order) + 1)
      BY <1>8 DEF DiscoveryNext, discover_workers, inspect_call, join, order
    <2> QED
      BY <1>8, <2>1 DEF DiscoveryNext, discover_workers, inspect_call, join, queues, polling
  <1>9. CASE UNCHANGED tvars
    BY <1>9 DEF tvars, queues, discovery
  <1>10. StatusNext => UNCHANGED meta \/ \E t \in Tasks : Expire(t)
    BY DEF StatusNext, ready, get_status
  <1> QED
    BY <1>1, <1>2, <1>3, <1>4, <1>5, <1>6, <1>7, <1>8, <1>9, <1>10 DEF TasksNext, HostNext

\* Every step keeps what clients read whole.
LEMMA PollStep ==
    ASSUME QInv, [TasksNext]_tvars
    PROVE  AnswersOK' /\ PollIsWhole' /\ FinalAnswerIsWhole'
  <1> USE DEF QInv, TasksTypeOK
  <1>1. ASSUME NEW c \in Pollers, NEW t \in Tasks, get_status(c, t)
        PROVE  AnswersOK' /\ PollIsWhole' /\ FinalAnswerIsWhole'
    BY <1>1 DEF get_status, AnswersOK, PollIsWhole, FinalAnswerIsWhole, Answers
  <1>2. ASSUME NEW c \in Pollers, ready(c)
        PROVE  AnswersOK' /\ PollIsWhole' /\ FinalAnswerIsWhole'
    <2>1. poll[c] \in Answers /\ Nothing \in Answers /\ Nothing.status = ""
      BY DEF AnswersOK, Answers, Nothing
    <2>2. /\ poll' = [poll EXCEPT ![c] = Nothing]
          /\ answer' = [answer EXCEPT ![c] = answer'[c]]
          /\ answer'[c] = IF poll[c].status = "SUCCESS" THEN poll[c]
                          ELSE [poll[c] EXCEPT !.result = meta[poll[c].task]]
      BY <1>2 DEF ready, AnswersOK
    <2>3. poll[c].task \in Tasks
      BY <1>2 DEF ready, AnswersOK
    <2>4. answer'[c] \in Answers
      <3>1. meta[poll[c].task] \in Results \cup {Null}  BY <2>3
      <3>2. [poll[c] EXCEPT !.result = meta[poll[c].task]] \in Answers
        BY <2>1, <3>1 DEF Answers
      <3> QED  BY <2>1, <2>2, <3>2
    <2>5. answer'[c].status = "SUCCESS" => answer'[c].result # Null
      BY <2>1, <2>2 DEF PollIsWhole, Answers
    <2> QED
      BY <2>1, <2>2, <2>4, <2>5 DEF AnswersOK, PollIsWhole, FinalAnswerIsWhole
  <1>3. CASE UNCHANGED polling
    BY <1>3 DEF polling, AnswersOK, PollIsWhole, FinalAnswerIsWhole
  <1> QED
    BY <1>1, <1>2, <1>3
       DEF TasksNext, HostNext, StatusNext, DiscoveryNext, WorkerStarts, WorkerDies, Redeliver,
           apply_async, Work, Reserve, Start, Finish, Expire, discover_workers, inspect_call,
           join, tvars

\* Every state of the host tasks has the types, with dying workers and second
\* deliveries (TasksTypeOK).
THEOREM HostTasksTypesHold == TasksSpec => []TasksTypeOK
  <1>1. QInv /\ [TasksNext]_tvars => QInv'
    BY TypeStep, PollStep DEF QInv
  <1>2. QInv => TasksTypeOK  BY DEF QInv
  <1> QED  BY QInit, <1>1, <1>2, PTL DEF TasksSpec

\* A client that is told its task has ended is told the result as well, with
\* any number of clients, expiring results and second deliveries
\* (FinalAnswerIsWhole).
THEOREM FinalAnswersAreWhole == TasksSpec => []FinalAnswerIsWhole
  <1>1. QInv /\ [TasksNext]_tvars => QInv'
    BY TypeStep, PollStep DEF QInv
  <1>2. QInv => FinalAnswerIsWhole  BY DEF QInv
  <1> QED  BY QInit, <1>1, <1>2, PTL DEF TasksSpec

-----------------------------------------------------------------------------
\* Nothing was delivered twice.
Once == \A t \in Tasks : place[<<t, 2>>] = "none"

Given(h) == {t \in Tasks : host[t] = h}
First(h) == {m \in Messages : m[2] = 1 /\ host[m[1]] = h}

\* The tasks of a host that no longer wait.
Past(h) == {m \in First(h) : place[m] \in {"active", "finished", "lost"}}

Calls == {order[k] : k \in DOMAIN order}

\* The replies come from workers that ran.
SeenInv ==
    /\ up \subseteq seen
    /\ DOMAIN replies = Calls
    /\ replies["stats"] \cup replies["ping"] \cup replies["queues"] \subseteq seen
    /\ \A h \in Hosts : workers[h] # Null => h \in seen
    /\ DOMAIN workers = Hosts

\* Numbers, and where they come from at each moment of a discovery: none
\* before the call for the active tasks; those are past waiting at the call
\* for the reserved ones, which still wait.
Replied(h) ==
    LET a == replies["active"][h]
        r == replies["reserved"][h]
    IN  /\ a \in Nat /\ r \in Nat
        /\ inspect \in 0..3 => r = 0
        /\ inspect \in 0..2 => a = 0
        /\ Once =>
             /\ inspect = 3 => a <= Cardinality(Past(h))
             /\ inspect \in 4..6 => a + r <= Cardinality(Given(h))

Reported(h) ==
    workers[h] # Null =>
        /\ workers[h].active \in Nat /\ workers[h].reserved \in Nat
        /\ Once => workers[h].active + workers[h].reserved <= Cardinality(Given(h))

RInv == TasksTypeOK /\ SeenInv /\ \A h \in Hosts : Replied(h) /\ Reported(h)

LEMMA Order ==
    /\ Len(order) = 5 /\ DOMAIN order = 1..5
    /\ order[1] = "stats" /\ order[2] = "active" /\ order[3] = "reserved"
    /\ order[4] = "queues" /\ order[5] = "ping"
    /\ Calls = {"stats", "active", "reserved", "queues", "ping"}
  BY DEF order, Calls

\* The sets of messages are finite, and a host has a first message per task.
LEMMA FiniteMessages ==
    ASSUME NEW h
    PROVE  /\ IsFiniteSet(Messages) /\ IsFiniteSet(Given(h)) /\ IsFiniteSet(First(h))
           /\ IsFiniteSet(Past(h))
           /\ Cardinality(Given(h)) \in Nat /\ Cardinality(First(h)) \in Nat
           /\ Cardinality(Past(h)) \in Nat
           /\ Cardinality(First(h)) <= Cardinality(Given(h))
           /\ \A p : IsFiniteSet(At(h, p)) /\ Cardinality(At(h, p)) \in Nat
  <1>1. IsFiniteSet(Tasks)  BY HostTasksAssumption
  <1>2. IsFiniteSet({1, 2})
    <2>1. {1, 2} = {1} \cup {2}  OBVIOUS
    <2>2. IsFiniteSet({1})  BY FS_Singleton
    <2>3. IsFiniteSet({1} \cup {2})  BY <2>2, FS_AddElement
    <2> QED  BY <2>1, <2>3
  <1>3. IsFiniteSet(Messages)  BY <1>1, <1>2, FS_Product DEF Messages
  <1>4. IsFiniteSet(Given(h))  BY <1>1, FS_Subset DEF Given
  <1>5. IsFiniteSet(First(h))  BY <1>3, FS_Subset DEF First
  <1>6. IsFiniteSet(Past(h))  BY <1>5, FS_Subset DEF Past
  <1>7. \A p : IsFiniteSet(At(h, p))  BY <1>3, FS_Subset DEF At
  <1>8. Cardinality(First(h)) <= Cardinality(Given(h))
    <2> DEFINE f == [m \in First(h) |-> m[1]]
    <2>1. f \in [First(h) -> Given(h)]  BY DEF First, Given, Messages
    <2>2. \A m, n \in First(h) : f[m] = f[n] => m = n  BY DEF First, Messages
    <2>3. f \in Injection(First(h), Given(h))  BY <2>1, <2>2 DEF Injection, IsInjective
    <2> QED  BY <1>4, <2>3, FS_Injection
  <1> QED  BY <1>3, <1>4, <1>5, <1>6, <1>7, <1>8, FS_CardinalityType

\* What never changes back: a message that left the queue of a host for the
\* pool stays past waiting, the tasks of a host remain its tasks, and a second
\* delivery is not undone.
LEMMA Monotone ==
    ASSUME TasksTypeOK, [TasksNext]_tvars, NEW h \in Hosts
    PROVE  /\ Once' => Once
           /\ Given(h) \subseteq Given(h)'
           /\ Past(h) \subseteq Past(h)'
  <1> USE NullFacts DEF TasksTypeOK
  <1>0. \A t \in Tasks, k \in {1, 2} : <<t, k>> \in Messages /\ <<t, k>>[1] = t
    BY DEF Messages
  <1>1. \A m \in Messages : place'[m] = "none" => place[m] = "none"
    <2>1. ASSUME NEW g \in Hosts, WorkerDies(g)
          PROVE  \A m \in Messages : place'[m] = "none" => place[m] = "none"
      BY <2>1 DEF WorkerDies
    <2>2. ASSUME NEW m \in Messages, Work(m)
          PROVE  \A n \in Messages : place'[n] = "none" => place[n] = "none"
      BY <2>2 DEF Work, Reserve, Start, Finish, Move
    <2>3. ASSUME NEW t \in Tasks, Redeliver(t)
          PROVE  \A n \in Messages : place'[n] = "none" => place[n] = "none"
      BY <1>0, <2>3 DEF Redeliver, Move
    <2>4. ASSUME NEW t \in Tasks, NEW g \in Hosts, apply_async(t, g)
          PROVE  \A n \in Messages : place'[n] = "none" => place[n] = "none"
      BY <1>0, <2>4 DEF apply_async
    <2> QED
      BY <2>1, <2>2, <2>3, <2>4
         DEF TasksNext, HostNext, StatusNext, DiscoveryNext, WorkerStarts, Expire, ready,
             get_status, discover_workers, inspect_call, join, tvars, queues
  <1>2. \A t \in Tasks : host[t] # Null => host'[t] = host[t]
    BY DEF TasksNext, HostNext, StatusNext, DiscoveryNext, WorkerStarts, WorkerDies,
           Redeliver, apply_async, Work, Reserve, Start, Finish, Expire, ready,
           get_status, discover_workers, inspect_call, join, tvars, queues
  <1> DEFINE P == {"active", "finished", "lost"}
  <1>3. \A m \in Messages : place[m] \in P => place'[m] \in P
    <2>1. ASSUME NEW g \in Hosts, WorkerDies(g)
          PROVE  \A m \in Messages : place[m] \in P => place'[m] \in P
      BY <2>1 DEF WorkerDies, At
    <2>2. ASSUME NEW m \in Messages, Work(m)
          PROVE  \A n \in Messages : place[n] \in P => place'[n] \in P
      BY <2>2 DEF Work, Reserve, Start, Finish, Move
    <2>3. ASSUME NEW t \in Tasks, Redeliver(t)
          PROVE  \A n \in Messages : place[n] \in P => place'[n] \in P
      BY <1>0, <2>3 DEF Redeliver, Move
    <2>4. ASSUME NEW t \in Tasks, NEW g \in Hosts, apply_async(t, g)
          PROVE  \A n \in Messages : place[n] \in P => place'[n] \in P
      <3>1. place[<<t, 1>>] = "none"  BY <1>0, <2>4 DEF apply_async
      <3> QED  BY <1>0, <2>4, <3>1 DEF apply_async
    <2> QED
      BY <2>1, <2>2, <2>3, <2>4
         DEF TasksNext, HostNext, StatusNext, DiscoveryNext, WorkerStarts, Expire, ready,
             get_status, discover_workers, inspect_call, join, tvars, queues
  <1>4. \A m \in Messages : m[1] \in Tasks  BY DEF Messages
  <1>5. Once' => Once  BY <1>0, <1>1 DEF Once
  <1>6. Given(h) \subseteq Given(h)'  BY <1>2 DEF Given
  <1>7. Past(h) \subseteq Past(h)'  BY <1>2, <1>3, <1>4 DEF Past, First
  <1> QED  BY <1>5, <1>6, <1>7

\* The same in numbers.
LEMMA Growing ==
    ASSUME TasksTypeOK, [TasksNext]_tvars, NEW h \in Hosts
    PROVE  /\ Cardinality(Given(h)) <= Cardinality(Given(h)')
           /\ Cardinality(Past(h)) <= Cardinality(Past(h)')
           /\ Cardinality(Given(h)') \in Nat /\ Cardinality(Past(h)') \in Nat
  <1>1. IsFiniteSet(Given(h)')
    <2>1. IsFiniteSet(Tasks)  BY HostTasksAssumption
    <2> QED  BY <2>1, FS_Subset DEF Given
  <1>2. IsFiniteSet(Past(h)')
    <2>1. IsFiniteSet(Messages)  BY FiniteMessages
    <2>2. Past(h)' \subseteq Messages  BY DEF Past, First
    <2> QED  BY <2>1, <2>2, FS_Subset
  <1>3. Given(h) \subseteq Given(h)' /\ Past(h) \subseteq Past(h)'  BY Monotone
  <1> QED  BY <1>1, <1>2, <1>3, FS_Subset, FS_CardinalityType

\* Without second deliveries the active messages of a host are past waiting,
\* and the reserved ones are not.
LEMMA Waiting ==
    ASSUME TasksTypeOK, Once, NEW h \in Hosts
    PROVE  /\ Cardinality(At(h, "active")) <= Cardinality(Past(h))
           /\ Cardinality(Past(h)) + Cardinality(At(h, "reserved")) <= Cardinality(Given(h))
  <1>1. \A m \in Messages : m[2] = 2 => place[m] = "none"
    BY DEF Once, Messages
  <1>2. \A p : p # "none" => At(h, p) \subseteq First(h)
    BY <1>1 DEF At, First, Messages
  <1>3. At(h, "active") \subseteq Past(h)  BY <1>2 DEF Past, At
  <1>4. At(h, "reserved") \cap Past(h) = {}  BY DEF Past, At
  <1>5. At(h, "reserved") \cup Past(h) \subseteq First(h)  BY <1>2 DEF Past
  <1> DEFINE r == Cardinality(At(h, "reserved"))  p == Cardinality(Past(h))
             f == Cardinality(First(h))  g == Cardinality(Given(h))
             b == Cardinality(At(h, "reserved") \cup Past(h))
  <1>6. b = r + p
    <2>1. Cardinality(At(h, "reserved") \cap Past(h)) = 0  BY <1>4, FS_EmptySet
    <2>2. b = r + p - Cardinality(At(h, "reserved") \cap Past(h))
      BY FiniteMessages, FS_Union
    <2>3. r \in Nat /\ p \in Nat  BY FiniteMessages
    <2> HIDE DEF b, r, p
    <2> QED  BY <2>1, <2>2, <2>3
  <1>7. b <= f  BY <1>5, FiniteMessages, FS_Subset
  <1>8. f <= g /\ r \in Nat /\ p \in Nat /\ f \in Nat /\ g \in Nat  BY FiniteMessages
  <1>9. p + r <= g
    <2> HIDE DEF b, r, p, f, g
    <2> QED  BY <1>6, <1>7, <1>8
  <1> QED  BY <1>3, <1>9, FiniteMessages, FS_Subset

\* No worker has replied at first.
LEMMA RInit == TasksInit => RInv
  <1> SUFFICES ASSUME TasksInit PROVE RInv
    OBVIOUS
  <1>1. replies = NoReplies /\ inspect = 0 /\ workers = [h \in Hosts |-> Null] /\ up = {}
    BY DEF TasksInit
  <1>2. /\ DOMAIN NoReplies = Calls
        /\ NoReplies["stats"] = {} /\ NoReplies["ping"] = {} /\ NoReplies["queues"] = {}
        /\ \A h \in Hosts : NoReplies["active"][h] = 0 /\ NoReplies["reserved"][h] = 0
    BY Order DEF NoReplies, Counts, Calls
  <1>3. TasksTypeOK  BY QInit DEF QInv
  <1>4. SeenInv  BY <1>1, <1>2 DEF SeenInv
  <1>5. \A h \in Hosts : Replied(h) /\ Reported(h)
    BY <1>1, <1>2 DEF Replied, Reported
  <1> QED  BY <1>3, <1>4, <1>5 DEF RInv

\* What was reported or replied stays true while tasks are sent and move on.
LEMMA Kept ==
    ASSUME RInv, [TasksNext]_tvars, NEW h \in Hosts
    PROVE  /\ workers' = workers => Reported(h)'
           /\ replies' = replies /\ inspect' = inspect => Replied(h)'
  <1> USE DEF RInv
  <1>1. Once' => Once  BY Monotone
  <1> DEFINE g == Cardinality(Given(h))  g1 == Cardinality(Given(h)')
             p == Cardinality(Past(h))  p1 == Cardinality(Past(h)')
  <1>2. g <= g1 /\ p <= p1 /\ g1 \in Nat /\ p1 \in Nat /\ g \in Nat /\ p \in Nat
    BY Growing, FiniteMessages
  <1>3. ASSUME NEW n \in Nat PROVE (n <= g => n <= g1) /\ (n <= p => n <= p1)
    <2> HIDE DEF g, g1, p, p1
    <2> QED  BY <1>2
  <1>4. \A a, r \in Nat : a + r \in Nat  OBVIOUS
  <1>5. Replied(h) /\ Reported(h)  OBVIOUS
  <1>6. ASSUME workers' = workers PROVE Reported(h)'
    BY <1>1, <1>3, <1>4, <1>5, <1>6 DEF Reported
  <1>7. ASSUME replies' = replies, inspect' = inspect PROVE Replied(h)'
    BY <1>1, <1>3, <1>4, <1>5, <1>7 DEF Replied
  <1> QED  BY <1>6, <1>7

\* Only a worker that ran at some moment has replied, and only those are listed.
LEMMA SeenStep ==
    ASSUME RInv, [TasksNext]_tvars
    PROVE  SeenInv'
  <1> USE DEF RInv, SeenInv
  <1>1. CASE DiscoveryNext
    <2>1. CASE discover_workers
      <3>1. DOMAIN NoReplies = Calls /\ NoReplies["stats"] = {} /\ NoReplies["ping"] = {}
            /\ NoReplies["queues"] = {}
        BY Order DEF NoReplies, Counts, Calls
      <3> QED  BY <2>1, <3>1 DEF discover_workers, queues
    <2>2. CASE inspect_call
      <3>1. /\ inspect \in DOMAIN order /\ up' = up /\ seen' = seen /\ workers' = workers
        BY <2>2 DEF inspect_call, queues
      <3>2. PICK by \in SUBSET up :
              replies' = [replies EXCEPT ![order[inspect]] =
                    IF order[inspect] \in Counts THEN Counted(order[inspect], by) ELSE by]
        BY <2>2 DEF inspect_call
      <3>3. order[inspect] \in Calls  BY <3>1 DEF Calls
      <3>4. DOMAIN replies' = Calls  BY <3>2
      <3>5. \A c \in {"stats", "ping", "queues"} : replies'[c] \subseteq seen
        BY <3>2, <3>3, Order DEF Counts
      <3> QED  BY <3>1, <3>4, <3>5
    <2>3. CASE join
      <3>1. DOMAIN NoReplies = Calls /\ NoReplies["stats"] = {} /\ NoReplies["ping"] = {}
            /\ NoReplies["queues"] = {}
        BY Order DEF NoReplies, Counts, Calls
      <3>2. Listed \subseteq seen  BY DEF Listed
      <3> QED  BY <2>3, <3>1, <3>2 DEF join, queues
    <2> QED  BY <1>1, <2>1, <2>2, <2>3 DEF DiscoveryNext
  <1>2. CASE ~DiscoveryNext
    <2>1. replies' = replies /\ workers' = workers /\ seen \subseteq seen' /\ up' \subseteq seen'
      BY <1>2
         DEF TasksNext, HostNext, StatusNext, WorkerStarts, WorkerDies, Redeliver, apply_async,
             Work, Reserve, Start, Finish, Expire, ready, get_status, tvars, queues, discovery
    <2> QED  BY <2>1
  <1> QED  BY <1>1, <1>2

\* The replies to one call.
LEMMA CallStep ==
    ASSUME RInv, [TasksNext]_tvars, inspect_call, NEW h \in Hosts
    PROVE  Replied(h)'
  <1> USE DEF RInv
  <1>1. /\ inspect \in 1..5 /\ inspect' = inspect + 1
        /\ host' = host /\ place' = place /\ workers' = workers
    BY Order DEF inspect_call, queues
  <1>2. PICK by \in SUBSET up :
          replies' = [replies EXCEPT ![order[inspect]] =
                IF order[inspect] \in Counts THEN Counted(order[inspect], by) ELSE by]
    BY DEF inspect_call
  <1>3. DOMAIN replies = Calls  BY DEF SeenInv
  <1> DEFINE a == replies["active"][h]  r == replies["reserved"][h]
             a1 == replies'["active"][h]  r1 == replies'["reserved"][h]
             g == Cardinality(Given(h))  p == Cardinality(Past(h))
             ca == Cardinality(At(h, "active"))  cr == Cardinality(At(h, "reserved"))
  <1>4. g \in Nat /\ p \in Nat /\ ca \in Nat /\ cr \in Nat  BY FiniteMessages
  <1>5. Once => ca <= p /\ p + cr <= g  BY Waiting
  <1>6. Replied(h)  OBVIOUS
  <1>7. Once' = Once /\ Cardinality(Given(h))' = g /\ Cardinality(Past(h))' = p
    BY <1>1 DEF Once, Given, Past, First
  <1>8. CASE inspect = 2
    <2>1. (a1 = ca \/ a1 = 0) /\ r1 = r
      BY <1>2, <1>3, <1>8, Order DEF Counts, Counted
    <2>2. a1 \in Nat /\ r1 = 0 /\ (Once => a1 <= p)
      BY <1>4, <1>5, <1>6, <1>8, <2>1 DEF Replied
    <2>3. inspect' = 3  BY <1>1, <1>8
    <2> QED  BY <1>7, <2>2, <2>3 DEF Replied
  <1>9. CASE inspect = 3
    <2>1. a1 = a /\ (r1 = cr \/ r1 = 0)
      BY <1>2, <1>3, <1>9, Order DEF Counts, Counted
    <2>2. a \in Nat /\ (Once => a <= p)  BY <1>6, <1>9 DEF Replied
    <2>3. a1 \in Nat /\ r1 \in Nat /\ (Once => a1 + r1 <= g)
      <3> HIDE DEF a, a1, r1, g, p, ca, cr
      <3> QED  BY <1>4, <1>5, <2>1, <2>2
    <2>4. inspect' = 4  BY <1>1, <1>9
    <2> QED  BY <1>7, <2>3, <2>4 DEF Replied
  <1>10. CASE inspect \in {1, 4, 5}
    <2>1. a1 = a /\ r1 = r
      BY <1>2, <1>3, <1>10, Order DEF Counts
    <2>2. inspect' \in {2, 5, 6} /\ (inspect = 1 <=> inspect' = 2)  BY <1>1, <1>10
    <2> QED  BY <1>6, <1>7, <1>10, <2>1, <2>2 DEF Replied
  <1> QED  BY <1>1, <1>8, <1>9, <1>10

\* Every step keeps what was replied and reported.
LEMMA RStep ==
    ASSUME RInv, [TasksNext]_tvars
    PROVE  RInv'
  <1>1. TasksTypeOK'  BY TypeStep DEF RInv
  <1>2. SeenInv'  BY SeenStep
  <1>3. ASSUME NEW h \in Hosts PROVE Replied(h)' /\ Reported(h)'
    <2>0. /\ NoReplies["active"][h] = 0 /\ NoReplies["reserved"][h] = 0
      BY Order DEF NoReplies, Counts, Calls
    <2>1. CASE discover_workers
      <3>1. replies' = NoReplies /\ inspect' = 1 /\ workers'[h] = Null
        BY <2>1 DEF discover_workers
      <3> QED  BY <2>0, <3>1 DEF Replied, Reported
    <2>2. CASE inspect_call
      <3>1. workers' = workers  BY <2>2 DEF inspect_call
      <3> QED  BY <2>2, <3>1, CallStep, Kept
    <2>3. CASE join
      <3>1. /\ replies' = NoReplies /\ inspect' = 0 /\ inspect = 6
            /\ workers'[h] = IF h \in Listed THEN WorkerInfo(h) ELSE Null
            /\ host' = host /\ place' = place
        BY <2>3, Order DEF join, queues
      <3>2. Replied(h)'  BY <2>0, <3>1 DEF Replied
      <3>3. Once' = Once /\ Given(h)' = Given(h)  BY <3>1 DEF Once, Given
      <3>4. Replied(h)  BY DEF RInv
      <3>5. WorkerInfo(h).active = replies["active"][h]
            /\ WorkerInfo(h).reserved = replies["reserved"][h]
        BY DEF WorkerInfo
      <3> QED  BY <3>1, <3>2, <3>3, <3>4, <3>5 DEF Replied, Reported
    <2>4. CASE ~DiscoveryNext
      <3>1. replies' = replies /\ workers' = workers /\ inspect' = inspect
        BY <2>4
           DEF TasksNext, HostNext, StatusNext, WorkerStarts, WorkerDies, Redeliver, apply_async,
               Work, Reserve, Start, Finish, Expire, ready, get_status, tvars, discovery
      <3> QED  BY <3>1, Kept
    <2> QED  BY <2>1, <2>2, <2>3, <2>4 DEF DiscoveryNext
  <1> QED  BY <1>1, <1>2, <1>3 DEF RInv

\* A discovery lists only workers that ran while it was made and, while nothing
\* was delivered twice, reports no more work of a host than it was given,
\* however tasks move on and workers come and go between its calls
\* (DiscoveryIsTrue).
THEOREM DiscoveriesAreTrue == TasksSpec => []DiscoveryIsTrue
  <1>1. RInv => DiscoveryIsTrue
    BY DEF RInv, SeenInv, Reported, DiscoveryIsTrue, Once, Given
  <1> QED  BY RInit, RStep, <1>1, PTL DEF TasksSpec

-----------------------------------------------------------------------------
(* The queue of a host implements TaskDelivery.                              *)

\* The fate of a task, by its two deliveries.
Active(t) == \E k \in {1, 2} : place[<<t, k>>] = "active"
Held(t) == \E k \in {1, 2} : place[<<t, k>>] \in {"queue", "reserved"}

LEMMA Fates ==
    /\ fate = [t \in Tasks |-> fate[t]]
    /\ \A t \in Tasks :
         fate[t] = IF host[t] = Null THEN "unsent"
                   ELSE IF Active(t) THEN "running"
                   ELSE IF Held(t) THEN "waiting" ELSE "ended"
  BY DEF fate, Deliveries, Active, Held

\* The same of the next state.
LEMMA NextFates ==
    /\ fate' = [t \in Tasks |-> fate'[t]]
    /\ \A t \in Tasks :
         fate'[t] = IF host'[t] = Null THEN "unsent"
                    ELSE IF Active(t)' THEN "running"
                    ELSE IF Held(t)' THEN "waiting" ELSE "ended"
  BY DEF fate, Deliveries, Active, Held

LEMMA MessageParts ==
    /\ \A t \in Tasks, k \in {1, 2} :
         <<t, k>> \in Messages /\ <<t, k>>[1] = t /\ <<t, k>>[2] = k
    /\ \A m \in Messages : m[1] \in Tasks /\ m[2] \in {1, 2} /\ m = <<m[1], m[2]>>
  BY DEF Messages

\* A task whose deliveries stay where they are keeps its fate.
LEMMA FateStays ==
    ASSUME NEW t \in Tasks, host'[t] = host[t],
           \A k \in {1, 2} : place'[<<t, k>>] = place[<<t, k>>]
    PROVE  fate'[t] = fate[t]
  BY Fates, NextFates DEF Active, Held

\* All tasks but one keep their fate.
LEMMA OneFate ==
    ASSUME NEW t \in Tasks, \A u \in Tasks \ {t} : fate'[u] = fate[u]
    PROVE  fate' = [fate EXCEPT ![t] = fate'[t]]
  BY Fates, NextFates

\* Nothing was sent at first.
LEMMA FateInit == TasksInit => Delivery!Init
  BY Fates DEF TasksInit, Delivery!Init

\* A message that moves leaves the fate of the other tasks alone.
LEMMA OthersFate ==
    ASSUME TasksTypeOK, NEW m \in Messages, NEW from, NEW to, Move(m, from, to), host' = host
    PROVE  /\ \A u \in Tasks \ {m[1]} : fate'[u] = fate[u]
           /\ place[m] = from /\ place'[m] = to
           /\ \A n \in Messages \ {m} : place'[n] = place[n]
           /\ m[1] \in Tasks
  <1>1. /\ place[m] = from /\ place'[m] = to
        /\ \A n \in Messages \ {m} : place'[n] = place[n]
    BY DEF Move, TasksTypeOK
  <1>2. m[1] \in Tasks
    BY MessageParts
  <1>3. ASSUME NEW u \in Tasks \ {m[1]}
        PROVE  fate'[u] = fate[u]
    <2>1. \A k \in {1, 2} : <<u, k>> \in Messages \ {m}
      BY MessageParts
    <2> QED  BY <1>1, <2>1, FateStays
  <1> QED  BY <1>1, <1>2, <1>3

LEMMA SendStep ==
    ASSUME TasksTypeOK, NEW t \in Tasks, NEW h \in Hosts, apply_async(t, h)
    PROVE  Delivery!Send(t)
  <1> USE MessageParts
  <1>1. /\ host[t] = Null /\ host'[t] # Null
        /\ \A u \in Tasks \ {t} : host'[u] = host[u]
    BY NullFacts DEF apply_async, TasksTypeOK
  <1>2. \A k \in {1, 2} : place[<<t, k>>] = "none"
    BY <1>1 DEF TasksTypeOK
  <1>3. place'[<<t, 1>>] = "queue" /\ place'[<<t, 2>>] = "none"
    <2>1. <<t, 2>> # <<t, 1>>  OBVIOUS
    <2> QED  BY <1>2, <2>1 DEF apply_async, TasksTypeOK
  <1>4. ASSUME NEW u \in Tasks \ {t}
        PROVE  fate'[u] = fate[u]
    <2>1. \A k \in {1, 2} : <<u, k>> \in Messages /\ <<u, k>> # <<t, 1>>
      OBVIOUS
    <2>2. \A k \in {1, 2} : place'[<<u, k>>] = place[<<u, k>>]
      BY <2>1 DEF apply_async, TasksTypeOK
    <2> QED  BY <1>1, <2>2, FateStays
  <1>5. fate[t] = "unsent" /\ fate'[t] = "waiting"
    BY <1>1, <1>3, Fates, NextFates DEF Active, Held
  <1>6. fate' = [fate EXCEPT ![t] = "waiting"]
    BY <1>4, <1>5, OneFate
  <1> QED  BY <1>5, <1>6 DEF Delivery!Send, Delivery!Move

\* What the worker of a host does with a message.
LEMMA WorkStep ==
    ASSUME TasksTypeOK, NEW m \in Messages, Work(m)
    PROVE  [Delivery!Next]_fate
  <1> DEFINE t == m[1]
  <1>1. host' = host /\ t \in Tasks /\ m[2] \in {1, 2} /\ m = <<t, m[2]>>
    BY MessageParts DEF Work, Reserve, Start, Finish
  <1>2. PICK other \in {1, 2} : \A k \in {1, 2} : k = m[2] \/ k = other
    <2>1. CASE m[2] = 1  BY <2>1
    <2>2. CASE m[2] = 2  BY <2>2
    <2> QED  BY <1>1, <2>1, <2>2
  <1> DEFINE o == <<t, other>>
  <1>3. o \in Messages /\ other \in {1, 2}
    BY <1>1, <1>2, MessageParts
  <1>4. /\ Active(t) <=> place[m] = "active" \/ place[o] = "active"
        /\ Held(t) <=> place[m] \in {"queue", "reserved"} \/ place[o] \in {"queue", "reserved"}
        /\ Active(t)' <=> place'[m] = "active" \/ place'[o] = "active"
        /\ Held(t)' <=> place'[m] \in {"queue", "reserved"} \/ place'[o] \in {"queue", "reserved"}
    BY <1>1, <1>2 DEF Active, Held
  <1>5. host[t] # Null /\ host'[t] # Null
    <2>1. place[m] # "none"
      BY DEF Work, Reserve, Start, Finish, Move
    <2> QED  BY <1>1, <2>1 DEF TasksTypeOK
  <1>6. /\ fate[t] = IF Active(t) THEN "running" ELSE IF Held(t) THEN "waiting" ELSE "ended"
        /\ fate'[t] = IF Active(t)' THEN "running" ELSE IF Held(t)' THEN "waiting" ELSE "ended"
    BY <1>1, <1>5, Fates, NextFates
  <1> HIDE DEF t, o
  <1>7. ASSUME NEW from, NEW to, Move(m, from, to)
        PROVE  /\ \A u \in Tasks \ {t} : fate'[u] = fate[u]
               /\ fate' = [fate EXCEPT ![t] = fate'[t]]
               /\ place[m] = from /\ place'[m] = to
               /\ place'[o] = place[o] \/ o = m
    <2>1. \A u \in Tasks \ {t} : fate'[u] = fate[u]
      BY <1>1, <1>7, OthersFate DEF t
    <2>2. fate' = [fate EXCEPT ![t] = fate'[t]]
      BY <1>1, <2>1, OneFate
    <2> QED  BY <1>1, <1>3, <1>7, <2>1, <2>2, OthersFate
  <1>8. ASSUME fate'[t] = fate[t], \A u \in Tasks \ {t} : fate'[u] = fate[u]
        PROVE  UNCHANGED fate
    BY <1>8, Fates, NextFates
  <1>9. CASE Reserve(m)
    <2>1. Move(m, "queue", "reserved")
      BY <1>9 DEF Reserve
    <2> QED  BY <1>4, <1>6, <1>7, <1>8, <2>1
  <1>10. CASE Start(m)
    <2>1. Move(m, "reserved", "active")
      BY <1>10 DEF Start
    <2>2. fate'[t] = "running" /\ fate[t] \in {"running", "waiting"}
      BY <1>4, <1>6, <1>7, <2>1
    <2>3. CASE fate[t] = "running"
      BY <1>7, <1>8, <2>1, <2>2, <2>3
    <2>4. CASE fate[t] = "waiting"
      BY <1>1, <1>7, <2>1, <2>2, <2>4 DEF Delivery!Next, Delivery!Run, Delivery!Move
    <2> QED  BY <2>2, <2>3, <2>4
  <1>11. CASE Finish(m)
    <2>1. Move(m, "active", "finished")
      BY <1>11 DEF Finish
    <2>2. fate[t] = "running" /\ fate'[t] \in {"running", "waiting", "ended"}
      BY <1>4, <1>6, <1>7, <2>1
    <2>3. CASE fate'[t] = "running"
      BY <1>7, <1>8, <2>1, <2>2, <2>3
    <2>4. CASE fate'[t] \in {"waiting", "ended"}
      <3>1. Delivery!Leave({t})
        <4>1. fate' \in [Tasks -> {"unsent", "waiting", "running", "ended"}]
          BY NextFates
        <4> QED  BY <1>7, <2>1, <2>2, <2>4, <4>1 DEF Delivery!Leave
      <3> QED  BY <1>1, <3>1 DEF Delivery!Next
    <2> QED  BY <2>2, <2>3, <2>4
  <1> QED  BY <1>9, <1>10, <1>11 DEF Work

\* The tasks a worker runs leave with it; those it holds go on waiting.
LEMMA DeathStep ==
    ASSUME TasksTypeOK, NEW h \in Hosts, WorkerDies(h)
    PROVE  [Delivery!Next]_fate
  <1> DEFINE S == {t \in Tasks : host[t] = h /\ Active(t)}
  <1>1. h # Null /\ host' = host
    BY NullFacts DEF WorkerDies
  <1>2. \A m \in Messages :
          /\ host[m[1]] # h => place'[m] = place[m]
          /\ host[m[1]] = h => /\ place[m] = "active" => place'[m] = "lost"
                               /\ place[m] = "reserved" => place'[m] = "queue"
                               /\ place[m] \notin {"active", "reserved"} => place'[m] = place[m]
    BY DEF WorkerDies, At
  <1>3. ASSUME NEW t \in Tasks, host[t] # h
        PROVE  fate'[t] = fate[t]
    BY <1>1, <1>2, <1>3, MessageParts, FateStays
  <1>4. ASSUME NEW t \in Tasks, host[t] = h
        PROVE  /\ Active(t) => fate[t] = "running" /\ fate'[t] \in {"waiting", "ended"}
               /\ ~Active(t) => fate'[t] = fate[t]
    <2>1. \A k \in {1, 2} : <<t, k>> \in Messages /\ host[<<t, k>>[1]] = h
      BY <1>4, MessageParts
    <2>2. ~Active(t)'
      BY <1>2, <2>1 DEF Active
    <2>3. ~Active(t) => (Held(t)' <=> Held(t))
      BY <1>2, <2>1 DEF Active, Held
    <2> QED  BY <1>1, <1>4, <2>2, <2>3, Fates, NextFates
  <1>5. fate' \in [Tasks -> {"unsent", "waiting", "running", "ended"}]
    BY NextFates
  <1>6. Delivery!Leave(S)
    BY <1>3, <1>4, <1>5 DEF Delivery!Leave
  <1> QED  BY <1>6 DEF Delivery!Next

\* A second delivery joins one that still waits.
LEMMA RedeliverStep ==
    ASSUME TasksTypeOK, NEW t \in Tasks, Redeliver(t)
    PROVE  UNCHANGED fate
  <1> USE MessageParts
  <1>1. Move(<<t, 2>>, "none", "queue") /\ host' = host /\ place[<<t, 1>>] = "reserved"
    BY DEF Redeliver
  <1>2. /\ \A u \in Tasks \ {t} : fate'[u] = fate[u]
        /\ place[<<t, 2>>] = "none" /\ place'[<<t, 2>>] = "queue"
        /\ place'[<<t, 1>>] = place[<<t, 1>>]
    <2>1. <<t, 1>> # <<t, 2>> /\ <<t, 2>>[1] = t /\ <<t, 1>> \in Messages /\ <<t, 2>> \in Messages
      OBVIOUS
    <2> QED  BY <1>1, <2>1, OthersFate
  <1>3. fate'[t] = fate[t]
    BY <1>1, <1>2, Fates, NextFates DEF Active, Held
  <1> QED  BY <1>2, <1>3, Fates, NextFates

\* Every step is one of TaskDelivery, or changes no fate.
LEMMA FateStep ==
    ASSUME TasksTypeOK, [TasksNext]_tvars
    PROVE  [Delivery!Next]_fate
  <1>1. ASSUME UNCHANGED <<host, place>>
        PROVE  UNCHANGED fate
    BY <1>1 DEF fate, Deliveries
  <1>2. ASSUME NEW h \in Hosts, WorkerStarts(h)
        PROVE  UNCHANGED <<host, place>>
    BY <1>2 DEF WorkerStarts
  <1>3. CASE StatusNext
    BY <1>1, <1>3 DEF StatusNext, ready, get_status, Expire, queues
  <1>4. CASE DiscoveryNext
    BY <1>1, <1>4 DEF DiscoveryNext, discover_workers, inspect_call, join, queues
  <1>5. CASE UNCHANGED tvars
    BY <1>1, <1>5 DEF tvars, queues
  <1>6. ASSUME NEW t \in Tasks, NEW h \in Hosts, apply_async(t, h)
        PROVE  Delivery!Next
    BY <1>6, SendStep DEF Delivery!Next
  <1> QED
    BY <1>1, <1>2, <1>3, <1>4, <1>5, <1>6, WorkStep, DeathStep, RedeliverStep
       DEF TasksNext, HostNext

\* The queue of a host delivers each task at least once: none is lost while it
\* waits, and none that ended runs again, for any number of hosts and tasks,
\* any pool, dying workers and second deliveries (worker_node.py and the tasks
\* main_api.py sends to it).
THEOREM HostTasksAreDelivered == TasksSpec => ImplementsDelivery
  <1>1. QInv /\ [TasksNext]_tvars => QInv'
    BY TypeStep, PollStep DEF QInv
  <1>2. QInv /\ [TasksNext]_tvars => [Delivery!Next]_fate
    BY FateStep DEF QInv
  <1>3. TasksSpec => Delivery!Spec
    BY QInit, FateInit, <1>1, <1>2, PTL DEF TasksSpec, Delivery!Spec
  <1> QED  BY <1>3 DEF ImplementsDelivery
=============================================================================
