------------------------------ MODULE Sessions ------------------------------
(* Logins and tokens of the API (main_api.py) over the hash "authentication" *)
(* in Redis.  A login reads the hash twice on the event loop; the dependency *)
(* that checks the token of every other request runs in a thread.  A token   *)
(* names its user, nothing else, and is not stored: only its expiry and one  *)
(* more look at the hash end it.                                             *)
EXTENDS Integers

CONSTANTS
    Users,
    Passwords,  \* their encodings by encode_phrase_with_key, which is a hash
    Clients,    \* one request under way each
    TTL,        \* ACCESS_TOKEN_EXPIRE_MINUTES, in ticks longer than a request
    None

Logins == [user : Users, password : Passwords]
Tokens == [user : Users, password : Passwords, left : 0..TTL]

ASSUME SessionsAssumption ==
    /\ TTL \in Nat \ {0}
    /\ None \notin Passwords \cup Logins \cup Tokens

VARIABLES
    authentication,  \* Redis hash: user -> password, or None
    since,    \* user -> password -> ticks since it was the user's
    attempt,  \* client -> user and password of its login
    token,    \* client -> token it holds, with the password it got it for
    request,  \* client -> where its request is
    waiting   \* client -> its request was under way at the last tick

svars == <<authentication, since, attempt, token, request, waiting>>

Long == TTL + 1   \* ticks are not counted beyond
Aged(n) == IF n < Long THEN n + 1 ELSE Long

SessionsInit ==
    /\ authentication \in [Users -> Passwords \cup {None}]
    /\ since = [u \in Users |-> [p \in Passwords |->
                    IF authentication[u] = p THEN 0 ELSE Long]]
    /\ attempt = [c \in Clients |-> None]
    /\ token = [c \in Clients |-> None]
    /\ request = [c \in Clients |-> "none"]
    /\ waiting = [c \in Clients |-> FALSE]

-----------------------------------------------------------------------------
Goto(c, place) == request' = [request EXCEPT ![c] = place]

\* 200, 400, 401 or 500.
Answer(c) ==
    /\ Goto(c, "none")
    /\ attempt' = [attempt EXCEPT ![c] = None]
    /\ waiting' = [waiting EXCEPT ![c] = FALSE]

\* login holds the event loop until it answers.
login(c, u, p) ==
    /\ request[c] = "none"
    /\ \A d \in Clients : attempt[d] = None
    /\ attempt' = [attempt EXCEPT ![c] = [user |-> u, password |-> p]]
    /\ Goto(c, "exists")
    /\ UNCHANGED <<authentication, since, token, waiting>>

\* authenticate_user, "if not rd.get_user_pass(username)".
user_exists(c) ==
    /\ request[c] = "exists"
    /\ \/ /\ authentication[attempt[c].user] # None
          /\ Goto(c, "compare")
          /\ UNCHANGED <<attempt, waiting>>
       \/ authentication[attempt[c].user] = None /\ Answer(c)
    /\ UNCHANGED <<authentication, since, token>>

any_password(c) ==   \* Bug: a user that exists is not compared.
    /\ request[c] = "compare"
    /\ token' = [token EXCEPT ![c] = [user |-> attempt[c].user,
                          password |-> attempt[c].password, left |-> TTL]]
    /\ Answer(c)
    /\ UNCHANGED <<authentication, since>>

\* Its second read, and create_access_token.
password_matches(c) ==
    /\ request[c] = "compare"
    /\ \/ /\ authentication[attempt[c].user] = attempt[c].password
          /\ token' = [token EXCEPT ![c] = [user |-> attempt[c].user,
                                password |-> attempt[c].password, left |-> TTL]]
       \/ authentication[attempt[c].user] # attempt[c].password /\ UNCHANGED token
    /\ Answer(c)
    /\ UNCHANGED <<authentication, since>>

use_token(c) ==
    /\ request[c] = "none"
    /\ token[c] # None
    /\ Goto(c, "decode")
    /\ UNCHANGED <<authentication, since, attempt, token, waiting>>

decode_unexpired(c) ==   \* Bug: "exp" is not verified.
    /\ request[c] = "decode"
    /\ Goto(c, "lookup")
    /\ UNCHANGED <<authentication, since, attempt, token, waiting>>

\* get_current_user: jwt.decode raises ExpiredSignatureError, or ...
decode(c) ==
    /\ request[c] = "decode"
    /\ \/ token[c].left > 0 /\ Goto(c, "lookup") /\ UNCHANGED <<attempt, waiting>>
       \/ token[c].left = 0 /\ Answer(c)
    /\ UNCHANGED <<authentication, since, token>>

lookup_nothing(c) ==   \* Bug: the name in the token is enough.
    /\ request[c] = "lookup"
    /\ Goto(c, "admitted")
    /\ UNCHANGED <<authentication, since, attempt, token, waiting>>

\* ... the user of the token is looked up, its password is not.
lookup(c) ==
    /\ request[c] = "lookup"
    /\ \/ /\ authentication[token[c].user] # None
          /\ Goto(c, "admitted")
          /\ UNCHANGED <<attempt, waiting>>
       \/ authentication[token[c].user] = None /\ Answer(c)
    /\ UNCHANGED <<authentication, since, token>>

\* The endpoint does what it is for.
endpoint(c) ==
    /\ request[c] = "admitted"
    /\ Answer(c)
    /\ UNCHANGED <<authentication, since, token>>

RedisRaises(c) ==
    /\ request[c] \in {"exists", "compare", "lookup"}
    /\ Answer(c)
    /\ UNCHANGED <<authentication, since, token>>

Serve(c) ==
    \/ user_exists(c) \/ password_matches(c)
    \/ decode(c) \/ lookup(c) \/ endpoint(c)
    \/ RedisRaises(c)

\* Nothing in the repository calls it but an administrator's session.
save_user_pass(u, p) ==
    /\ authentication' = [authentication EXCEPT ![u] = p]
    /\ since' = [since EXCEPT ![u][p] = 0]
    /\ UNCHANGED <<attempt, token, request, waiting>>

\* hdel, in redis-cli.
RemoveUser(u) ==
    /\ authentication[u] # None
    /\ authentication' = [authentication EXCEPT ![u] = None]
    /\ UNCHANGED <<since, attempt, token, request, waiting>>

\* A request does not see two ticks.
Tick ==
    /\ \A c \in Clients : ~waiting[c]
    /\ waiting' = [c \in Clients |-> request[c] # "none"]
    /\ since' = [u \in Users |-> [p \in Passwords |->
                    IF authentication[u] = p THEN 0 ELSE Aged(since[u][p])]]
    /\ token' = [c \in Clients |->
                    IF token[c] = None \/ token[c].left = 0 THEN token[c]
                    ELSE [token[c] EXCEPT !.left = @ - 1]]
    /\ UNCHANGED <<authentication, attempt, request>>

SessionsNext ==
    \/ \E c \in Clients : use_token(c) \/ Serve(c)
    \/ \E c \in Clients : \E u \in Users, p \in Passwords : login(c, u, p)
    \/ \E u \in Users : RemoveUser(u) \/ \E p \in Passwords : save_user_pass(u, p)
    \/ Tick

SessionsSpec == SessionsInit /\ [][SessionsNext]_svars

\* Time passes, and the server answers.
SessionsFairness ==
    /\ WF_svars(Tick)
    /\ \A c \in Clients : WF_svars(Serve(c))

-----------------------------------------------------------------------------
\* Types, and what a request at some place has with it: a login its attempt,
\* every other its token.
SessionsTypeOK ==
    /\ authentication \in [Users -> Passwords \cup {None}]
    /\ since \in [Users -> [Passwords -> 0..Long]]
    /\ attempt \in [Clients -> Logins \cup {None}]
    /\ token \in [Clients -> Tokens \cup {None}]
    /\ request \in [Clients -> {"none", "exists", "compare",
                                "decode", "lookup", "admitted"}]
    /\ waiting \in [Clients -> BOOLEAN]
    /\ \A c \in Clients :
        /\ request[c] \in {"exists", "compare"} <=> attempt[c] # None
        /\ request[c] \in {"decode", "lookup", "admitted"} => token[c] # None

\* Who is admitted as a user has given a password that was the user's no longer
\* ago than a token lives, though the password is changed, or the user removed
\* and registered again, between any two reads.
AdmissionIsEarned ==
    \A c \in Clients : request[c] = "admitted" =>
        since[token[c].user][token[c].password] <= TTL

\* A user that was removed is out within one request: its tokens, which have
\* not expired, admit nobody from then on.
RemovedUserIsOut ==
    \A c \in Clients : request[c] = "admitted" =>
        \E p \in Passwords : since[token[c].user][p] <= 1

\* A change of password ends all sessions of the old one at some time, those
\* in the middle of a login included.
PasswordChangeTakesEffect ==
    \A u \in Users, p \in Passwords :
        <>[](authentication[u] = p) =>
            <>[](\A c \in Clients : request[c] = "admitted" /\ token[c].user = u
                                        => token[c].password = p)
=============================================================================
