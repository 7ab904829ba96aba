--------------------------- MODULE Registration ---------------------------
(***************************************************************************)
(* The auth module: registration, login and the caller's own account       *)
(* (src/auth).  RegisterUseCase looks the e-mail up, hashes the password   *)
(* in a thread pool, and only then stores the user; other requests run in  *)
(* between.  PostgreSQL keeps a unique index on the e-mail, the in-memory  *)
(* repository keeps none.                                                  *)
(***************************************************************************)
EXTENDS Integers, Sequences

CONSTANTS
    Addresses,    \* e-mail addresses as a client spells them
    EmailOf,      \* the canonical e-mail of each: trimmed, in lower case
    Passwords,    \* plain passwords
    Ids,          \* random UUIDs; bound: registrations that reach the hashing
    Callers,      \* HTTP clients, each with one request at a time
    Persistence,  \* PERSISTENCE_MODE
    NoUser,       \* what a lookup returns when nobody is found
    MaxCrashes    \* bound: how often the process is killed

Emails == {EmailOf[a] : a \in Addresses}

(* A hash is salted and verifies against the one password it was made of,  *)
(* so it is modelled as that password.                                     *)
User == [id: Ids, email: Emails, password: Passwords]

ASSUME RegistrationAssumption ==
    /\ EmailOf \in [Addresses -> Emails]
    /\ Persistence \in {"postgres", "inmemory"}
    /\ NoUser \notin User
    /\ MaxCrashes \in Nat

VARIABLES
    users,     \* the user repository, in insertion order
    calls,     \* the request of each caller, or its answer
    drawn,     \* UUIDs drawn so far
    tokens,    \* JWTs issued so far
    accounts,  \* history: users whose registration was answered 201
    crashes    \* kills so far

vars == <<users, calls, drawn, tokens, accounts, crashes>>

Idle == [at |-> "idle"]

Credentials == [email: Emails, password: Passwords]

Registering == [at: {"hashing", "stored"}, user: User]

Verifying == [at: {"verifying"}, asked: Credentials, found: User \cup {NoUser}]

Registered == [at: {"registered"}, status: {201, 409, 500}]

LoggedIn ==
    [at: {"logged in"}, status: {200, 401}, asked: Credentials, user: User \cup {NoUser}]

Told == [at: {"told"}, status: {200, 401}, user: User \cup {NoUser}]

Call == {Idle} \cup Registering \cup Verifying \cup Registered \cup LoggedIn \cup Told

(* The variables hold values of their types. *)
TypeOK ==
    /\ users \in Seq(User)
    /\ calls \in [Callers -> Call]
    /\ drawn \subseteq Ids
    /\ tokens \subseteq [sub: Ids, email: Emails]
    /\ accounts \subseteq User
    /\ crashes \in 0 .. MaxCrashes

Init ==
    /\ users = << >>
    /\ calls = [c \in Callers |-> Idle]
    /\ drawn = {}
    /\ tokens = {}
    /\ accounts = {}
    /\ crashes = 0

-----------------------------------------------------------------------------

Stored == {users[i] : i \in DOMAIN users}

(* findByEmail returns u: the first user with that e-mail, if there is one. *)
FindsByEmail(email, u) ==
    \/ /\ u = NoUser
       /\ \A i \in DOMAIN users : users[i].email # email
    \/ \E i \in DOMAIN users :
        /\ users[i] = u
        /\ u.email = email
        /\ \A j \in DOMAIN users : j < i => users[j].email # email

FindsById(id, u) ==
    \/ u = NoUser /\ \A v \in Stored : v.id # id
    \/ u \in Stored /\ u.id = id

(* Mutant: the index is missing from the schema. *)
NoIndex(user) == FALSE

(* The INSERT fails on the unique index of users.email. *)
Refused(user) ==
    /\ Persistence = "postgres"
    /\ \E u \in Stored : u.email = user.email

Token(user) == [sub |-> user.id, email |-> user.email]

Open(c) == calls[c].at \in {"hashing", "stored", "verifying"}

Goto(c, call) == calls' = [calls EXCEPT ![c] = call]

-----------------------------------------------------------------------------

(* Mutant: the e-mail is used as it was spelled. *)
AsSpelled(address) == address

(* Email.create *)
Canonical(address) == EmailOf[address]

(* POST /auth/register up to its first pause: the e-mail is free or not.   *)
(* randomUUID() draws an id that was never drawn before.                   *)
RegisterRequest(c, address, password) ==
    /\ ~Open(c)
    /\ \/ /\ ~FindsByEmail(Canonical(address), NoUser)
          /\ Goto(c, [at |-> "registered", status |-> 409])
          /\ UNCHANGED drawn
       \/ /\ FindsByEmail(Canonical(address), NoUser)
          /\ \E id \in Ids \ drawn :
              /\ drawn' = drawn \cup {id}
              /\ Goto(c, [at |-> "hashing",
                          user |-> [id |-> id, email |-> Canonical(address),
                                    password |-> password]])
    /\ UNCHANGED <<users, tokens, accounts, crashes>>

(* Mutant: the promise of save is not awaited, so its failure goes unseen. *)
SaveUserUnawaited(c) ==
    /\ calls[c].at = "hashing"
    /\ users' = IF Refused(calls[c].user) THEN users ELSE Append(users, calls[c].user)
    /\ Goto(c, [at |-> "stored", user |-> calls[c].user])
    /\ UNCHANGED <<drawn, tokens, accounts, crashes>>

(* The password is hashed and the user saved, or the INSERT is refused,    *)
(* which the controller does not map: 500.                                 *)
SaveUser(c) ==
    /\ calls[c].at = "hashing"
    /\ \/ /\ ~Refused(calls[c].user)
          /\ users' = Append(users, calls[c].user)
          /\ Goto(c, [at |-> "stored", user |-> calls[c].user])
       \/ /\ Refused(calls[c].user)
          /\ Goto(c, [at |-> "registered", status |-> 500])
          /\ UNCHANGED users
    /\ UNCHANGED <<drawn, tokens, accounts, crashes>>

(* 201 with a token. *)
AnswerRegistration(c) ==
    /\ calls[c].at = "stored"
    /\ tokens' = tokens \cup {Token(calls[c].user)}
    /\ accounts' = accounts \cup {calls[c].user}
    /\ Goto(c, [at |-> "registered", status |-> 201])
    /\ UNCHANGED <<users, drawn, crashes>>

(* POST /auth/login up to the verification of the hash. *)
LoginRequest(c, address, password) ==
    /\ ~Open(c)
    /\ \E u \in Stored \cup {NoUser} :
        /\ FindsByEmail(Canonical(address), u)
        /\ Goto(c, [at |-> "verifying", found |-> u,
                    asked |-> [email |-> Canonical(address), password |-> password]])
    /\ UNCHANGED <<users, drawn, tokens, accounts, crashes>>

(* Mutant: the outcome of the verification is ignored. *)
VerifiesAnything(password, found) == found # NoUser

(* Nobody's hash is DUMMY_HASH: an unknown e-mail never verifies. *)
Verifies(password, found) == found # NoUser /\ found.password = password

AnswerLogin(c) ==
    /\ calls[c].at = "verifying"
    /\ LET valid == Verifies(calls[c].asked.password, calls[c].found)
       IN  /\ Goto(c, [at |-> "logged in", asked |-> calls[c].asked,
                       status |-> IF valid THEN 200 ELSE 401,
                       user |-> IF valid THEN calls[c].found ELSE NoUser])
           /\ tokens' = IF valid THEN tokens \cup {Token(calls[c].found)} ELSE tokens
    /\ UNCHANGED <<users, drawn, accounts, crashes>>

(* GET /auth/me with a token that is still valid. *)
Me(c, token) ==
    /\ ~Open(c)
    /\ \E u \in Stored \cup {NoUser} :
        /\ FindsById(token.sub, u)
        /\ Goto(c, [at |-> "told", status |-> IF u = NoUser THEN 401 ELSE 200, user |-> u])
    /\ UNCHANGED <<users, drawn, tokens, accounts, crashes>>

(* The process is killed: open requests die with it, and so does the       *)
(* in-memory repository.  Clients keep their tokens.                       *)
Crash ==
    /\ crashes < MaxCrashes
    /\ crashes' = crashes + 1
    /\ calls' = [c \in Callers |-> IF Open(c) THEN Idle ELSE calls[c]]
    /\ users' = IF Persistence = "inmemory" THEN << >> ELSE users
    /\ UNCHANGED <<drawn, tokens, accounts>>

Next ==
    \/ \E c \in Callers, a \in Addresses, p \in Passwords :
        RegisterRequest(c, a, p) \/ LoginRequest(c, a, p)
    \/ \E c \in Callers : SaveUser(c) \/ AnswerRegistration(c) \/ AnswerLogin(c)
    \/ \E c \in Callers, t \in tokens : Me(c, t)
    \/ Crash

Spec == Init /\ [][Next]_vars

-----------------------------------------------------------------------------

(* An account whose registration was answered 201 is the one its e-mail    *)
(* leads to, so its owner can log in, whoever else registered meanwhile.   *)
(* Two requests may both find the e-mail free (register.use-case.ts:28);   *)
(* only the index keeps the second from being stored.                      *)
AccountsWork == \A u \in accounts : FindsByEmail(u.email, u)

(* A login is answered 200 only to whoever gave the e-mail and password of *)
(* a stored user, and with that user.                                      *)
LoginsAreOwn ==
    \A c \in Callers :
        (calls[c].at = "logged in" /\ calls[c].status = 200) =>
            /\ calls[c].user \in Stored
            /\ calls[c].user.email = calls[c].asked.email
            /\ calls[c].user.password = calls[c].asked.password

(* A token names a user the repository knows, under that user's e-mail, so *)
(* GET /auth/me answers its holder and a simulation's owner exists: no     *)
(* token is given out for a user that was never stored.                    *)
TokensNameUsers ==
    \A t \in tokens : \E u \in Stored : Token(u) = t

(* An e-mail is registered once: a second registration is rejected with    *)
(* 409 (test/e2e/auth-flow.e2e-spec.ts:33), so no two accounts that were   *)
(* answered 201 share it.                                                  *)
DuplicateIsConflict ==
    \A u, v \in accounts : u.email = v.email => u = v

=============================================================================
