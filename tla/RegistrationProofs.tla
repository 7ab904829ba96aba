------------------------ MODULE RegistrationProofs ------------------------
(***************************************************************************)
(* With the unique index of PostgreSQL, an account that was acknowledged   *)
(* is the one its e-mail leads to, a login succeeds for its own user only, *)
(* and every token names a stored user.  By induction: the stored users    *)
(* differ in their e-mails, whatever was or is about to be acknowledged is *)
(* stored, and a login verifies the hash of the user it was asked for.     *)
(***************************************************************************)
EXTENDS Registration, TLAPS

EmailsDiffer ==
    \A i, j \in DOMAIN users : users[i].email = users[j].email => i = j

StoredFirst ==
    /\ accounts \subseteq Stored
    /\ \A c \in Callers : calls[c].at = "stored" => calls[c].user \in Stored
    /\ \A c \in Callers : calls[c].at = "verifying" => calls[c].found \in Stored \cup {NoUser}

(* A login verifies the hash of the user it was asked for. *)
VerifiesAsked ==
    \A c \in Callers :
        (calls[c].at = "verifying" /\ calls[c].found # NoUser) =>
            calls[c].found.email = calls[c].asked.email

IInv ==
    /\ TypeOK
    /\ EmailsDiffer
    /\ StoredFirst
    /\ VerifiesAsked
    /\ TokensNameUsers
    /\ LoginsAreOwn

-----------------------------------------------------------------------------

(* An append keeps what was stored and adds the new user. *)
LEMMA StoredAfterAppend ==
    ASSUME NEW s \in Seq(User), NEW u \in User
    PROVE  {Append(s, u)[i] : i \in DOMAIN Append(s, u)} = {s[i] : i \in DOMAIN s} \cup {u}
<1>1. /\ DOMAIN s = 1 .. Len(s)
      /\ DOMAIN Append(s, u) = 1 .. Len(s) + 1
      /\ Len(s) \in Nat
      /\ \A i \in 1 .. Len(s) : Append(s, u)[i] = s[i]
      /\ Append(s, u)[Len(s) + 1] = u
  OBVIOUS
<1>2. 1 .. Len(s) + 1 = 1 .. Len(s) \cup {Len(s) + 1}
  BY <1>1
<1> QED
  BY <1>1, <1>2

(* A lookup that finds somebody finds a stored user. *)
LEMMA FoundIsStored ==
    ASSUME NEW email, NEW u, FindsByEmail(email, u)
    PROVE  u \in Stored \cup {NoUser}
BY DEF FindsByEmail, Stored

LEMMA InitEstablishes == Init => IInv
<1> SUFFICES ASSUME Init
             PROVE  IInv
  OBVIOUS
<1>1. TypeOK
  BY RegistrationAssumption DEF Init, TypeOK, Call
<1>2. \A c \in Callers : calls[c].at = "idle"
  BY DEF Init, Idle
<1>3. users = << >> /\ tokens = {} /\ accounts = {}
  BY DEF Init
<1>4. VerifiesAsked
  BY <1>2 DEF VerifiesAsked
<1>5. LoginsAreOwn
  BY <1>2 DEF LoginsAreOwn
<1>6. EmailsDiffer /\ StoredFirst /\ TokensNameUsers
  BY <1>2, <1>3 DEF EmailsDiffer, StoredFirst, TokensNameUsers
<1> QED
  BY <1>1, <1>4, <1>5, <1>6 DEF IInv

-----------------------------------------------------------------------------
(* The conjuncts of the invariant, one lemma for each. *)

(* The calls the actions write, and what they read back of them. *)
LEMMA TokenType == \A u \in User : Token(u) \in [sub: Ids, email: Emails]
BY DEF User, Token

LEMMA RegisteringType ==
    ASSUME NEW u \in User
    PROVE  /\ [at |-> "hashing", user |-> u] \in Call
           /\ [at |-> "stored", user |-> u] \in Call
<1>1. /\ [at |-> "hashing", user |-> u] \in Registering
      /\ [at |-> "stored", user |-> u] \in Registering
  BY DEF Registering
<1> QED
  BY <1>1 DEF Call

LEMMA RegisteredType ==
    ASSUME NEW k \in {201, 409, 500}
    PROVE  [at |-> "registered", status |-> k] \in Call
<1>1. [at |-> "registered", status |-> k] \in Registered
  BY DEF Registered
<1> QED
  BY <1>1 DEF Call

LEMMA VerifyingType ==
    ASSUME NEW u \in User \cup {NoUser}, NEW asked \in Credentials
    PROVE  [at |-> "verifying", found |-> u, asked |-> asked] \in Call
<1>1. [at |-> "verifying", found |-> u, asked |-> asked] \in Verifying
  BY DEF Verifying
<1> QED
  BY <1>1 DEF Call

LEMMA ToldType ==
    ASSUME NEW u \in User \cup {NoUser}, NEW k \in {200, 401}
    PROVE  [at |-> "told", status |-> k, user |-> u] \in Call
<1>1. [at |-> "told", status |-> k, user |-> u] \in Told
  BY DEF Told
<1> QED
  BY <1>1 DEF Call

(* A call's place tells which kind of record it is. *)
LEMMA Places ==
    /\ Idle.at = "idle"
    /\ \A call \in Registering : call.at \in {"hashing", "stored"}
    /\ \A call \in Verifying : call.at = "verifying"
    /\ \A call \in Registered : call.at = "registered"
    /\ \A call \in LoggedIn : call.at = "logged in"
    /\ \A call \in Told : call.at = "told"
<1>1. Idle.at = "idle"
  BY DEF Idle
<1>2. \A call \in Registering : call.at \in {"hashing", "stored"}
  BY DEF Registering
<1>3. \A call \in Verifying : call.at = "verifying"
  BY DEF Verifying
<1>4. \A call \in Registered : call.at = "registered"
  BY DEF Registered
<1>5. \A call \in LoggedIn : call.at = "logged in"
  BY DEF LoggedIn
<1>6. \A call \in Told : call.at = "told"
  BY DEF Told
<1> QED
  BY <1>1, <1>2, <1>3, <1>4, <1>5, <1>6

LEMMA RegisteringRead ==
    ASSUME NEW call \in Call, call.at \in {"hashing", "stored"}
    PROVE  call.user \in User
<1>1. call \in Registering
  BY Places DEF Call
<1> QED
  BY <1>1 DEF Registering

LEMMA VerifyingRead ==
    ASSUME NEW call \in Call, call.at = "verifying"
    PROVE  call.asked \in Credentials /\ call.found \in User \cup {NoUser}
<1>1. call \in Verifying
  BY Places DEF Call
<1> QED
  BY <1>1 DEF Verifying

LEMMA TypeStep == TypeOK /\ [Next]_vars => TypeOK'
<1> SUFFICES ASSUME TypeOK, [Next]_vars
             PROVE  TypeOK'
  OBVIOUS
<1> USE DEF TypeOK, Goto
<1>0. /\ Stored \subseteq User
      /\ \A c \in Callers : calls[c] \in Call
  BY DEF Stored
<1>1. ASSUME NEW c \in Callers, NEW a \in Addresses, NEW p \in Passwords,
             RegisterRequest(c, a, p)
      PROVE  TypeOK'
  <2>1. \A id \in Ids : [id |-> id, email |-> Canonical(a), password |-> p] \in User
    BY DEF Canonical, Emails, User
  <2>2. UNCHANGED <<users, tokens, accounts, crashes>>
    BY <1>1 DEF RegisterRequest
  <2>3. CASE ~FindsByEmail(Canonical(a), NoUser)
    <3>1. /\ calls' = [calls EXCEPT ![c] = [at |-> "registered", status |-> 409]]
          /\ drawn' = drawn
      BY <1>1, <2>3 DEF RegisterRequest
    <3> QED
      BY <2>2, <3>1, RegisteredType
  <2>4. CASE FindsByEmail(Canonical(a), NoUser)
    <3> DEFINE user(id) == [id |-> id, email |-> Canonical(a), password |-> p]
    <3>1. PICK id \in Ids \ drawn :
            /\ drawn' = drawn \cup {id}
            /\ calls' = [calls EXCEPT ![c] = [at |-> "hashing", user |-> user(id)]]
      BY <1>1, <2>4 DEF RegisterRequest
    <3>2. user(id) \in User
      BY <2>1
    <3> HIDE DEF user
    <3> QED
      BY <2>2, <3>1, <3>2, RegisteringType
  <2> QED
    BY <2>3, <2>4
<1>2. ASSUME NEW c \in Callers, NEW a \in Addresses, NEW p \in Passwords,
             LoginRequest(c, a, p)
      PROVE  TypeOK'
  <2>1. [email |-> Canonical(a), password |-> p] \in Credentials
    BY DEF Canonical, Emails, Credentials
  <2>2. PICK u \in Stored \cup {NoUser} :
          calls' = [calls EXCEPT ![c] =
            [at |-> "verifying", found |-> u,
             asked |-> [email |-> Canonical(a), password |-> p]]]
    BY <1>2 DEF LoginRequest
  <2>3. [at |-> "verifying", found |-> u,
         asked |-> [email |-> Canonical(a), password |-> p]] \in Call
    BY <1>0, <2>1, VerifyingType
  <2>4. calls' \in [Callers -> Call]
    BY <2>2, <2>3
  <2> QED
    BY <1>2, <2>4 DEF LoginRequest
<1>3. ASSUME NEW c \in Callers, SaveUser(c)
      PROVE  TypeOK'
  <2>1. calls[c].user \in User
    BY <1>0, <1>3, RegisteringRead DEF SaveUser
  <2>2. /\ [at |-> "stored", user |-> calls[c].user] \in Call
        /\ [at |-> "registered", status |-> 500] \in Call
    BY <2>1, RegisteringType, RegisteredType
  <2>3. calls' \in [Callers -> Call] /\ users' \in Seq(User)
    <3>1. CASE Refused(calls[c].user)
      <4>1. users' = users /\ calls' = [calls EXCEPT ![c] = [at |-> "registered", status |-> 500]]
        BY <1>3, <3>1 DEF SaveUser
      <4> QED
        BY <4>1, <2>2
    <3>2. CASE ~Refused(calls[c].user)
      <4>1. /\ users' = Append(users, calls[c].user)
            /\ calls' = [calls EXCEPT ![c] = [at |-> "stored", user |-> calls[c].user]]
        BY <1>3, <3>2 DEF SaveUser
      <4> DEFINE user == calls[c].user
                 call == [at |-> "stored", user |-> user]
      <4>2. user \in User /\ call \in Call
        BY <2>1, <2>2
      <4>3. users' = Append(users, user) /\ calls' = [calls EXCEPT ![c] = call]
        BY <4>1
      <4> HIDE DEF user, call
      <4> QED
        BY <4>2, <4>3
    <3> QED
      BY <3>1, <3>2
  <2> QED
    BY <1>3, <2>3 DEF SaveUser
<1>4. ASSUME NEW c \in Callers, AnswerRegistration(c)
      PROVE  TypeOK'
  <2>1. calls[c].user \in User
    BY <1>0, <1>4, RegisteringRead DEF AnswerRegistration
  <2>2. calls' \in [Callers -> Call]
    BY <1>4, RegisteredType DEF AnswerRegistration
  <2> QED
    BY <1>4, <2>1, <2>2, TokenType DEF AnswerRegistration
<1>5. ASSUME NEW c \in Callers, AnswerLogin(c)
      PROVE  TypeOK'
  <2> DEFINE valid == Verifies(calls[c].asked.password, calls[c].found)
             status == IF valid THEN 200 ELSE 401
             user == IF valid THEN calls[c].found ELSE NoUser
             asked == calls[c].asked
             answer == [at |-> "logged in", asked |-> asked,
                        status |-> status, user |-> user]
  <2>1. asked \in Credentials /\ calls[c].found \in User \cup {NoUser}
    BY <1>0, <1>5, VerifyingRead DEF AnswerLogin
  <2>2. valid => calls[c].found \in User
    BY <2>1 DEF Verifies
  <2>3. /\ calls' = [calls EXCEPT ![c] = answer]
        /\ tokens' = IF valid THEN tokens \cup {Token(calls[c].found)} ELSE tokens
        /\ UNCHANGED <<users, drawn, accounts, crashes>>
    BY <1>5 DEF AnswerLogin
  <2>7. status \in {200, 401} /\ user \in User \cup {NoUser}
    BY <2>1
  <2> HIDE DEF valid, asked, status, user
  <2>6. answer \in LoggedIn
    BY <2>1, <2>7 DEF LoggedIn
  <2> HIDE DEF answer
  <2>8. answer \in Call
    BY <2>6 DEF Call
  <2>5. calls' \in [Callers -> Call]
    BY <2>3, <2>8
  <2> QED
    BY <2>2, <2>3, <2>5, TokenType
<1>6. ASSUME NEW c \in Callers, NEW t \in tokens, Me(c, t)
      PROVE  TypeOK'
  <2>1. PICK u \in Stored \cup {NoUser} :
          calls' = [calls EXCEPT ![c] =
            [at |-> "told", status |-> IF u = NoUser THEN 401 ELSE 200, user |-> u]]
    BY <1>6 DEF Me
  <2> DEFINE status == IF u = NoUser THEN 401 ELSE 200
             call == [at |-> "told", status |-> status, user |-> u]
  <2>2. status \in {200, 401} /\ u \in User \cup {NoUser}
    BY <1>0
  <2>4. calls' = [calls EXCEPT ![c] = call]
    BY <2>1
  <2> HIDE DEF status
  <2>5. call \in Call
    BY <2>2, ToldType
  <2> HIDE DEF call
  <2>3. calls' \in [Callers -> Call]
    BY <2>4, <2>5
  <2> QED
    BY <1>6, <2>3 DEF Me
<1>7. ASSUME Crash
      PROVE  TypeOK'
  <2>1. Idle \in Call
    BY DEF Call
  <2> QED
    BY <1>7, <2>1, RegistrationAssumption DEF Crash
<1>8. ASSUME UNCHANGED vars
      PROVE  TypeOK'
  BY <1>8 DEF vars
<1> QED
  BY <1>1, <1>2, <1>3, <1>4, <1>5, <1>6, <1>7, <1>8 DEF Next

(* What every step does to the repository of a persistent process: nothing,*)
(* or it appends one user whose e-mail was free.                           *)
LEMMA RepositoryStep ==
    ASSUME TypeOK, [Next]_vars, Persistence = "postgres"
    PROVE  \/ users' = users
           \/ \E c \in Callers :
                /\ calls[c].at = "hashing"
                /\ calls[c].user \in User
                /\ users' = Append(users, calls[c].user)
                /\ \A u \in Stored : u.email # calls[c].user.email
                /\ calls' = [calls EXCEPT ![c] = [at |-> "stored", user |-> calls[c].user]]
                /\ UNCHANGED <<tokens, accounts>>
<1>1. ASSUME NEW c \in Callers, SaveUser(c), ~Refused(calls[c].user)
      PROVE  \E d \in Callers :
                /\ calls[d].at = "hashing"
                /\ calls[d].user \in User
                /\ users' = Append(users, calls[d].user)
                /\ \A u \in Stored : u.email # calls[d].user.email
                /\ calls' = [calls EXCEPT ![d] = [at |-> "stored", user |-> calls[d].user]]
                /\ UNCHANGED <<tokens, accounts>>
  <2>1. calls[c].at = "hashing" /\ calls[c] \in Call
    BY <1>1 DEF SaveUser, TypeOK
  <2>2. calls[c].user \in User
    BY <2>1, RegisteringRead
  <2> QED
    BY <1>1, <2>1, <2>2 DEF SaveUser, Refused, Goto
<1>2. ASSUME NEW c \in Callers, SaveUser(c), Refused(calls[c].user)
      PROVE  users' = users
  BY <1>2 DEF SaveUser
<1> QED
  BY <1>1, <1>2
  DEF Next, vars, RegisterRequest, LoginRequest, AnswerRegistration, AnswerLogin, Me, Crash

LEMMA EmailsStep ==
    ASSUME TypeOK, EmailsDiffer, [Next]_vars, Persistence = "postgres"
    PROVE  EmailsDiffer'
<1>1. CASE users' = users
  BY <1>1 DEF EmailsDiffer
<1>2. ASSUME NEW u \in User, users' = Append(users, u), \A v \in Stored : v.email # u.email
      PROVE  EmailsDiffer'
  <2>1. /\ DOMAIN users = 1 .. Len(users)
        /\ DOMAIN users' = 1 .. Len(users) + 1
        /\ Len(users) \in Nat
        /\ \A i \in 1 .. Len(users) : users'[i] = users[i]
        /\ users'[Len(users) + 1] = u
    BY <1>2 DEF TypeOK
  <2>2. \A i \in 1 .. Len(users) : users[i].email # u.email
    BY <1>2, <2>1 DEF Stored
  <2> QED
    BY <2>1, <2>2 DEF EmailsDiffer
<1> QED
  BY <1>1, <1>2, RepositoryStep

LEMMA StoredGrows ==
    ASSUME TypeOK, [Next]_vars, Persistence = "postgres"
    PROVE  Stored \subseteq Stored'
<1>1. CASE users' = users
  BY <1>1 DEF Stored
<1>2. ASSUME NEW u \in User, users' = Append(users, u)
      PROVE  Stored \subseteq Stored'
  BY <1>2, StoredAfterAppend DEF Stored, TypeOK
<1> QED
  BY <1>1, <1>2, RepositoryStep

(* What was stored stays stored, and so does what was acknowledged. *)
LEMMA StoredStep ==
    ASSUME TypeOK, StoredFirst, TokensNameUsers, [Next]_vars, Persistence = "postgres"
    PROVE  StoredFirst' /\ TokensNameUsers'
<1>1. Stored \subseteq Stored'
  BY StoredGrows
<1>2. ASSUME NEW c \in Callers, SaveUser(c)
      PROVE  StoredFirst' /\ TokensNameUsers'
  <2>1. CASE Refused(calls[c].user)
    BY <1>1, <1>2, <2>1 DEF SaveUser, Goto, StoredFirst, TokensNameUsers, TypeOK
  <2>2. CASE ~Refused(calls[c].user)
    <3>1. calls[c].user \in User
      BY <1>2, RegisteringRead DEF SaveUser, TypeOK
    <3>2. calls[c].user \in Stored'
      <4>1. users \in Seq(User) /\ users' = Append(users, calls[c].user)
        BY <1>2, <2>2 DEF SaveUser, TypeOK
      <4> DEFINE user == calls[c].user
      <4>2. user \in {Append(users, user)[i] : i \in DOMAIN Append(users, user)}
        <5> HIDE DEF user
        <5> QED
          BY <3>1, <4>1, StoredAfterAppend DEF user
      <4> QED
        BY <4>1, <4>2 DEF Stored
    <3> QED
      <4>1. /\ calls' = [calls EXCEPT ![c] = [at |-> "stored", user |-> calls[c].user]]
            /\ UNCHANGED <<tokens, accounts>>
        BY <1>2, <2>2 DEF SaveUser, Goto
      <4>2. /\ calls'[c].at = "stored"
            /\ calls'[c].user \in Stored'
            /\ \A d \in Callers \ {c} : calls'[d] = calls[d]
        BY <3>2, <4>1 DEF TypeOK
      <4>3. StoredFirst'
        BY <1>1, <4>1, <4>2 DEF StoredFirst
      <4>4. TokensNameUsers'
        BY <1>1, <4>1 DEF TokensNameUsers
      <4> QED
        BY <4>3, <4>4
  <2> QED
    BY <2>1, <2>2
<1>3. ASSUME NEW c \in Callers, AnswerRegistration(c)
      PROVE  StoredFirst' /\ TokensNameUsers'
  BY <1>1, <1>3 DEF AnswerRegistration, Goto, StoredFirst, TokensNameUsers, TypeOK
<1>4. ASSUME NEW c \in Callers, AnswerLogin(c)
      PROVE  StoredFirst' /\ TokensNameUsers'
  <2>1. StoredFirst'
    BY <1>1, <1>4 DEF AnswerLogin, Goto, StoredFirst, TypeOK
  <2>2. tokens' \subseteq tokens \cup {Token(u) : u \in Stored}
    BY <1>4 DEF AnswerLogin, Verifies, StoredFirst
  <2> QED
    BY <1>1, <2>1, <2>2 DEF TokensNameUsers
<1>5. ASSUME NEW c \in Callers, NEW a \in Addresses, NEW p \in Passwords,
             RegisterRequest(c, a, p) \/ LoginRequest(c, a, p)
      PROVE  StoredFirst' /\ TokensNameUsers'
  <2>1. CASE RegisterRequest(c, a, p)
    BY <1>1, <2>1 DEF RegisterRequest, Goto, StoredFirst, TokensNameUsers, TypeOK
  <2>2. CASE LoginRequest(c, a, p)
    BY <1>1, <2>2 DEF LoginRequest, Goto, StoredFirst, TokensNameUsers, TypeOK
  <2> QED
    BY <1>5, <2>1, <2>2
<1>6. ASSUME NEW c \in Callers, NEW t \in tokens, Me(c, t)
      PROVE  StoredFirst' /\ TokensNameUsers'
  BY <1>1, <1>6 DEF Me, Goto, StoredFirst, TokensNameUsers, TypeOK
<1>7. ASSUME Crash
      PROVE  StoredFirst' /\ TokensNameUsers'
  BY <1>1, <1>7 DEF Crash, Open, Idle, StoredFirst, TokensNameUsers, TypeOK
<1>8. ASSUME UNCHANGED vars
      PROVE  StoredFirst' /\ TokensNameUsers'
  BY <1>8 DEF vars, StoredFirst, TokensNameUsers, Stored
<1> QED
  BY <1>2, <1>3, <1>4, <1>5, <1>6, <1>7, <1>8 DEF Next

(* What VerifiesAsked and LoginsAreOwn say of one call. *)
VerifiesIts(call) ==
    call.at = "verifying" /\ call.found # NoUser => call.found.email = call.asked.email

LoginIsOwn(call, stored) ==
    call.at = "logged in" /\ call.status = 200 =>
        /\ call.user \in stored
        /\ call.user.email = call.asked.email
        /\ call.user.password = call.asked.password

(* Calls that are neither verifying nor logged in say nothing. *)
LEMMA OthersSayNothing ==
    ASSUME NEW call, call.at \notin {"verifying", "logged in"}, NEW stored
    PROVE  VerifiesIts(call) /\ LoginIsOwn(call, stored)
BY DEF VerifiesIts, LoginIsOwn

(* A login is answered with the user it verified, who stays stored. *)
LEMMA LoginStep ==
    ASSUME TypeOK, StoredFirst, VerifiesAsked, LoginsAreOwn, [Next]_vars,
           Persistence = "postgres"
    PROVE  VerifiesAsked' /\ LoginsAreOwn'
<1>1. ASSUME NEW c \in Callers
      PROVE  VerifiesIts(calls[c]) /\ LoginIsOwn(calls[c], Stored')
  <2>1. VerifiesIts(calls[c]) /\ LoginIsOwn(calls[c], Stored)
    BY DEF VerifiesAsked, LoginsAreOwn, VerifiesIts, LoginIsOwn
  <2> QED
    BY <2>1, StoredGrows DEF LoginIsOwn
<1>2. SUFFICES \A d \in Callers : VerifiesIts(calls'[d]) /\ LoginIsOwn(calls'[d], Stored')
  BY DEF VerifiesAsked, LoginsAreOwn, VerifiesIts, LoginIsOwn
<1>3. ASSUME NEW c \in Callers, NEW call, calls' = [calls EXCEPT ![c] = call],
             VerifiesIts(call), LoginIsOwn(call, Stored')
      PROVE  \A d \in Callers : VerifiesIts(calls'[d]) /\ LoginIsOwn(calls'[d], Stored')
  BY <1>1, <1>3 DEF TypeOK
<1>4. ASSUME NEW c \in Callers, NEW a \in Addresses, NEW p \in Passwords,
             RegisterRequest(c, a, p)
      PROVE  \A d \in Callers : VerifiesIts(calls'[d]) /\ LoginIsOwn(calls'[d], Stored')
  <2>1. CASE ~FindsByEmail(Canonical(a), NoUser)
    <3> DEFINE call == [at |-> "registered", status |-> 409]
    <3>1. calls' = [calls EXCEPT ![c] = call]
      BY <1>4, <2>1 DEF RegisterRequest, Goto
    <3>2. call.at \notin {"verifying", "logged in"}
      OBVIOUS
    <3> HIDE DEF call
    <3> QED
      BY <1>3, <3>1, <3>2, OthersSayNothing
  <2>2. CASE FindsByEmail(Canonical(a), NoUser)
    <3> DEFINE user(id) == [id |-> id, email |-> Canonical(a), password |-> p]
               call(id) == [at |-> "hashing", user |-> user(id)]
    <3>1. PICK id \in Ids \ drawn : calls' = [calls EXCEPT ![c] = call(id)]
      BY <1>4, <2>2 DEF RegisterRequest, Goto
    <3> HIDE DEF user
    <3>2. call(id).at \notin {"verifying", "logged in"}
      OBVIOUS
    <3> HIDE DEF call
    <3> QED
      BY <1>3, <3>1, <3>2, OthersSayNothing
  <2> QED
    BY <2>1, <2>2
<1>5. ASSUME NEW c \in Callers, NEW a \in Addresses, NEW p \in Passwords,
             LoginRequest(c, a, p)
      PROVE  \A d \in Callers : VerifiesIts(calls'[d]) /\ LoginIsOwn(calls'[d], Stored')
  <2> DEFINE asked == [email |-> Canonical(a), password |-> p]
  <2>1. PICK u \in Stored \cup {NoUser} :
          /\ FindsByEmail(Canonical(a), u)
          /\ calls' = [calls EXCEPT ![c] = [at |-> "verifying", found |-> u, asked |-> asked]]
    BY <1>5 DEF LoginRequest, Goto
  <2>2. u # NoUser => u.email = asked.email
    BY <2>1 DEF FindsByEmail
  <2> HIDE DEF asked
  <2> DEFINE call == [at |-> "verifying", found |-> u, asked |-> asked]
  <2>3. call.at = "verifying" /\ call.found = u /\ call.asked = asked
    OBVIOUS
  <2>4. calls' = [calls EXCEPT ![c] = call]
    BY <2>1
  <2> HIDE DEF call
  <2>5. VerifiesIts(call)
    BY <2>2, <2>3 DEF VerifiesIts
  <2>6. LoginIsOwn(call, Stored')
    BY <2>3 DEF LoginIsOwn
  <2> QED
    BY <1>3, <2>4, <2>5, <2>6
<1>6. ASSUME NEW c \in Callers, SaveUser(c)
      PROVE  \A d \in Callers : VerifiesIts(calls'[d]) /\ LoginIsOwn(calls'[d], Stored')
  <2> DEFINE user == calls[c].user
             stored == [at |-> "stored", user |-> user]
             refused == [at |-> "registered", status |-> 500]
  <2>1. \/ calls' = [calls EXCEPT ![c] = stored]
        \/ calls' = [calls EXCEPT ![c] = refused]
    BY <1>6 DEF SaveUser, Goto
  <2> HIDE DEF user
  <2>2. /\ stored.at \notin {"verifying", "logged in"}
        /\ refused.at \notin {"verifying", "logged in"}
    OBVIOUS
  <2> HIDE DEF stored, refused
  <2> QED
    BY <1>3, <2>1, <2>2, OthersSayNothing
<1>7. ASSUME NEW c \in Callers, AnswerRegistration(c)
      PROVE  \A d \in Callers : VerifiesIts(calls'[d]) /\ LoginIsOwn(calls'[d], Stored')
  <2> DEFINE call == [at |-> "registered", status |-> 201]
  <2>1. calls' = [calls EXCEPT ![c] = call]
    BY <1>7 DEF AnswerRegistration, Goto
  <2>2. call.at \notin {"verifying", "logged in"}
    OBVIOUS
  <2> HIDE DEF call
  <2> QED
    BY <1>3, <2>1, <2>2, OthersSayNothing
<1>8. ASSUME NEW c \in Callers, AnswerLogin(c)
      PROVE  \A d \in Callers : VerifiesIts(calls'[d]) /\ LoginIsOwn(calls'[d], Stored')
  <2> DEFINE asked == calls[c].asked
             found == calls[c].found
             valid == Verifies(asked.password, found)
             status == IF valid THEN 200 ELSE 401
             user == IF valid THEN found ELSE NoUser
             call == [at |-> "logged in", asked |-> asked, status |-> status, user |-> user]
  <2>1. calls[c].at = "verifying" /\ calls' = [calls EXCEPT ![c] = call]
    BY <1>8 DEF AnswerLogin, Goto
  <2>2. found \in Stored \cup {NoUser}
    BY <2>1 DEF StoredFirst
  <2>3. found # NoUser => found.email = asked.email
    BY <2>1 DEF VerifiesAsked
  <2>4. status = 200 => user = found /\ found # NoUser /\ found.password = asked.password
    BY DEF Verifies
  <2> HIDE DEF asked, found, valid, status, user
  <2>5. /\ call.at = "logged in"
        /\ call.status = status /\ call.user = user /\ call.asked = asked
    OBVIOUS
  <2> HIDE DEF call
  <2>6. VerifiesIts(call)
    BY <2>5 DEF VerifiesIts
  <2>7. status = 200 => /\ user \in Stored'
                        /\ user.email = asked.email
                        /\ user.password = asked.password
    BY <2>2, <2>3, <2>4, StoredGrows
  <2>8. LoginIsOwn(call, Stored')
    BY <2>5, <2>7 DEF LoginIsOwn
  <2> QED
    BY <1>3, <2>1, <2>6, <2>8
<1>9. ASSUME NEW c \in Callers, NEW t \in tokens, Me(c, t)
      PROVE  \A d \in Callers : VerifiesIts(calls'[d]) /\ LoginIsOwn(calls'[d], Stored')
  <2> DEFINE call(u) ==
        [at |-> "told", status |-> IF u = NoUser THEN 401 ELSE 200, user |-> u]
  <2>1. PICK u \in Stored \cup {NoUser} : calls' = [calls EXCEPT ![c] = call(u)]
    BY <1>9 DEF Me, Goto
  <2>2. call(u).at \notin {"verifying", "logged in"}
    OBVIOUS
  <2> HIDE DEF call
  <2> QED
    BY <1>3, <2>1, <2>2, OthersSayNothing
<1>10. ASSUME Crash
       PROVE  \A d \in Callers : VerifiesIts(calls'[d]) /\ LoginIsOwn(calls'[d], Stored')
  <2>1. Idle.at \notin {"verifying", "logged in"}
    BY DEF Idle
  <2>2. \A d \in Callers : calls'[d] = Idle \/ calls'[d] = calls[d]
    BY <1>10 DEF Crash
  <2> QED
    BY <1>1, <2>1, <2>2, OthersSayNothing
<1>11. CASE UNCHANGED vars
  BY <1>1, <1>11 DEF vars
<1> QED
  BY <1>4, <1>5, <1>6, <1>7, <1>8, <1>9, <1>10, <1>11 DEF Next

-----------------------------------------------------------------------------

(* The type invariant holds in both persistence modes. *)
THEOREM RegistrationTypes == Spec => []TypeOK
<1>1. Init => TypeOK
  BY InitEstablishes DEF IInv
<1> QED
  BY <1>1, TypeStep, PTL DEF Spec

(* Only one stored user has a given e-mail, so the first is that one. *)
LEMMA InvariantSuffices == IInv => AccountsWork
<1> SUFFICES ASSUME IInv, NEW u \in accounts
             PROVE  FindsByEmail(u.email, u)
  BY DEF AccountsWork
<1>1. PICK i \in DOMAIN users : users[i] = u
  BY DEF IInv, StoredFirst, Stored
<1>2. DOMAIN users = 1 .. Len(users) /\ Len(users) \in Nat
  BY DEF IInv, TypeOK
<1>3. \A j \in DOMAIN users : j < i => users[j].email # u.email
  BY <1>1, <1>2 DEF IInv, EmailsDiffer
<1> QED
  BY <1>1, <1>3 DEF FindsByEmail

(* With PostgreSQL behind it, whatever registrations, logins and restarts  *)
(* interleave: an acknowledged account is found under its e-mail, a login  *)
(* succeeds only with a stored user's own e-mail and password, and a token *)
(* always names a stored user.                                             *)
THEOREM AcknowledgedAccounts ==
    Persistence = "postgres" /\ Spec => [](AccountsWork /\ LoginsAreOwn /\ TokensNameUsers)
<1> DEFINE Inv == Persistence = "postgres" /\ IInv
<1>1. Persistence = "postgres" /\ Init => Inv
  BY InitEstablishes
<1>2. Inv /\ [Next]_vars => Inv'
  BY TypeStep, EmailsStep, StoredStep, LoginStep DEF IInv
<1>3. Inv => AccountsWork /\ LoginsAreOwn /\ TokensNameUsers
  BY InvariantSuffices DEF IInv
<1> QED
  BY <1>1, <1>2, <1>3, PTL DEF Spec

(* With PostgreSQL, a login is answered with the caller's own user.        *)
COROLLARY LoginsCorrect == Persistence = "postgres" /\ Spec => []LoginsAreOwn
BY AcknowledgedAccounts, PTL

(* With PostgreSQL, every token given out names a stored user.             *)
COROLLARY TokensCorrect == Persistence = "postgres" /\ Spec => []TokensNameUsers
BY AcknowledgedAccounts, PTL

=============================================================================
