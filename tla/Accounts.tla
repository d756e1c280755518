------------------------------ MODULE Accounts ------------------------------
(***************************************************************************)
(* One account of identity-service: registration, the ways to log in, the  *)
(* second factor, reset codes, sessions and what ends them.                *)
(*                                                                         *)
(* Every HTTP request is a process that serves one operation.  It reads    *)
(* the account, checks what it read, and writes later; what it read stays  *)
(* in its record.  Writes made in one transaction are one step, with the   *)
(* snapshot taken in the step before.                                      *)
(***************************************************************************)
EXTENDS Naturals, Sequences, FiniteSets

CONSTANTS
  Requests,            \* HTTP requests, numbered in the order they arrive
  Passwords,           \* passwords of the owner
  Sids, PreAuths,      \* sessions and step-up tokens the service may create
  Otps, Mails,         \* reset codes and e-mail verification tokens
  Challenges,          \* WebAuthn challenges
  ForRegistration,     \* those issued to register a passkey
  Codes,               \* recovery codes
  Secrets,             \* TOTP seeds
  MaxTries,            \* OTP_MAX_ATTEMPTS, 5 in the code
  Device,              \* highest counter of the owner's authenticator
  None

ASSUME AccountsConstants ==
  /\ ForRegistration \subseteq Challenges
  /\ Requests \subseteq Nat
  /\ None \notin Passwords \cup Secrets
  (* Every collection has identifiers of its own. *)
  /\ None \notin Codes \cup Sids \cup PreAuths \cup Otps \cup Mails \cup Challenges
  /\ Codes \cap (Sids \cup PreAuths \cup Otps \cup Mails \cup Challenges) = {}
  /\ (Mails \cup Otps) \cap (Sids \cup PreAuths \cup Challenges) = {}
  /\ Sids \cap (PreAuths \cup Challenges) = {}
  /\ MaxTries \in Nat /\ Device \in Nat

Keys == Sids \cup PreAuths \cup Otps \cup Mails \cup Challenges

VARIABLES
  user,      \* the User document
  tok,       \* the documents behind sessions, tokens, codes and challenges
  mailed,    \* reset codes in the order of their creation
  passkey,   \* counter of the stored WebAuthnCredential, None without one
  signed,    \* counter of the authenticator itself
  rows,      \* idempotency keys in identity_outbox
  req,       \* the requests
  dealt,     \* history: recovery codes handed out so far
  era,       \* history: revocations of all sessions so far
  uses       \* history: how often a one-time token or code took effect

docs == <<user, tok, mailed, passkey, signed, rows, dealt, era, uses>>
vars == <<docs, req>>

Blank == [state |-> "unissued", version |-> 0, era |-> 0, tries |-> 0]
Unregistered ==
  [status |-> "none", provider |-> "local", version |-> 0, password |-> None,
   algo |-> "argon2", email |-> "unverified", totp |-> "off",
   secret |-> None, codes |-> {}]
Registered(pw, algo, totp, secret, codes) ==
  [Unregistered EXCEPT !.status = "active", !.password = pw, !.algo = algo,
     !.email = "verified", !.totp = totp, !.secret = secret, !.codes = codes]
NoDocs == [k \in {} |-> Blank]
Fresh == [op |-> "none", at |-> "new", seen |-> Unregistered, era |-> 0,
          key |-> None, pw |-> None, base |-> Unregistered, snap |-> NoDocs,
          counter |-> 0]
Done == [Fresh EXCEPT !.at = "done"]

First == CHOOSE p \in Passwords : TRUE
Seed == CHOOSE x \in Secrets : TRUE

(* A visitor without an account; an account imported from the monolith     *)
(* with its bcrypt hash; one with a passkey and login challenges waiting;  *)
(* one with a second factor; one whose owner is logged in.                 *)
Starts ==
  {[user |-> Unregistered, passkey |-> None, live |-> {}],
   [user |-> Registered(First, "bcrypt", "off", None, {}),
    passkey |-> None, live |-> {}],
   [user |-> Registered(First, "argon2", "off", None, {}),
    passkey |-> 0, live |-> Challenges \ ForRegistration],
   [user |-> Registered(First, "argon2", "on", Seed, Codes),
    passkey |-> None, live |-> {}],
   [user |-> Registered(First, "argon2", "off", None, {}),
    passkey |-> None, live |-> {CHOOSE s \in Sids : TRUE}]}

Init ==
  /\ \E start \in Starts :
       /\ user = start.user /\ passkey = start.passkey
       /\ tok = [k \in Keys |-> IF k \in start.live
                                THEN [Blank EXCEPT !.state = "open"] ELSE Blank]
       /\ rows = {<<"session-created", s>> : s \in start.live \cap Sids}
  /\ signed = 0
  /\ mailed = <<>>
  /\ req = [r \in Requests |-> Fresh]
  /\ dealt = user.codes
  /\ era = 0
  /\ uses = [k \in Keys \cup Codes |-> 0]
-----------------------------------------------------------------------------
(* Requests. *)
Begin(r) ==
  /\ req[r].at = "new"
  /\ \A q \in Requests : q < r => req[q].at # "new"
At(r, op, at) == req[r].op = op /\ req[r].at = at

(* The request reads the account and goes on to `at'. *)
Load(r, op, at, key, pw) ==
  req' = [req EXCEPT ![r] = [Fresh EXCEPT !.op = op, !.at = at, !.seen = user,
                               !.era = era, !.key = key, !.pw = pw]]
Goto(r, at) == req' = [req EXCEPT ![r].at = at]
Answer(r) == req' = [req EXCEPT ![r] = Done]
(* The reply tells that sessions have ended. *)
Reply(r, op) == req' = [req EXCEPT ![r] = [Done EXCEPT !.op = op]]

(* Documents. *)
Open(K) == {k \in K : tok[k].state = "open"}
(* A random identifier: which of the unused ones does not matter. *)
Unissued(K) ==
  LET free == {k \in K : tok[k].state = "unissued"} IN
  IF free = {} THEN {} ELSE {CHOOSE k \in free : TRUE}
Issue(k, v, e) ==
  [tok EXCEPT ![k] = [state |-> "open", version |-> v, era |-> e, tries |-> 0]]
Spent(f, S) ==
  [k \in Keys |-> IF k \in S THEN [f[k] EXCEPT !.state = "spent"] ELSE f[k]]
Spend(k) == tok' = Spent(tok, {k}) /\ uses' = [uses EXCEPT ![k] = @ + 1]

(* A transaction works on the snapshot of its first read and aborts when a *)
(* document it writes has changed since.  No abort is retried.             *)
Snapshot(r, op, K) ==
  req' = [req EXCEPT ![r].op = op, ![r].at = "commit", ![r].base = user,
                     ![r].snap = [k \in Open(K) |-> tok[k]]]
Unwritten(r) == \A k \in DOMAIN req[r].snap : tok[k] = req[r].snap[k]

(* enqueueEvent in a transaction: a duplicate key aborts all of it. *)
Insertable(keys) ==
  /\ \A i, j \in DOMAIN keys : keys[i] = keys[j] => i = j
  /\ \A i \in DOMAIN keys : keys[i] \notin rows
Insert(keys) == rows' = rows \cup {keys[i] : i \in DOMAIN keys}

(* resolveAuth, and introspection with the same checks. *)
Accepted(s) ==
  /\ user.status = "active"
  /\ tok[s].version = user.version
  /\ tok[s].state = "open"
LoggedIn(s) == s \in Sids /\ Accepted(s)
-----------------------------------------------------------------------------
(* registerUser: the e-mail is free when looked up, then unique on insert. *)
Register(r, pw) ==
  /\ Begin(r) /\ user.status = "none"
  /\ Load(r, "register", "create", None, pw)
  /\ UNCHANGED docs

RegisterCreate(r) ==
  /\ At(r, "register", "create") /\ Answer(r)
  /\ \/ /\ user.status = "none"
        /\ user' = [Unregistered EXCEPT !.status = "inactive",
                                        !.password = req[r].pw]
        /\ \E m \in Unissued(Mails) : tok' = Issue(m, 0, era)
        /\ Insert(<< <<"user-created">> >>)
     \/ user.status # "none" /\ UNCHANGED <<user, tok, rows>>
  /\ UNCHANGED <<mailed, passkey, signed, dealt, era, uses>>

(* requestEmailVerification and issueEmailVerifyToken. *)
RequestMail(r) ==
  /\ Begin(r) /\ user.status # "none" /\ user.email = "unverified"
  /\ Snapshot(r, "mail", Mails)
  /\ UNCHANGED docs

IssueMail(r) ==
  /\ At(r, "mail", "commit") /\ Answer(r)
  /\ \/ /\ Unwritten(r)
        /\ \E m \in Unissued(Mails) :
             tok' = Spent(Issue(m, 0, era), DOMAIN req[r].snap)
     \/ ~Unwritten(r) /\ UNCHANGED tok
  /\ UNCHANGED <<user, mailed, passkey, signed, rows, dealt, era, uses>>

(* confirmEmailVerification, one transaction. *)
ConfirmMail(r, m) ==
  /\ Begin(r) /\ tok[m].state = "open"
  /\ Spend(m)
  /\ user' = [user EXCEPT !.email = "verified", !.version = @ + 1,
                !.status = IF @ = "inactive" THEN "active" ELSE @]
  /\ Insert(<< <<"email-verified", user.version + 1>>,
               <<"user-status", user.version + 1>> >>)
  /\ Answer(r)
  /\ UNCHANGED <<mailed, passkey, signed, dealt, era>>
-----------------------------------------------------------------------------
(* loginUser *)
Login(r, pw) ==
  /\ Begin(r) /\ user.status = "active" /\ user.password = pw
  /\ user.email = "verified" \/ user.provider = "google"
  /\ Load(r, "login",
          IF user.algo = "bcrypt" THEN "rehash" ELSE "proved", None, pw)
  /\ UNCHANGED docs

(* The upgrade of the hash is written whatever the account holds by now,   *)
(* and a failure of it is ignored.                                         *)
Rehash(r) ==
  /\ At(r, "login", "rehash") /\ Goto(r, "proved")
  /\ \/ user' = [user EXCEPT !.password = req[r].pw, !.algo = "argon2"]
     \/ UNCHANGED user
  /\ UNCHANGED <<tok, mailed, passkey, signed, rows, dealt, era, uses>>

(* googleCallback: the account is found by its GoogleSub, or created.  An  *)
(* account with the same e-mail and no GoogleSub is refused.               *)
GoogleLogin(r) ==
  /\ Begin(r) /\ user.status = "active" /\ user.provider = "google"
  /\ Load(r, "login", "proved", None, None)
  /\ UNCHANGED docs

GoogleSignUp(r) ==
  /\ Begin(r) /\ user.status = "none"
  /\ Load(r, "google", "create", None, None)
  /\ UNCHANGED docs

GoogleCreate(r) ==
  /\ At(r, "google", "create")
  /\ \/ /\ user.status = "none"
        /\ user' = [Unregistered EXCEPT !.status = "active",
                      !.provider = "google", !.email = "verified"]
        /\ Insert(<< <<"user-created">> >>)
        /\ req' = [req EXCEPT ![r].op = "login", ![r].at = "proved",
                              ![r].seen = user', ![r].era = era]
     \/ user.status # "none" /\ Answer(r) /\ UNCHANGED <<user, rows>>
  /\ UNCHANGED <<tok, mailed, passkey, signed, dealt, era, uses>>

(* After the first factor: a step-up token when the account, as it was     *)
(* read, has a second one.                                                 *)
IssuePreAuth(r) ==
  /\ At(r, "login", "proved") /\ req[r].seen.totp = "on"
  /\ \E p \in Unissued(PreAuths) :
       tok' = Issue(p, req[r].seen.version, req[r].era)
  /\ Answer(r)
  /\ UNCHANGED <<user, mailed, passkey, signed, rows, dealt, era, uses>>

(* Mutant of CreateSession: the version of the account now, not as read. *)
CreateSessionReread(r) ==
  /\ \/ At(r, "login", "proved") /\ req[r].seen.totp = "off"
     \/ At(r, "login", "session")
  /\ \E s \in Unissued(Sids) :
       /\ tok' = Issue(s, user.version, req[r].era)
       /\ Insert(<< <<"session-created", s>> >>)
  /\ Answer(r)
  /\ UNCHANGED <<user, mailed, passkey, signed, dealt, era, uses>>

(* createAuthenticatedSession, with the token signed for it. *)
CreateSession(r) ==
  /\ \/ At(r, "login", "proved") /\ req[r].seen.totp = "off"
     \/ At(r, "login", "session")
  /\ \E s \in Unissued(Sids) :
       /\ tok' = Issue(s, req[r].seen.version, req[r].era)
       /\ Insert(<< <<"session-created", s>> >>)
  /\ Answer(r)
  /\ UNCHANGED <<user, mailed, passkey, signed, dealt, era, uses>>
-----------------------------------------------------------------------------
(* verify2faLogin *)
StepUp(r, p) ==
  /\ Begin(r) /\ tok[p].state # "unissued"
  /\ user.totp = "on" /\ user.status = "active"
  /\ tok[p].version = user.version
  /\ Load(r, "login", "spend", p, None)
  /\ UNCHANGED docs

(* Mutant of SpendPreAuth: the record is looked up, not spent conditionally. *)
SpendPreAuthAnyway(r) ==
  /\ At(r, "login", "spend")
  /\ Spend(req[r].key) /\ Goto(r, "factor")
  /\ UNCHANGED <<user, mailed, passkey, signed, rows, dealt, era>>

SpendPreAuth(r) ==
  /\ At(r, "login", "spend")
  /\ \/ tok[req[r].key].state = "open" /\ Spend(req[r].key) /\ Goto(r, "factor")
     \/ tok[req[r].key].state # "open" /\ Answer(r) /\ UNCHANGED <<tok, uses>>
  /\ UNCHANGED <<user, mailed, passkey, signed, rows, dealt, era>>

(* A right code for the seed read, a recovery code of the account now, or  *)
(* neither.                                                                *)
Factor(r) ==
  /\ At(r, "login", "factor")
  /\ \/ req[r].seen.secret # None /\ Goto(r, "session")
     \/ \E c \in user.codes :
          req' = [req EXCEPT ![r].at = "pull", ![r].key = c]
     \/ Answer(r)
  /\ UNCHANGED docs

PullCode(r) ==
  /\ At(r, "login", "pull")
  /\ LET c == req[r].key IN
     \/ /\ c \in user.codes
        /\ user' = [user EXCEPT !.codes = @ \ {c}]
        /\ uses' = [uses EXCEPT ![c] = @ + 1]
        /\ Goto(r, "session")
     \/ c \notin user.codes /\ Answer(r) /\ UNCHANGED <<user, uses>>
  /\ UNCHANGED <<tok, mailed, passkey, signed, rows, dealt, era>>

(* setup2fa *)
Setup2fa(r, s) ==
  /\ Begin(r) /\ LoggedIn(s) /\ user.totp = "off"
  /\ Load(r, "setup2fa", "save", None, None)
  /\ UNCHANGED docs

SaveSecret(r) ==
  /\ At(r, "setup2fa", "save") /\ Answer(r)
  /\ \E x \in Secrets : user' = [user EXCEPT !.secret = x]
  /\ UNCHANGED <<tok, mailed, passkey, signed, rows, dealt, era, uses>>

(* enable2fa and disable2fa. *)
Enable2fa(r, s) ==
  /\ Begin(r) /\ LoggedIn(s) /\ user.secret # None
  /\ Load(r, "enable2fa", "save", None, None)
  /\ UNCHANGED docs

SaveEnabled(r) ==
  /\ At(r, "enable2fa", "save") /\ Answer(r)
  /\ user' = [user EXCEPT !.totp = "on",
                !.codes = Codes \ dealt]
  /\ dealt' = Codes
  /\ UNCHANGED <<tok, mailed, passkey, signed, rows, era, uses>>

Disable2fa(r, s, pw) ==
  /\ Begin(r) /\ LoggedIn(s) /\ user.totp = "on"
  /\ user.password = pw /\ user.secret # None
  /\ Load(r, "disable2fa", "save", None, None)
  /\ UNCHANGED docs

SaveDisabled(r) ==
  /\ At(r, "disable2fa", "save") /\ Answer(r)
  /\ user' = [user EXCEPT !.totp = "off", !.secret = None, !.codes = {}]
  /\ UNCHANGED <<tok, mailed, passkey, signed, rows, dealt, era, uses>>
-----------------------------------------------------------------------------
(* Passkeys.  A challenge is stored with its purpose. *)
IssueChallenge(r, c) ==
  /\ Begin(r) /\ tok[c].state = "unissued"
  /\ tok' = Issue(c, 0, era)
  /\ Answer(r)
  /\ UNCHANGED <<user, mailed, passkey, signed, rows, dealt, era, uses>>

(* For the owner. *)
RegistrationOptions(r, s, c) ==
  LoggedIn(s) /\ c \in ForRegistration /\ IssueChallenge(r, c)

(* For whoever asks, with or without an account. *)
LoginOptions(r, c) == c \notin ForRegistration /\ IssueChallenge(r, c)

(* registerCredential: peek at the challenge, verify, then claim it.       *)
RegisterPasskey(r, s, c) ==
  /\ Begin(r) /\ LoggedIn(s) /\ c \in ForRegistration /\ c \in Open({c})
  /\ Load(r, "passkey", "claim", c, None)
  /\ UNCHANGED docs

(* verifyLoginAssertion: the authenticator signs with its next counter.    *)
Assert(r, c) ==
  /\ Begin(r) /\ c \notin ForRegistration /\ c \in Open({c})
  /\ passkey # None /\ signed < Device
  /\ signed' = signed + 1
  /\ req' = [req EXCEPT ![r] = [Fresh EXCEPT !.op = "assert", !.at = "claim",
                                  !.key = c, !.counter = signed']]
  /\ UNCHANGED <<user, tok, mailed, passkey, rows, dealt, era, uses>>

(* claimChallengeByHash *)
ClaimChallenge(r) ==
  /\ req[r].op \in {"passkey", "assert"} /\ req[r].at = "claim"
  /\ LET c == req[r].key IN
     \/ tok[c].state = "open" /\ Spend(c) /\ Goto(r, "claimed")
     \/ tok[c].state # "open" /\ Answer(r) /\ UNCHANGED <<tok, uses>>
  /\ UNCHANGED <<user, mailed, passkey, signed, rows, dealt, era>>

StorePasskey(r) ==
  /\ At(r, "passkey", "claimed") /\ Answer(r)
  /\ passkey' = IF passkey = None THEN signed ELSE passkey
  /\ UNCHANGED <<user, tok, mailed, signed, rows, dealt, era, uses>>

(* The counter moves only forward; the account is read after that. *)
AdvanceCounter(r) ==
  /\ At(r, "assert", "claimed")
  /\ LET forward == passkey # None /\ passkey <= req[r].counter IN
     \/ forward /\ passkey' = req[r].counter /\ Goto(r, "owner")
     \/ ~forward /\ Answer(r) /\ UNCHANGED passkey
  /\ UNCHANGED <<user, tok, mailed, signed, rows, dealt, era, uses>>

PasskeyOwner(r) ==
  /\ At(r, "assert", "owner") /\ user.status = "active"
  /\ Load(r, "login", "proved", None, None)
  /\ UNCHANGED docs

RevokePasskey(r, s) ==
  /\ Begin(r) /\ LoggedIn(s) /\ passkey # None
  /\ passkey' = None
  /\ Answer(r)
  /\ UNCHANGED <<user, tok, mailed, signed, rows, dealt, era, uses>>
-----------------------------------------------------------------------------
(* Reset codes.  forgotPassword: earlier codes are used up, a new one is   *)
(* mailed; the cooldown has passed or there is no earlier code.            *)
Forgot(r) ==
  /\ Begin(r) /\ user.status # "none"
  /\ Snapshot(r, "forgot", Otps)
  /\ UNCHANGED docs

ForgotCommit(r) ==
  /\ At(r, "forgot", "commit") /\ Answer(r)
  /\ \/ /\ Unwritten(r)
        /\ \E o \in Unissued(Otps) :
             /\ tok' = Spent(Issue(o, 0, era), DOMAIN req[r].snap)
             /\ mailed' = Append(mailed, o)
     \/ ~Unwritten(r) /\ UNCHANGED <<tok, mailed>>
  /\ UNCHANGED <<user, passkey, signed, rows, dealt, era, uses>>

(* resetPassword: the newest open code is the candidate.                   *)
Newest(o) ==
  \E i \in DOMAIN mailed :
    /\ mailed[i] = o /\ o \in Open(Otps)
    /\ \A j \in DOMAIN mailed : mailed[j] \in Open(Otps) => j <= i

ResetFind(r, o, pw) ==
  /\ Begin(r) /\ Newest(o)
  /\ Load(r, "reset", "burn", o, pw)
  /\ UNCHANGED docs

(* Mutant of BurnTry: the tries are checked on the copy found before.      *)
BurnTryStale(r) ==
  /\ At(r, "reset", "burn")
  /\ LET o == req[r].key IN
       /\ tok' = [tok EXCEPT ![o].tries = @ + 1]
       /\ Goto(r, "begin") \/ Answer(r)
  /\ UNCHANGED <<user, mailed, passkey, signed, rows, dealt, era, uses>>

(* A try is burnt under its limit before the code is compared. *)
BurnTry(r) ==
  /\ At(r, "reset", "burn")
  /\ LET o == req[r].key
         allowed == o \in Open(Otps) /\ tok[o].tries < MaxTries IN
     \/ /\ allowed
        /\ tok' = [tok EXCEPT ![o].tries = @ + 1]
        /\ Goto(r, "begin") \/ Answer(r)
     \/ ~allowed /\ Answer(r) /\ UNCHANGED tok
  /\ UNCHANGED <<user, mailed, passkey, signed, rows, dealt, era, uses>>

ResetBegin(r) ==
  /\ At(r, "reset", "begin")
  /\ \/ req[r].key \in Open(Otps)
        /\ Snapshot(r, "reset", Sids \cup PreAuths \cup {req[r].key})
     \/ req[r].key \notin Open(Otps) /\ Answer(r)
  /\ UNCHANGED docs

(* What ends every session: the sessions and step-up tokens of the         *)
(* snapshot are spent, and the version leaves all tokens behind.           *)
EndAll(r, version, keys, pw, algo, spent) ==
  LET commits == user = req[r].base /\ Unwritten(r) /\ Insertable(keys) IN
  \/ /\ commits
     /\ user' = [user EXCEPT !.version = version, !.password = pw, !.algo = algo]
     /\ tok' = Spent(tok, DOMAIN req[r].snap)
     /\ uses' = [k \in DOMAIN uses |-> uses[k] + (IF k = spent THEN 1 ELSE 0)]
     /\ Insert(keys)
     /\ era' = era + 1
     /\ Reply(r, req[r].op)
  \/ ~commits /\ Answer(r) /\ UNCHANGED <<user, tok, uses, rows, era>>

ResetCommit(r) ==
  /\ At(r, "reset", "commit")
  /\ LET v == req[r].base.version + 1 IN
       EndAll(r, v, << <<"password-changed", v>>,
                       <<"all-sessions-revoked", v>> >>,
              req[r].pw, "argon2", req[r].key)
  /\ UNCHANGED <<mailed, passkey, signed, dealt>>

(* changePassword takes the version from the copy it read at first, and    *)
(* asks for the event and for the mail under one idempotency key.          *)
Change(r, s, old, pw) ==
  /\ Begin(r) /\ LoggedIn(s) /\ user.password = old
  /\ Load(r, "change", "begin", s, pw)
  /\ UNCHANGED docs

ChangeBegin(r) ==
  /\ At(r, "change", "begin")
  /\ Snapshot(r, "change", Sids \cup PreAuths)
  /\ UNCHANGED docs

ChangeCommit(r) ==
  /\ At(r, "change", "commit")
  /\ LET v == req[r].seen.version + 1 IN
       EndAll(r, v, << <<"password-changed", v>>, <<"all-sessions-revoked", v>>,
                       <<"password-changed", v>> >>, req[r].pw, "argon2", None)
  /\ UNCHANGED <<mailed, passkey, signed, dealt>>
-----------------------------------------------------------------------------
(* Sessions.  logoutAll by the owner, adminForceLogout by an administrator.*)
LogoutAll(r, s) ==
  /\ Begin(r) /\ LoggedIn(s)
  /\ Snapshot(r, "logoutAll", Sids \cup PreAuths)
  /\ UNCHANGED docs

ForceLogout(r) ==
  /\ Begin(r) /\ user.status # "none"
  /\ Snapshot(r, "forceLogout", Sids \cup PreAuths)
  /\ UNCHANGED docs

(* revokeAllForUser *)
RevokeAllCommit(r) ==
  /\ req[r].op \in {"logoutAll", "forceLogout"} /\ req[r].at = "commit"
  /\ LET v == req[r].base.version + 1 IN
       EndAll(r, v, << <<"all-sessions-revoked", v>> >>,
              user.password, user.algo, None)
  /\ UNCHANGED <<mailed, passkey, signed, dealt>>

(* logoutUser: no transaction, and bookkeeping that may fail. *)
Logout(r, s) ==
  /\ Begin(r) /\ LoggedIn(s)
  /\ Spend(s)
  /\ req' = [req EXCEPT ![r] = [Fresh EXCEPT !.op = "logout", !.at = "announce",
                                             !.key = s]]
  /\ UNCHANGED <<user, mailed, passkey, signed, rows, dealt, era>>

LogoutAnnounce(r) ==
  /\ At(r, "logout", "announce") /\ Reply(r, "logout")
  /\ Insert(<< <<"session-revoked", req[r].key>> >>) \/ UNCHANGED rows
  /\ UNCHANGED <<user, tok, mailed, passkey, signed, dealt, era, uses>>

(* Mutant of RevokeSession: the event is left out. *)
RevokeSessionSilently(r, s, t) ==
  /\ Begin(r) /\ LoggedIn(s) /\ t \in Open(Sids)
  /\ tok' = Spent(tok, {t})
  /\ Reply(r, "revokeSession")
  /\ UNCHANGED <<user, mailed, passkey, signed, rows, dealt, era, uses>>

(* revokeSession, one transaction. *)
RevokeSession(r, s, t) ==
  /\ Begin(r) /\ LoggedIn(s) /\ t \in Open(Sids)
  /\ tok' = Spent(tok, {t})
  /\ Insert(<< <<"session-revoked", t>> >>)
  /\ Reply(r, "revokeSession")
  /\ UNCHANGED <<user, mailed, passkey, signed, dealt, era, uses>>
-----------------------------------------------------------------------------
FirstFactor(r) ==
  \/ \E pw \in Passwords : Register(r, pw) \/ Login(r, pw)
  \/ RegisterCreate(r) \/ RequestMail(r) \/ IssueMail(r)
  \/ \E m \in Mails : ConfirmMail(r, m)
  \/ Rehash(r) \/ GoogleLogin(r) \/ GoogleSignUp(r) \/ GoogleCreate(r)
  \/ IssuePreAuth(r) \/ CreateSession(r)

SecondFactor(r) ==
  \/ \E p \in PreAuths : StepUp(r, p)
  \/ SpendPreAuth(r) \/ Factor(r) \/ PullCode(r)
  \/ \E s \in Sids : Setup2fa(r, s) \/ Enable2fa(r, s)
  \/ \E s \in Sids, pw \in Passwords : Disable2fa(r, s, pw)
  \/ SaveSecret(r) \/ SaveEnabled(r) \/ SaveDisabled(r)

Passkeys(r) ==
  \/ \E c \in Challenges : LoginOptions(r, c) \/ Assert(r, c)
  \/ \E s \in Sids, c \in Challenges :
       RegistrationOptions(r, s, c) \/ RegisterPasskey(r, s, c)
  \/ \E s \in Sids : RevokePasskey(r, s)
  \/ ClaimChallenge(r) \/ StorePasskey(r) \/ AdvanceCounter(r)
  \/ PasskeyOwner(r)

Revocation(r) ==
  \/ Forgot(r) \/ ForgotCommit(r)
  \/ \E o \in Otps, pw \in Passwords : ResetFind(r, o, pw)
  \/ BurnTry(r) \/ ResetBegin(r) \/ ResetCommit(r)
  \/ \E s \in Sids, old, pw \in Passwords : Change(r, s, old, pw)
  \/ ChangeBegin(r) \/ ChangeCommit(r)
  \/ \E s \in Sids : LogoutAll(r, s) \/ Logout(r, s)
  \/ ForceLogout(r) \/ RevokeAllCommit(r) \/ LogoutAnnounce(r)
  \/ \E s, t \in Sids : RevokeSession(r, s, t)

Next ==
  \E r \in Requests :
    FirstFactor(r) \/ SecondFactor(r) \/ Passkeys(r) \/ Revocation(r)

Spec == Init /\ [][Next]_vars
-----------------------------------------------------------------------------
(* A token that is accepted comes from credentials that were checked after *)
(* the last reset or logout of all sessions, however the login and the     *)
(* revocation were interleaved.                                            *)
RevocationHolds == \A s \in Sids : Accepted(s) => tok[s].era = era

(* A reset code, step-up token, recovery code, verification token or       *)
(* challenge takes effect once, whoever presents it at the same time.      *)
OneTime ==
  \A k \in (PreAuths \cup Otps \cup Mails \cup Challenges) \cup Codes :
    uses[k] <= 1

(* No code is compared more often than OTP_MAX_ATTEMPTS, however many      *)
(* guesses run in parallel.                                                *)
GuessesBounded == \A o \in Otps : tok[o].tries <= MaxTries

(* The outbox has a row for the other services for every session that      *)
(* ended, unless a logout ended it: its row is written apart, and the      *)
(* error is swallowed.  Who consumes the rows is not asked here.           *)
RevocationsAnnounced ==
  \A s \in Sids :
    tok[s].state = "spent" =>
      \/ <<"session-revoked", s>> \in rows
      \/ \E v \in 1..user.version :
           v > tok[s].version /\ <<"all-sessions-revoked", v>> \in rows
      \/ uses[s] = 1

(* A password change that meets no write conflict takes effect and ends    *)
(* all sessions.                                                           *)
ChangeTakesEffect ==
  [][\A r \in Requests :
       /\ At(r, "change", "commit") /\ req'[r] # req[r]
       /\ user = req[r].base /\ Unwritten(r)
       => user'.password = req[r].pw]_vars
=============================================================================
