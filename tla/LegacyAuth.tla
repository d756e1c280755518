----------------------------- MODULE LegacyAuth -----------------------------
(***************************************************************************)
(* One account as the monolith itself keeps it: users, user_sessions, the  *)
(* verification tokens, reset codes and passkeys behind authController,    *)
(* identityController and authMiddleware.                                  *)
(*                                                                         *)
(* Unlike identity-service the monolith changes an account by load and     *)
(* save: a handler writes the fields it changed, computed from the copy it *)
(* loaded, and nothing refuses the write when the account moved on.  Every *)
(* visit is one HTTP request; its record keeps the copy.                   *)
(***************************************************************************)
EXTENDS Naturals, FiniteSets

CONSTANTS
  Visits,        \* HTTP requests, numbered in the order they arrive
  Words,         \* passwords
  Logins,        \* sessions the monolith may create, numbered
  Tokens,        \* e-mail verification tokens, numbered
  Resets,        \* reset codes, numbered: a later one has a higher number
  Challenges,    \* WebAuthn challenges
  Enrolling,     \* those issued to register a passkey
  Recovery,      \* recovery codes
  Device,        \* highest counter of the owner's authenticator
  MaxAttempts,   \* wrong guesses at one reset code, 5 in the code
  None

(* What the module takes for granted of its constants. *)
LegacyAuthConstants ==
  /\ Visits \subseteq Nat /\ Logins \subseteq Nat /\ Tokens \subseteq Nat /\ Resets \subseteq Nat
  /\ None \notin Words \cup Logins \cup Tokens \cup Resets \cup Challenges
  /\ Tokens \cap Challenges = {}
  /\ Enrolling \subseteq Challenges /\ Device \in Nat /\ MaxAttempts \in Nat

VARIABLES
  account,    \* the User document
  session,    \* the UserSession rows; the token carries the row's version
  mail,       \* EmailVerificationToken
  reset,      \* PasswordResetToken
  challenge,  \* WebAuthnChallenge
  counter,    \* Counter of the WebAuthnCredential, None without one
  device,     \* counter of the authenticator itself
  pending,    \* does the owner hold a pending 2FA token: a JWT without a row
  visit,      \* the requests
  over,       \* history: sessions that an answered revocation ended
  swept,      \* history: those that ended together, by a higher version
  rewound,    \* history: has a stale save written a version that is no higher
  taken       \* history: how often a token or challenge took effect

docs == <<account, session, mail, reset, challenge, counter, device, pending>>
more == <<swept, rewound>>
legacyVars == <<docs, visit, over, taken, more>>

Nobody == [status |-> "none", version |-> 0, word |-> None, email |-> "unverified",
           google |-> "unlinked", totp |-> "off", secret |-> "none", codes |-> {}]
Owner(w) == [Nobody EXCEPT !.status = "active", !.word = w, !.email = "verified"]
NoRow == [state |-> "unissued", version |-> 0]
Row(v) == [state |-> "open", version |-> v]
Waiting == [op |-> "none", at |-> "new", copy |-> Nobody, word |-> None,
            key |-> None, tries |-> 0, open |-> {}]
Answered == [Waiting EXCEPT !.at = "answered"]
SomeWord == CHOOSE w \in Words : TRUE

(* A visitor without an account, or the account of an active customer:     *)
(* with one session, with a second factor, or with a passkey.              *)
LegacyInit ==
  /\ account \in {Nobody, Owner(SomeWord),
       [Owner(SomeWord) EXCEPT !.totp = "on", !.secret = "set", !.codes = Recovery]}
  /\ \E live \in {{}, {CHOOSE s \in Logins : TRUE}} :
       /\ account = Nobody => live = {}
       /\ session = [s \in Logins |-> IF s \in live THEN Row(0) ELSE NoRow]
  /\ counter \in IF account.totp = "off" /\ account # Nobody THEN {None, 0} ELSE {None}
  /\ mail = [m \in Tokens |-> "unissued"]
  /\ reset = [o \in Resets |-> [state |-> "unissued", tries |-> 0]]
  /\ challenge = [c \in Challenges |-> "unissued"]
  /\ device = 0
  /\ pending = "no"
  /\ visit = [v \in Visits |-> Waiting]
  /\ over = {} /\ swept = {} /\ rewound = FALSE
  /\ taken = [k \in Tokens \cup Challenges |-> 0]
-----------------------------------------------------------------------------
(* Requests. *)
Arrives(v) == visit[v].at = "new" /\ \A u \in Visits : u < v => visit[u].at # "new"
In(v, op, at) == visit[v].op = op /\ visit[v].at = at
Open == {s \in Logins : session[s].state = "open"}
Copy(v) == visit[v].copy

(* The handler starts, with a copy of the account. *)
Start(v, op, at, key, w) ==
  visit' = [visit EXCEPT ![v] = [Waiting EXCEPT !.op = op, !.at = at, !.copy = account,
                                   !.key = key, !.word = w, !.open = Open]]
GoOn(v, at) == visit' = [visit EXCEPT ![v].at = at]
Reload(v, at) == visit' = [visit EXCEPT ![v].at = at, ![v].copy = account]
Answer(v) == visit' = [visit EXCEPT ![v] = Answered]

(* tokenVersion of the copy and one. *)
Bump(v) == Copy(v).version + 1

(* tokenVersion is written as it was computed, whatever it is by now. *)
Write(a) ==
  /\ account' = a
  /\ rewound' = IF a.version > account.version THEN rewound ELSE TRUE

(* What socketService asks of the token of a session before its socket     *)
(* joins the owner's rooms, and all that authMiddleware asks of a token of *)
(* the time before the sessions, where it still takes one.                 *)
ByVersion(s) ==
  /\ account.status = "active"
  /\ session[s].state # "unissued" /\ session[s].version = account.version

(* attachUserFromToken: the account is read first, the row after it.  A    *)
(* row never opens again, so both reads may be taken as one.               *)
Attached(s) == ByVersion(s) /\ session[s].state = "open"

(* The next number of a set that is handed out in order. *)
Following(S, issued) ==
  {k \in S : k \notin issued /\ \A j \in S : j < k => j \in issued}
-----------------------------------------------------------------------------
(* registerUser: one transaction behind a check that the e-mail is free,   *)
(* which a unique index repeats.                                           *)
Register(v, w) ==
  /\ Arrives(v) /\ account.status = "none"
  /\ Start(v, "register", "create", None, w)
  /\ UNCHANGED <<docs, over, taken, more>>

RegisterCreate(v) ==
  /\ In(v, "register", "create") /\ Answer(v)
  /\ \/ /\ account.status = "none"
        /\ account' = [Nobody EXCEPT !.status = "inactive", !.word = visit[v].word]
        /\ \E m \in Following(Tokens, {t \in Tokens : mail[t] # "unissued"}) :
             mail' = [mail EXCEPT ![m] = "open"]
     \/ account.status # "none" /\ UNCHANGED <<account, mail>>
  /\ UNCHANGED <<session, reset, challenge, counter, device, pending, over, taken, more>>

(* requestEmailVerification and issueEmailVerifyToken: the earlier tokens  *)
(* are used up, then a new one is created.                                 *)
RequestMail(v) ==
  /\ Arrives(v) /\ account.status # "none" /\ account.email = "unverified"
  /\ Start(v, "mail", "retire", None, None)
  /\ UNCHANGED <<docs, over, taken, more>>

RetireMail(v) ==
  /\ In(v, "mail", "retire") /\ GoOn(v, "create")
  /\ mail' = [m \in Tokens |-> IF mail[m] = "open" THEN "used" ELSE mail[m]]
  /\ UNCHANGED <<account, session, reset, challenge, counter, device, pending,
                 over, taken, more>>

IssueMail(v) ==
  /\ In(v, "mail", "create") /\ Answer(v)
  /\ \E m \in Following(Tokens, {t \in Tokens : mail[t] # "unissued"}) :
       mail' = [mail EXCEPT ![m] = "open"]
  /\ UNCHANGED <<account, session, reset, challenge, counter, device, pending,
                 over, taken, more>>

(* confirmEmailVerification: the token is consumed by one conditional      *)
(* update, the account changes by load and save.                           *)
PresentMail(v, m) ==
  /\ Arrives(v) /\ mail[m] # "unissued"
  /\ Start(v, "confirm", "consume", m, None)
  /\ UNCHANGED <<docs, over, taken, more>>

ConsumeMail(v) ==
  /\ In(v, "confirm", "consume")
  /\ LET m == visit[v].key IN
     \/ /\ mail[m] = "open" /\ GoOn(v, "load")
        /\ mail' = [mail EXCEPT ![m] = "used"]
     \/ mail[m] # "open" /\ Answer(v) /\ UNCHANGED mail
  /\ UNCHANGED <<account, session, reset, challenge, counter, device, pending,
                 over, taken, more>>

ConfirmLoad(v) ==
  /\ In(v, "confirm", "load") /\ Reload(v, "save")
  /\ UNCHANGED <<docs, over, taken, more>>

ConfirmSave(v) ==
  /\ In(v, "confirm", "save") /\ Answer(v)
  /\ Write([account EXCEPT !.email = "verified", !.version = Bump(v),
       !.status = IF Copy(v).status = "inactive" THEN "active" ELSE @])
  /\ taken' = [taken EXCEPT ![visit[v].key] = @ + 1]
  /\ UNCHANGED <<session, mail, reset, challenge, counter, device, pending, over, swept>>
-----------------------------------------------------------------------------
(* loginUser *)
Login(v, w) ==
  /\ Arrives(v) /\ account.status = "active" /\ account.word = w
  /\ account.email = "verified" \/ account.google = "linked"
  /\ Start(v, "login", "proved", None, None)
  /\ UNCHANGED <<docs, over, taken, more>>

(* upsertGoogleUser: found by GoogleSub, refused when only the e-mail      *)
(* matches, or created.  A linked account was created active and is never  *)
(* inactive, because nothing calls linkGoogleSub.                          *)
GoogleLogin(v) ==
  /\ Arrives(v) /\ account.google = "linked" /\ account.status = "active"
  /\ Start(v, "login", "proved", None, None)
  /\ UNCHANGED <<docs, over, taken, more>>

GoogleSignUp(v) ==
  /\ Arrives(v) /\ account.status = "none"
  /\ account' = [Nobody EXCEPT !.status = "active", !.email = "verified",
                               !.google = "linked"]
  /\ visit' = [visit EXCEPT ![v] = [Waiting EXCEPT !.op = "login", !.at = "proved",
                                      !.copy = account']]
  /\ UNCHANGED <<session, mail, reset, challenge, counter, device, pending,
                 over, taken, more>>

(* The first factor is proved: a pending token if the copy asks for 2FA.   *)
IssuePending(v) ==
  /\ In(v, "login", "proved") /\ Copy(v).totp = "on" /\ Answer(v)
  /\ pending' = "yes"
  /\ UNCHANGED <<account, session, mail, reset, challenge, counter, device,
                 over, taken, more>>

(* createAuthenticatedSession, with signToken. *)
CreateSession(v) ==
  /\ \/ In(v, "login", "proved") /\ Copy(v).totp = "off"
     \/ In(v, "factor", "passed")
  /\ Answer(v)
  /\ \E s \in Following(Logins, {t \in Logins : session[t].state # "unissued"}) :
       session' = [session EXCEPT ![s] = Row(Copy(v).version)]
  /\ UNCHANGED <<account, mail, reset, challenge, counter, device, pending,
                 over, taken, more>>

(* verify2faLogin: a right code for the seed, or a recovery code of the    *)
(* copy, whose removal is saved as the whole remaining list.               *)
VerifyTotp(v) ==
  /\ Arrives(v) /\ pending = "yes"
  /\ account.totp = "on" /\ account.status = "active" /\ account.secret = "set"
  /\ Start(v, "factor", "passed", None, None)
  /\ UNCHANGED <<docs, over, taken, more>>

VerifyRecovery(v, c) ==
  /\ Arrives(v) /\ pending = "yes"
  /\ account.totp = "on" /\ account.status = "active" /\ c \in account.codes
  /\ Start(v, "factor", "remove", c, None)
  /\ UNCHANGED <<docs, over, taken, more>>

RemoveRecovery(v) ==
  /\ In(v, "factor", "remove") /\ GoOn(v, "passed")
  /\ account' = [account EXCEPT !.codes = Copy(v).codes \ {visit[v].key}]
  /\ UNCHANGED <<session, mail, reset, challenge, counter, device, pending,
                 over, taken, more>>

(* setup2fa, enable2fa, disable2fa. *)
Setup2fa(v, s) ==
  /\ Arrives(v) /\ Attached(s) /\ account.totp = "off"
  /\ Start(v, "setup", "save", None, None)
  /\ UNCHANGED <<docs, over, taken, more>>

Enable2fa(v, s) ==
  /\ Arrives(v) /\ Attached(s) /\ account.secret = "set"
  /\ Start(v, "enable", "save", None, None)
  /\ UNCHANGED <<docs, over, taken, more>>

Disable2fa(v, s, w) ==
  /\ Arrives(v) /\ Attached(s) /\ account.totp = "on"
  /\ account.word = w /\ account.secret = "set"
  /\ Start(v, "disable", "save", None, None)
  /\ UNCHANGED <<docs, over, taken, more>>

(* Fields equal to the copy's are not written. *)
SaveFactor(v) ==
  /\ visit[v].op \in {"setup", "enable", "disable"} /\ visit[v].at = "save"
  /\ account' = CASE visit[v].op = "setup" -> [account EXCEPT !.secret = "set"]
       [] visit[v].op = "enable" -> [account EXCEPT !.codes = Recovery,
            !.totp = IF Copy(v).totp = "off" THEN "on" ELSE @]
       [] OTHER -> [account EXCEPT !.totp = "off", !.secret = "none",
            !.codes = IF Copy(v).codes = {} THEN @ ELSE {}]
  /\ Answer(v)
  /\ UNCHANGED <<session, mail, reset, challenge, counter, device, pending,
                 over, taken, more>>
-----------------------------------------------------------------------------
(* Passkeys.  A challenge is stored with its purpose. *)
IssueChallenge(v, c) ==
  /\ Arrives(v) /\ challenge[c] = "unissued"
  /\ challenge' = [challenge EXCEPT ![c] = "open"]
  /\ Answer(v)
  /\ UNCHANGED <<account, session, mail, reset, counter, device, pending, over, taken, more>>

(* For the owner of an active account. *)
RegistrationOptions(v, s, c) == Attached(s) /\ c \in Enrolling /\ IssueChallenge(v, c)

(* For whoever asks, with or without an account. *)
LoginOptions(v, c) == c \notin Enrolling /\ IssueChallenge(v, c)

(* registerCredential: the challenge is looked at, the attestation         *)
(* verified, and only then the challenge claimed.                          *)
RegisterPasskey(v, s, c) ==
  /\ Arrives(v) /\ Attached(s) /\ c \in Enrolling /\ challenge[c] = "open"
  /\ Start(v, "enroll", "claim", c, None)
  /\ UNCHANGED <<docs, over, taken, more>>

(* The authenticator has one credential, whose identifier is unique. *)
StorePasskey(v) ==
  /\ In(v, "enroll", "claimed") /\ Answer(v)
  /\ counter' = IF counter = None THEN device ELSE counter
  /\ UNCHANGED <<account, session, mail, reset, challenge, device, pending, over, taken, more>>

RevokePasskey(v, s) ==
  /\ Arrives(v) /\ Attached(s) /\ counter # None
  /\ counter' = None
  /\ Answer(v)
  /\ UNCHANGED <<account, session, mail, reset, challenge, device, pending, over, taken, more>>

(* verifyLoginAssertion, in the same order. *)
Assert(v, c) ==
  /\ Arrives(v) /\ c \notin Enrolling /\ challenge[c] = "open" /\ counter # None /\ device < Device
  /\ device' = device + 1
  /\ visit' = [visit EXCEPT ![v] = [Waiting EXCEPT !.op = "assert", !.at = "claim",
                                      !.key = c, !.tries = device']]
  /\ UNCHANGED <<account, session, mail, reset, challenge, counter, pending, over, taken, more>>

ClaimChallenge(v) ==
  /\ visit[v].op \in {"assert", "enroll"} /\ visit[v].at = "claim"
  /\ LET c == visit[v].key IN
     \/ /\ challenge[c] = "open" /\ GoOn(v, "claimed")
        /\ challenge' = [challenge EXCEPT ![c] = "used"]
        /\ taken' = [taken EXCEPT ![c] = @ + 1]
     \/ challenge[c] # "open" /\ Answer(v) /\ UNCHANGED <<challenge, taken>>
  /\ UNCHANGED <<account, session, mail, reset, counter, device, pending, over, more>>

AdvanceCounter(v) ==
  /\ In(v, "assert", "claimed")
  /\ LET forward == counter # None /\ counter <= visit[v].tries IN
     \/ forward /\ counter' = visit[v].tries /\ GoOn(v, "owner")
     \/ ~forward /\ Answer(v) /\ UNCHANGED counter
  /\ UNCHANGED <<account, session, mail, reset, challenge, device, pending, over, taken, more>>

PasskeyOwner(v) ==
  /\ In(v, "assert", "owner")
  /\ \/ account.status = "active" /\ Start(v, "login", "proved", None, None)
     \/ account.status # "active" /\ Answer(v)
  /\ UNCHANGED <<docs, over, taken, more>>
-----------------------------------------------------------------------------
(* What ends sessions.  The rows are ended apart from the account, and an  *)
(* answer promises the end of every session that was open at the start.    *)

EndRows(S) ==
  session' = [s \in Logins |-> IF s \in S
                               THEN [session[s] EXCEPT !.state = "revoked"]
                               ELSE session[s]]
Promise(v) ==
  over' = over \cup visit[v].open /\ swept' = swept \cup visit[v].open

(* logoutUser, and revokeSession for one of the listed sessions.  A failed *)
(* write does not fail the logout.                                         *)
Logout(v, s) ==
  /\ Arrives(v) /\ Attached(s) /\ Answer(v)
  /\ \/ EndRows({s}) /\ over' = over \cup {s}
     \/ UNCHANGED <<session, over>>
  /\ UNCHANGED <<account, mail, reset, challenge, counter, device, pending, taken, more>>

RevokeSession(v, s, t) ==
  /\ Arrives(v) /\ Attached(s) /\ t \in Open /\ Answer(v)
  /\ EndRows({t}) /\ over' = over \cup {t}
  /\ UNCHANGED <<account, mail, reset, challenge, counter, device, pending, taken, more>>

(* logoutAll, adminForceLogout *)
LogoutAll(v, s) ==
  /\ Arrives(v) /\ Attached(s)
  /\ Start(v, "logoutAll", "save", None, None)
  /\ UNCHANGED <<docs, over, taken, more>>

ForceLogout(v) ==
  /\ Arrives(v) /\ account.status # "none"
  /\ Start(v, "forceLogout", "save", None, None)
  /\ UNCHANGED <<docs, over, taken, more>>

SaveVersion(v) ==
  /\ visit[v].op \in {"logoutAll", "forceLogout"} /\ visit[v].at = "save"
  /\ Write([account EXCEPT !.version = Bump(v)])
  /\ GoOn(v, "rows")
  /\ UNCHANGED <<session, mail, reset, challenge, counter, device, pending, over, taken, swept>>

(* Mutant of EndAllRows: tokenVersion alone is trusted. *)
EndAllRowsByVersion(v) ==
  /\ visit[v].op \in {"logoutAll", "forceLogout"} /\ visit[v].at = "rows"
  /\ Promise(v) /\ Answer(v)
  /\ UNCHANGED <<account, session, mail, reset, challenge, counter, device, pending,
                 taken, rewound>>

EndAllRows(v) ==
  /\ visit[v].op \in {"logoutAll", "forceLogout"} /\ visit[v].at = "rows"
  /\ \/ EndRows(Open) /\ Promise(v)
     \/ visit[v].op = "forceLogout" /\ UNCHANGED <<session, over, swept>>
  /\ Answer(v)
  /\ UNCHANGED <<account, mail, reset, challenge, counter, device, pending, taken, rewound>>

(* changePassword: by version only, the rows stay. *)
Change(v, s, old, w) ==
  /\ Arrives(v) /\ Attached(s) /\ account.word = old
  /\ Start(v, "change", "save", None, w)
  /\ UNCHANGED <<docs, over, taken, more>>

SaveWord(v) ==
  /\ In(v, "change", "save") /\ Answer(v)
  /\ Write([account EXCEPT !.word = visit[v].word, !.version = Bump(v)])
  /\ UNCHANGED <<session, mail, reset, challenge, counter, device, pending, over, taken, swept>>

(* toggleUserStatus: an active account is banned, any other made active.   *)
Toggle(v) ==
  /\ Arrives(v) /\ account.status # "none"
  /\ Start(v, "toggle", "save", None, None)
  /\ UNCHANGED <<docs, over, taken, more>>

SaveStatus(v) ==
  /\ In(v, "toggle", "save") /\ Answer(v)
  /\ Write([account EXCEPT !.version = Bump(v),
       !.status = IF Copy(v).status = "active" THEN "banned" ELSE "active"])
  /\ UNCHANGED <<session, mail, reset, challenge, counter, device, pending, over, taken, swept>>
-----------------------------------------------------------------------------
(* forgotPassword: no code of the last minute, the earlier ones retired, a *)
(* new one created and mailed; a mail that fails takes its code back.      *)
Forgot(v) ==
  /\ Arrives(v) /\ account.status # "none"
  /\ Start(v, "forgot", "retire", None, None)
  /\ UNCHANGED <<docs, over, taken, more>>

RetireResets(v) ==
  /\ In(v, "forgot", "retire") /\ GoOn(v, "create")
  /\ reset' = [o \in Resets |-> IF reset[o].state = "open"
                 THEN [reset[o] EXCEPT !.state = "used"] ELSE reset[o]]
  /\ UNCHANGED <<account, session, mail, challenge, counter, device, pending, over, taken, more>>

CreateReset(v) ==
  /\ In(v, "forgot", "create") /\ Answer(v)
  /\ \E o \in Following(Resets, {k \in Resets : reset[k].state # "unissued"}),
        state \in {"open", "used"} :
       reset' = [reset EXCEPT ![o].state = state]
  /\ UNCHANGED <<account, session, mail, challenge, counter, device, pending, over, taken, more>>

(* resetPassword: the newest unused code is the candidate, and its count   *)
(* of attempts that of the copy.                                           *)
ResetFind(v, o, w) ==
  /\ Arrives(v) /\ reset[o].state = "open" /\ reset[o].tries < MaxAttempts
  /\ \A k \in Resets : reset[k].state = "open" => k <= o
  /\ \E at \in {"load", "miss"} :
       visit' = [visit EXCEPT ![v] = [Waiting EXCEPT !.op = "reset", !.at = at,
                   !.key = o, !.word = w, !.tries = reset[o].tries, !.open = Open]]
  /\ UNCHANGED <<docs, over, taken, more>>

ResetMiss(v) ==
  /\ In(v, "reset", "miss") /\ Answer(v)
  /\ reset' = [reset EXCEPT ![visit[v].key].tries = visit[v].tries + 1]
  /\ UNCHANGED <<account, session, mail, challenge, counter, device, pending, over, taken, more>>

ResetLoad(v) ==
  /\ In(v, "reset", "load") /\ Reload(v, "save")
  /\ UNCHANGED <<docs, over, taken, more>>

ResetSave(v) ==
  /\ In(v, "reset", "save") /\ GoOn(v, "rows")
  /\ Write([account EXCEPT !.word = visit[v].word, !.version = Bump(v)])
  /\ UNCHANGED <<session, mail, reset, challenge, counter, device, pending, over, taken, swept>>

(* The rows are ended if that works; the code is used up after it. *)
ResetRows(v) ==
  /\ In(v, "reset", "rows") /\ GoOn(v, "spend")
  /\ \/ EndRows(Open) /\ Promise(v)
     \/ UNCHANGED <<session, over, swept>>
  /\ UNCHANGED <<account, mail, reset, challenge, counter, device, pending, taken, rewound>>

ResetSpend(v) ==
  /\ In(v, "reset", "spend") /\ Answer(v)
  /\ reset' = [reset EXCEPT ![visit[v].key].state = "used"]
  /\ UNCHANGED <<account, session, mail, challenge, counter, device, pending, over, taken, more>>
-----------------------------------------------------------------------------
Joining(v) ==
  \/ \E w \in Words : Register(v, w)
  \/ RegisterCreate(v) \/ RequestMail(v) \/ RetireMail(v) \/ IssueMail(v)
  \/ \E m \in Tokens : PresentMail(v, m)
  \/ ConsumeMail(v) \/ ConfirmLoad(v) \/ ConfirmSave(v)
  \/ GoogleLogin(v) \/ GoogleSignUp(v)

LoggingIn(v) ==
  \/ \E w \in Words : Login(v, w)
  \/ IssuePending(v) \/ CreateSession(v)

TwoFactor(v) ==
  \/ VerifyTotp(v) \/ RemoveRecovery(v) \/ SaveFactor(v)
  \/ \E c \in Recovery : VerifyRecovery(v, c)
  \/ \E s \in Logins : Setup2fa(v, s) \/ Enable2fa(v, s)
  \/ \E s \in Logins, w \in Words : Disable2fa(v, s, w)

Passkey(v) ==
  \/ \E c \in Challenges : LoginOptions(v, c) \/ Assert(v, c)
  \/ \E s \in Logins, c \in Challenges :
       RegistrationOptions(v, s, c) \/ RegisterPasskey(v, s, c)
  \/ \E s \in Logins : RevokePasskey(v, s)
  \/ StorePasskey(v)
  \/ ClaimChallenge(v) \/ AdvanceCounter(v) \/ PasskeyOwner(v)

Ending(v) ==
  \/ \E s \in Logins : Logout(v, s) \/ LogoutAll(v, s)
  \/ \E s, t \in Logins : RevokeSession(v, s, t)
  \/ ForceLogout(v) \/ SaveVersion(v) \/ EndAllRows(v)
  \/ \E s \in Logins, old, w \in Words : Change(v, s, old, w)
  \/ SaveWord(v) \/ Toggle(v) \/ SaveStatus(v)

Forgetting(v) ==
  \/ Forgot(v) \/ RetireResets(v) \/ CreateReset(v)
  \/ \E o \in Resets, w \in Words : ResetFind(v, o, w)
  \/ ResetMiss(v) \/ ResetLoad(v) \/ ResetSave(v) \/ ResetRows(v) \/ ResetSpend(v)

LegacyNext ==
  \E v \in Visits : \/ Joining(v) \/ LoggingIn(v) \/ TwoFactor(v)
                    \/ Passkey(v) \/ Ending(v) \/ Forgetting(v)
LegacySpec == LegacyInit /\ [][LegacyNext]_legacyVars
-----------------------------------------------------------------------------
(* A session that was open when a logout, a revocation, a logout of all    *)
(* devices or a reset was asked for is never accepted by a request once it *)
(* is answered, although stale saves may set tokenVersion back to that of  *)
(* its token.                                                              *)
SessionsEnd == \A s \in over : ~Attached(s)

(* Where only the version is asked for, this holds of what ends all        *)
(* sessions, and only as long as no save is stale; a single logout or      *)
(* revocation raises no version.                                           *)
SocketsEnd == rewound \/ \A s \in swept : ~ByVersion(s)

(* A verification token or a challenge takes effect once, whoever presents *)
(* it at the same time.  Reset and recovery codes are not among them: they *)
(* are looked at long before they are used up.                             *)
TakenOnce == \A k \in Tokens \cup Challenges : taken[k] <= 1

(* Together: what has ended, or was used up, stays so.                     *)
EndedStaysEnded == SessionsEnd /\ SocketsEnd /\ TakenOnce
=============================================================================
