------------------------------ MODULE Gateway -------------------------------
(***************************************************************************)
(* The API gateway in front of identity-service: it asks identity whether  *)
(* a token is active (introspection) and keeps the answer for a while      *)
(* (tokenCache).  A reply that reports a revocation empties the cache of   *)
(* the caller's tokens on its way back; the caller of a reset or of a      *)
(* forced logout is not the owner of the tokens that ended.                *)
(*                                                                         *)
(* A token is named by its session; all tokens here are of one account.    *)
(* Time is counted in ticks.                                               *)
(***************************************************************************)
EXTENDS Accounts

CONSTANTS
  Lookups,   \* introspections the gateway may have under way
  TTL,       \* ticks an answer is served, 15 s in the code
  TimeOut,   \* ticks after which an introspection is aborted, 5 s
  MaxEntries \* size of the cache, 5000 in the code

ASSUME GatewayConstants ==
  /\ TTL \in Nat \ {0} /\ TimeOut \in Nat /\ MaxEntries \in Nat \ {0}

VARIABLES
  cache,      \* age of the cached answer "active" by token, None without one
  lookup,     \* introspections
  replied,    \* requests whose reply has passed the gateway
  dead,       \* history: ticks since a token ceased to be accepted
  overtaken,  \* history: tokens with an answer under way at such a reply
  unevicted,  \* history: tokens such a reply found in the cache and left there
  ended       \* history: tokens whose end such a reply has reported

history == <<overtaken, unevicted, ended>>
gateway == <<cache, lookup, replied, dead, history>>
gatewayVars == <<vars, gateway>>

Idle == [at |-> "idle", sid |-> None, age |-> 0, active |-> "no"]

GatewayInit ==
  /\ Init
  /\ cache = [s \in Sids |-> None]
  /\ lookup = [g \in Lookups |-> Idle]
  /\ replied = {}
  /\ dead = [s \in Sids |-> 0]
  /\ overtaken = {} /\ unevicted = {} /\ ended = {}
-----------------------------------------------------------------------------
Cached == {s \in Sids : cache[s] # None}

(* resolve: the token is not in the cache, so identity is asked. *)
Ask(g, s) ==
  /\ lookup[g].at = "idle" /\ tok[s].state # "unissued" /\ s \notin Cached
  /\ lookup' = [lookup EXCEPT ![g] =
       [at |-> "sent", sid |-> s, age |-> 0, active |-> "no"]]
  /\ UNCHANGED <<vars, cache, replied, dead, history>>

(* POST /internal/auth/introspect in identity-service reads the account    *)
(* and then the session.                                                   *)
IntrospectUser(g) ==
  /\ lookup[g].at = "sent"
  /\ LET matches == /\ user.status = "active"
                    /\ tok[lookup[g].sid].version = user.version IN
     lookup' = [lookup EXCEPT ![g].at = IF matches THEN "matched" ELSE "answered"]
  /\ UNCHANGED <<vars, cache, replied, dead, history>>

IntrospectSession(g) ==
  /\ lookup[g].at = "matched"
  /\ lookup' = [lookup EXCEPT ![g].at = "answered",
       ![g].active = IF tok[lookup[g].sid].state = "open" THEN "yes" ELSE "no"]
  /\ UNCHANGED <<vars, cache, replied, dead, history>>

(* set: the newest entry stays when the cache is full, some other goes;    *)
(* which one is oldest depends on the hits, which are not recorded.        *)
Stored(s) ==
  LET new == [cache EXCEPT ![s] = 0] IN
  IF Cardinality(Cached \cup {s}) <= MaxEntries THEN {new}
  ELSE {[new EXCEPT ![t] = None] : t \in Cached \ {s}}

(* A negative answer is stored as null, which get() takes for a miss.      *)
Receive(g) ==
  /\ lookup[g].at = "answered"
  /\ LET s == lookup[g].sid IN
     \/ lookup[g].active = "yes" /\ cache' \in Stored(s)
     \/ lookup[g].active = "no" /\ cache' = [cache EXCEPT ![s] = None]
  /\ lookup' = [lookup EXCEPT ![g] = Idle]
  /\ UNCHANGED <<vars, replied, dead, history>>

Overdue(g) == lookup[g].at # "idle" /\ lookup[g].age = TimeOut

(* request: the AbortController gives the introspection up.  Its timer is  *)
(* cleared by the headers of the answer; the body, one short line, is      *)
(* taken to come with them.                                                *)
Abort(g) ==
  /\ Overdue(g)
  /\ lookup' = [lookup EXCEPT ![g] = Idle]
  /\ UNCHANGED <<vars, cache, replied, dead, history>>

(* Mutant of Evict: only the token of the caller goes, as cache.delete. *)
EvictOwn(r) == [cache EXCEPT ![CHOOSE s \in Sids : TRUE] = None]

(* evictUser, for the caller whose token came with the request. *)
Evict(r) == [s \in Sids |-> None]

(* An answer that may still be "active" is on its way. *)
UnderWay(g) ==
  \/ lookup[g].at = "matched"
  \/ lookup[g].at = "answered" /\ lookup[g].active = "yes"

(* REVOCATION_PATHS, whose replies all report the end of sessions.  The    *)
(* first are asked by the owner; a reset comes without a token and a forced *)
(* logout with an administrator's, which have no entries of this account.   *)
ByOwner == {"logout", "revokeSession", "logoutAll", "change"}
ByOthers == {"reset", "forceLogout"}

Over == {s \in Sids : tok[s].state # "unissued" /\ ~Accepted(s)}

(* What such a reply reports, and what it overtakes. *)
Reports ==
  /\ ended' = ended \cup Over
  /\ overtaken' = overtaken \cup
       {lookup[g].sid : g \in {h \in Lookups : UnderWay(h)}}

(* evictOnRevocation: what goes is the caller's. *)
EvictOnRevocation(r) ==
  /\ req[r].at = "done" /\ req[r].op # "none" /\ r \notin replied
  /\ replied' = replied \cup {r}
  /\ \/ /\ req[r].op \in ByOwner
        /\ cache' = Evict(r) /\ unevicted' = {} /\ Reports
     \/ /\ req[r].op \in ByOthers
        /\ unevicted' = unevicted \cup (Over \cap Cached)
        /\ Reports /\ UNCHANGED cache
     \/ req[r].op \notin ByOwner \cup ByOthers /\ UNCHANGED <<cache, history>>
  /\ UNCHANGED <<vars, lookup, dead>>

(* get: an entry whose time is over is a miss. *)
Aged(s) ==
  IF cache[s] = None \/ cache[s] + 1 = TTL THEN None ELSE cache[s] + 1

Tick ==
  /\ \A g \in Lookups : ~Overdue(g)
  /\ lookup' = [g \in Lookups |->
       IF lookup[g].at = "idle" THEN Idle
       ELSE [lookup[g] EXCEPT !.age = @ + 1]]
  /\ cache' = [s \in Sids |-> Aged(s)]
  /\ dead' = [s \in Sids |->
       IF tok[s].state = "unissued" \/ Accepted(s) \/ dead[s] > TTL + TimeOut
       THEN dead[s] ELSE dead[s] + 1]
  /\ UNCHANGED <<vars, replied, history>>

GatewaySteps ==
  \/ \E g \in Lookups :
       \/ \E s \in Sids : Ask(g, s)
       \/ IntrospectUser(g) \/ IntrospectSession(g) \/ Receive(g) \/ Abort(g)
  \/ \E r \in Requests : EvictOnRevocation(r)
  \/ Tick

GatewayNext == (Next /\ UNCHANGED gateway) \/ GatewaySteps

GatewaySpec == GatewayInit /\ [][GatewayNext]_gatewayVars
-----------------------------------------------------------------------------

(* The gateway serves a token no longer than TTL + TimeOut after identity  *)
(* has ceased to accept it, whatever ended it and whether or not the reply *)
(* passed by the gateway.                                                  *)
StaleBounded == \A s \in Sids : s \in Cached => dead[s] < TTL + TimeOut

(* Once a reply has reported a revocation, a token it ended is served only *)
(* if an answer about it was on its way at that moment, or if the reply was *)
(* to a reset or a forced logout, which finds it cached and leaves it, and  *)
(* none of the owner's own revocations has been answered since.             *)
OnlyOvertakenServed == ended \cap Cached \subseteq overtaken \cup unevicted

(* Together: how stale the tokens are that the gateway serves.             *)
StaleLimited == StaleBounded /\ OnlyOvertakenServed
=============================================================================
