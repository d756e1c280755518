------------------------ MODULE IdentityProofs ------------------------------
(***************************************************************************)
(* The identity service and the gateway in front of it: rotation of keys,  *)
(* one account under any number of requests, and the gateway's cache.      *)
(***************************************************************************)
EXTENDS Gateway, Keys, SumTheorems

(***************************************************************************)
(* Neither rotation of keys loses what was made before it.                 *)
(***************************************************************************)
(* The inductive invariant: an instance drops the old seed key after a     *)
(* clean run of the script, which leaves no seed behind that was read      *)
(* under another key than the new one or has been written since by an      *)
(* instance not yet promoted; and the old signing key is retired when no   *)
(* token is left that needs it.                                            *)
Renewed(s) == s.key \in {"none", "v2"}
Reads == {"before", "both", "after"}
SeedRecords == [key : {"none", "plain", "v1", "v2"}, of : Nat]
KeysTypeOK ==
  /\ config \in [Instances -> Reads] /\ signer \in [Instances -> Reads]
  /\ seed \in [Holders -> SeedRecords] /\ made \in Nat
  /\ script \in [on : BOOLEAN, left : SUBSET Holders, batch : SUBSET Holders,
                 failed : BOOLEAN, read : [Holders -> SeedRecords]]
  /\ access \in [Signed -> {"none", "v1", "v2"}]
SeedInv ==
  /\ \A u \in Holders : seed[u].key = "none" => seed[u] = NoSeed
  /\ \A i \in Instances : config[i] = "after" => clean
  /\ clean => Promoted(config) /\ \A u \in Holders : Renewed(seed[u])
ScriptInv ==
  /\ script.batch # {} \/ script.left # {} => script.on
  /\ script.on => Promoted(config) /\ ~clean
  /\ script.on => \A u \in Holders \ (script.left \cup script.batch) : Renewed(seed[u])
  /\ \A u \in script.batch : Renewed(script.read[u]) => Renewed(seed[u])
SignInv ==
  \A i \in Instances : signer[i] = "after" =>
    Promoted(signer) /\ \A t \in Signed : access[t] # "v1"
KeysInv == KeysTypeOK /\ SeedInv /\ ScriptInv /\ SignInv

(* What the seeds depend on is left alone by the rotation of signing keys, *)
(* and the other way round.                                                *)
seedVars == <<config, seed, made, script, clean>>
signVars == <<signer, access>>

LEMMA InitInv == KeysInit => KeysInv
<1> SUFFICES ASSUME KeysInit PROVE KeysInv OBVIOUS
<1>1. PICK old \in [Holders -> {"none", "plain", "v1"}] :
        seed = [u \in Holders |-> [key |-> old[u], of |-> 0]]
  BY DEF KeysInit
<1>2. KeysTypeOK
  BY <1>1 DEF KeysInit, KeysTypeOK, Reads, SeedRecords, Resting, NoSeed
<1>3. SeedInv
  BY <1>1 DEF KeysInit, SeedInv, NoSeed
<1>4. ScriptInv
  BY DEF KeysInit, ScriptInv, Resting
<1>5. SignInv
  BY DEF KeysInit, SignInv
<1> QED BY <1>2, <1>3, <1>4, <1>5 DEF KeysInv

LEMMA SeedsKept == KeysInv /\ SeedNext => SeedInv' /\ ScriptInv' /\ UNCHANGED signVars
<1> SUFFICES ASSUME KeysInv, SeedNext PROVE SeedInv' /\ ScriptInv' /\ UNCHANGED signVars
  OBVIOUS
<1> USE DEF KeysInv, KeysTypeOK, signVars
<1>1. ASSUME NEW i \in Instances, Promote(i)
      PROVE  SeedInv' /\ ScriptInv' /\ UNCHANGED signVars
  BY <1>1 DEF Promote, SeedInv, ScriptInv, Promoted, Reads, Renewed
<1>2. ASSUME NEW i \in Instances, Drop(i)
      PROVE  SeedInv' /\ ScriptInv' /\ UNCHANGED signVars
  BY <1>2 DEF Drop, SeedInv, ScriptInv, Promoted, Reads, Renewed
<1>3. ASSUME NEW i \in Instances, NEW u \in Holders, setup2fa(i, u)
      PROVE  SeedInv' /\ ScriptInv' /\ UNCHANGED signVars
  <2>1. \A w \in Holders : seed'[w] = IF w = u THEN [key |-> Active(config[i]), of |-> made']
                                     ELSE seed[w]
    BY <1>3 DEF setup2fa
  <2>2. Promoted(config) => Active(config[i]) = "v2"
    BY DEF Promoted, Active
  <2>3. Active(config[i]) # "none"
    BY DEF Active
  <2>4. UNCHANGED <<config, script, clean, signer, access>>
    BY <1>3 DEF setup2fa
  <2>5. SeedInv'
    BY <2>1, <2>2, <2>3, <2>4 DEF SeedInv, Promoted, Renewed
  <2>6. ScriptInv'
    BY <2>1, <2>2, <2>4 DEF ScriptInv, Promoted, Renewed
  <2> QED BY <2>4, <2>5, <2>6
<1>4. ASSUME NEW i \in Instances, NEW u \in Holders, enable2fa(i, u)
      PROVE  SeedInv' /\ ScriptInv' /\ UNCHANGED signVars
  BY <1>4 DEF enable2fa, SeedInv, ScriptInv, Promoted, Renewed
<1>5. ASSUME NEW i \in Instances, NEW u \in Holders, disable2fa(i, u)
      PROVE  SeedInv' /\ ScriptInv' /\ UNCHANGED signVars
  <2>1. \A w \in Holders : seed'[w] = IF w = u THEN NoSeed ELSE seed[w]
    BY <1>5 DEF disable2fa
  <2>2. UNCHANGED <<config, script, clean, signer, access>>
    BY <1>5 DEF disable2fa
  <2>3. SeedInv' /\ ScriptInv'
    BY <2>1, <2>2 DEF SeedInv, ScriptInv, Promoted, Renewed, NoSeed
  <2> QED BY <2>2, <2>3
<1>6. ASSUME StartScript
      PROVE  SeedInv' /\ ScriptInv' /\ UNCHANGED signVars
  <2>1. script'.left = Holders /\ script'.batch = {} /\ Promoted(config) /\ ~clean
    BY <1>6 DEF StartScript, Resting
  <2>2. UNCHANGED <<config, seed, clean, signer, access>>
    BY <1>6 DEF StartScript
  <2>3. script'.on
    BY <1>6 DEF StartScript, Resting
  <2>4. SeedInv' /\ ScriptInv'
    BY <2>1, <2>2, <2>3 DEF SeedInv, ScriptInv, Promoted, Renewed
  <2> QED BY <2>2, <2>4
<1>7. ASSUME EndScript
      PROVE  SeedInv' /\ ScriptInv' /\ UNCHANGED signVars
  <2>1. script'.left = {} /\ script'.batch = {} /\ ~script'.on
    BY <1>7 DEF EndScript, Resting
  <2>2. UNCHANGED <<config, seed, signer, access>>
    BY <1>7 DEF EndScript
  <2>3. Promoted(config) /\ \A u \in Holders : Renewed(seed[u])
    BY <1>7 DEF EndScript, ScriptInv
  <2>4. ScriptInv'
    BY <2>1, <2>2 DEF ScriptInv
  <2>5. \A i \in Instances : config[i] = "after" => clean'
    BY <1>7 DEF EndScript, SeedInv, ScriptInv
  <2>6. SeedInv'
    BY <2>2, <2>3, <2>5 DEF SeedInv, Promoted, Renewed
  <2> QED BY <2>2, <2>4, <2>6
<1>8. ASSUME StopScript
      PROVE  SeedInv' /\ ScriptInv' /\ UNCHANGED signVars
  <2>1. script'.left = {} /\ script'.batch = {} /\ ~script'.on
    BY <1>8 DEF StopScript, Resting
  <2>2. UNCHANGED <<config, seed, clean, signer, access>>
    BY <1>8 DEF StopScript
  <2>3. SeedInv' /\ ScriptInv'
    BY <2>1, <2>2 DEF SeedInv, ScriptInv, Promoted, Renewed
  <2> QED BY <2>2, <2>3
<1>9. ASSUME NEW fetched \in SUBSET Holders, FetchBatch(fetched)
      PROVE  SeedInv' /\ ScriptInv' /\ UNCHANGED signVars
  <2>1. /\ script'.left = script.left \ fetched /\ script'.batch = fetched
        /\ script'.on = script.on
        /\ \A u \in fetched : script'.read[u] = seed[u]
    BY <1>9 DEF FetchBatch
  <2>2. UNCHANGED <<config, seed, clean, signer, access>>
    BY <1>9 DEF FetchBatch
  <2>3. fetched \subseteq script.left /\ fetched # {} /\ script.batch = {}
    BY <1>9 DEF FetchBatch
  <2>4. script.on
    BY <2>3 DEF ScriptInv
  <2>5. ScriptInv'
    <3>1. Holders \ (script'.left \cup script'.batch) = Holders \ (script.left \cup script.batch)
      BY <2>1, <2>3
    <3> QED BY <2>1, <2>2, <2>4, <3>1 DEF ScriptInv, Promoted, Renewed
  <2>6. SeedInv'
    BY <2>2 DEF SeedInv, Promoted, Renewed
  <2> QED BY <2>2, <2>5, <2>6
<1>10. ASSUME NEW u \in Holders, RotateRow(u)
      PROVE  SeedInv' /\ ScriptInv' /\ UNCHANGED signVars
  <2> DEFINE s == script.read[u]
             written == needsRotation("both", s) /\ Decrypts("both", s)
  <2>1. UNCHANGED <<config, clean, signer, access>> /\ u \in script.batch
    BY <1>10 DEF RotateRow
  <2>2. s \in SeedRecords
    OBVIOUS
  <2>3. ASSUME written PROVE seed'[u].key = "v2" /\ \A w \in Holders \ {u} : seed'[w] = seed[w]
    <3>1. seed' = [seed EXCEPT ![u] = [s EXCEPT !.key = "v2"]]
      BY <1>10, <2>3 DEF RotateRow
    <3> QED BY <2>2, <3>1 DEF SeedRecords
  <2>4. ASSUME ~written PROVE seed' = seed /\ Renewed(seed[u])
    <3>1. seed' = seed
      BY <1>10, <2>4 DEF RotateRow
    <3>2. Renewed(s)
      BY <2>2, <2>4 DEF needsRotation, Decrypts, Active, Previous, SeedRecords, Renewed
    <3> QED BY <2>1, <3>1, <3>2 DEF ScriptInv
  <2>5. /\ \A w \in Holders : Renewed(seed[w]) => Renewed(seed'[w])
        /\ \A w \in Holders : seed'[w].key = "none" => seed'[w] = NoSeed
        /\ Renewed(seed'[u])
    <3>1. CASE written
      BY <2>3, <3>1 DEF SeedInv, Renewed
    <3>2. CASE ~written
      BY <2>4, <3>2 DEF SeedInv, Renewed
    <3> QED BY <3>1, <3>2
  <2>6. /\ script'.batch = script.batch \ {u} /\ script'.left = script.left
        /\ script'.on = script.on
        /\ \A w \in Holders \ {u} : script'.read[w] = script.read[w]
    BY <1>10 DEF RotateRow
  <2>7. SeedInv'
    BY <2>1, <2>5 DEF SeedInv, Promoted
  <2>8. ScriptInv'
    <3>1. \A w \in script'.batch : w \in script.batch /\ w # u /\ w \in Holders
      BY <2>6
    <3>2. \A w \in script'.batch : Renewed(script'.read[w]) => Renewed(seed'[w])
      BY <2>5, <2>6, <3>1 DEF ScriptInv
    <3>3. script'.on =>
            \A w \in Holders \ (script'.left \cup script'.batch) : Renewed(seed'[w])
      BY <2>5, <2>6 DEF ScriptInv
    <3> QED BY <2>1, <2>6, <3>2, <3>3 DEF ScriptInv, Promoted
  <2> QED BY <2>1, <2>7, <2>8
<1> QED
  BY <1>1, <1>2, <1>3, <1>4, <1>5, <1>6, <1>7, <1>8, <1>9, <1>10 DEF SeedNext

LEMMA SignKept == KeysInv /\ SignNext => SignInv' /\ UNCHANGED seedVars
<1> SUFFICES ASSUME KeysInv, SignNext PROVE SignInv' /\ UNCHANGED seedVars
  OBVIOUS
<1> USE DEF KeysInv, KeysTypeOK, seedVars, SignInv, Promoted, Reads
<1>1. ASSUME NEW i \in Instances, PromoteSigner(i) PROVE SignInv' /\ UNCHANGED seedVars
  BY <1>1 DEF PromoteSigner
<1>2. ASSUME NEW i \in Instances, RetireSigner(i) PROVE SignInv' /\ UNCHANGED seedVars
  BY <1>2 DEF RetireSigner
<1>3. ASSUME NEW i \in Instances, NEW t \in Signed, signAccessToken(i, t)
      PROVE  SignInv' /\ UNCHANGED seedVars
  BY <1>3 DEF signAccessToken, Active
<1>4. ASSUME NEW t \in Signed, Expire(t) PROVE SignInv' /\ UNCHANGED seedVars
  BY <1>4 DEF Expire
<1> QED BY <1>1, <1>2, <1>3, <1>4 DEF SignNext

LEMMA TypeKept == KeysTypeOK /\ (SeedNext \/ SignNext) => KeysTypeOK'
<1> SUFFICES ASSUME KeysTypeOK, SeedNext \/ SignNext PROVE KeysTypeOK'
  OBVIOUS
<1> USE DEF KeysTypeOK, Reads
<1>1. ASSUME NEW i \in Instances, Promote(i) \/ Drop(i) PROVE KeysTypeOK'
  BY <1>1 DEF Promote, Drop
<1>2. ASSUME NEW i \in Instances, NEW u \in Holders, setup2fa(i, u) PROVE KeysTypeOK'
  <2>1. [key |-> Active(config[i]), of |-> made'] \in SeedRecords /\ made' \in Nat
    BY <1>2 DEF setup2fa, Active, SeedRecords
  <2> QED BY <1>2, <2>1 DEF setup2fa
<1>3. ASSUME NEW i \in Instances, NEW u \in Holders, enable2fa(i, u) PROVE KeysTypeOK'
  BY <1>3 DEF enable2fa
<1>4. ASSUME NEW i \in Instances, NEW u \in Holders, disable2fa(i, u) PROVE KeysTypeOK'
  BY <1>4 DEF disable2fa, NoSeed, SeedRecords
<1>5. ASSUME StartScript \/ EndScript \/ StopScript PROVE KeysTypeOK'
  <2>1. Resting \in [on : BOOLEAN, left : SUBSET Holders, batch : SUBSET Holders,
                    failed : BOOLEAN, read : [Holders -> SeedRecords]]
    BY DEF Resting, NoSeed, SeedRecords
  <2>2. CASE StartScript
    <3>1. script'.read = [u \in Holders |-> NoSeed] /\ NoSeed \in SeedRecords
      BY <2>2 DEF StartScript, Resting, NoSeed, SeedRecords
    <3>2. script' = [on |-> TRUE, left |-> Holders, batch |-> {}, failed |-> FALSE,
                     read |-> [u \in Holders |-> NoSeed]]
      BY <2>2 DEF StartScript, Resting
    <3>3. script' \in [on : BOOLEAN, left : SUBSET Holders, batch : SUBSET Holders,
                      failed : BOOLEAN, read : [Holders -> SeedRecords]]
      BY <3>1, <3>2
    <3>4. UNCHANGED <<config, signer, seed, made, access>>
      BY <2>2 DEF StartScript
    <3> QED BY <3>3, <3>4
  <2>3. CASE EndScript \/ StopScript
    BY <2>1, <2>3 DEF EndScript, StopScript
  <2> QED BY <1>5, <2>2, <2>3
<1>6. ASSUME NEW fetched \in SUBSET Holders, FetchBatch(fetched) PROVE KeysTypeOK'
  <2>1. [u \in Holders |-> IF u \in fetched THEN seed[u] ELSE NoSeed] \in [Holders -> SeedRecords]
    BY DEF NoSeed, SeedRecords
  <2> QED BY <1>6, <2>1 DEF FetchBatch
<1>7. ASSUME NEW u \in Holders, RotateRow(u) PROVE KeysTypeOK'
  <2>1. script.read[u] \in SeedRecords /\ NoSeed \in SeedRecords
    BY DEF NoSeed, SeedRecords
  <2>2. [script.read[u] EXCEPT !.key = "v2"] \in SeedRecords
    BY <2>1 DEF SeedRecords
  <2>3. seed' \in [Holders -> SeedRecords]
    BY <1>7, <2>2 DEF RotateRow
  <2>4. PICK f \in BOOLEAN : script' = [script EXCEPT !.batch = @ \ {u}, !.read[u] = NoSeed,
                                                     !.failed = f]
    BY <1>7 DEF RotateRow
  <2>5. UNCHANGED <<config, signer, made, access>>
    BY <1>7 DEF RotateRow
  <2> QED BY <2>1, <2>3, <2>4, <2>5
<1>8. ASSUME NEW i \in Instances, PromoteSigner(i) \/ RetireSigner(i) PROVE KeysTypeOK'
  BY <1>8 DEF PromoteSigner, RetireSigner
<1>9. ASSUME NEW i \in Instances, NEW t \in Signed, signAccessToken(i, t) PROVE KeysTypeOK'
  BY <1>9 DEF signAccessToken, Active
<1>10. ASSUME NEW t \in Signed, Expire(t) PROVE KeysTypeOK'
  BY <1>10 DEF Expire
<1> QED
  BY <1>1, <1>2, <1>3, <1>4, <1>5, <1>6, <1>7, <1>8, <1>9, <1>10 DEF SeedNext, SignNext

LEMMA InvKept == KeysInv /\ [SeedNext \/ SignNext]_keysVars => KeysInv'
<1> SUFFICES ASSUME KeysInv, [SeedNext \/ SignNext]_keysVars PROVE KeysInv'
  OBVIOUS
<1>1. CASE SeedNext
  <2>1. SignInv'
    BY <1>1, SeedsKept DEF KeysInv, SignInv, signVars, Promoted
  <2> QED BY <1>1, <2>1, SeedsKept, TypeKept DEF KeysInv
<1>2. CASE SignNext
  <2>1. SeedInv' /\ ScriptInv'
    BY <1>2, SignKept DEF KeysInv, SeedInv, ScriptInv, seedVars, Promoted, Renewed
  <2> QED BY <1>2, <2>1, SignKept, TypeKept DEF KeysInv
<1>3. CASE UNCHANGED keysVars
  BY <1>3 DEF KeysInv, KeysTypeOK, SeedInv, ScriptInv, SignInv, keysVars, Promoted, Renewed
<1> QED BY <1>1, <1>2, <1>3

LEMMA InvOverlaps == KeysInv => KeysOverlap
<1> SUFFICES ASSUME KeysInv PROVE KeysOverlap OBVIOUS
<1> USE DEF KeysInv, KeysTypeOK, Reads
<1>1. ASSUME NEW i \in Instances, NEW u \in Holders, config[i] # "before", seed[u] # NoSeed
      PROVE  Decrypts(config[i], seed[u])
  <2>1. seed[u].key \in {"plain", "v1", "v2"}
    BY <1>1 DEF SeedInv, SeedRecords
  <2>2. config[i] = "after" => seed[u].key = "v2"
    BY <2>1 DEF SeedInv, Renewed
  <2> QED BY <1>1, <2>1, <2>2 DEF Decrypts, Active, Previous
<1>2. ASSUME NEW i \in Instances, NEW t \in Signed,
             access[t] = "v1" \/ (access[t] = "v2" /\ signer[i] # "before")
      PROVE  getVerificationKey(signer[i], access[t])
  BY <1>2 DEF SignInv, getVerificationKey, Active, Previous
<1> QED BY <1>1, <1>2 DEF KeysOverlap, SeedsReadable, TokensOverlap

(* Every stored seed can be decrypted and every token verified while keys  *)
(* are rotated instance by instance, and afterwards, wherever the script   *)
(* stops and whatever users do meanwhile.                                  *)
THEOREM KeysOverlapHolds == KeysSpec => []KeysOverlap
<1>1. KeysInv /\ [SeedNext \/ SignNext]_keysVars => KeysInv'
  BY InvKept
<1> QED BY InitInv, InvOverlaps, <1>1, PTL DEF KeysSpec

-----------------------------------------------------------------------------
(***************************************************************************)
(* One account.  What a login has read is never ahead of the account, and  *)
(* nobody has revoked all sessions since if the version is still the same; *)
(* what a transaction has read was open then.                              *)
(***************************************************************************)
TokRecords == [state : {"unissued", "open", "spent"}, version : Nat, era : Nat, tries : Nat]

(* What the argument needs of a record is that it has certain fields. *)
ReqShape(a) == {"op", "at", "seen", "era", "key", "base", "snap"} \subseteq DOMAIN a
UserShape(u) == {"status", "version", "codes"} \subseteq DOMAIN u

DocsTyped ==
  /\ tok \in [Keys -> TokRecords] /\ UserShape(user) /\ user.version \in Nat /\ era \in Nat
  /\ uses \in [Keys \cup Codes -> Nat]
ReqTyped == req = [q \in Requests |-> req[q]] /\ \A q \in Requests : ReqShape(req[q])

(* The other services hear of the end of the session. *)
Told(s) ==
  \/ <<"session-revoked", s>> \in rows
  \/ \E v \in 1..user.version : v > tok[s].version /\ <<"all-sessions-revoked", v>> \in rows
  \/ uses[s] = 1

TokenSound(k) ==
  /\ tok[k].version <= user.version /\ tok[k].tries <= MaxTries
  /\ tok[k].state = "open" /\ tok[k].version = user.version => tok[k].era = era
  /\ uses[k] <= 1 /\ (tok[k].state # "spent" => uses[k] = 0)
  /\ k \in Sids /\ tok[k].state = "spent" => Told(k)
  /\ k \in Sids /\ tok[k].state # "unissued" => user.status = "active"

CodesSound ==
  /\ user.codes \subseteq dealt /\ dealt \subseteq Codes
  /\ \A c \in Codes : uses[c] \in {0, 1} /\ (c \in user.codes \/ c \notin dealt => uses[c] = 0)

(* Before there is an account nobody has mail about it. *)
NoneSound ==
  user.status = "none" =>
    user.version = 0 /\ \A k \in Mails \cup Otps : tok[k].state = "unissued"

ReqSound(r) ==
  /\ req[r].op = "login" =>
       /\ user.status = "active" /\ req[r].era \in Nat
       /\ req[r].seen.version \in Nat /\ req[r].seen.version <= user.version
       /\ req[r].seen.version = user.version => req[r].era = era
  /\ req[r].at = "commit" =>
       /\ user.status # "none" /\ DOMAIN req[r].snap \subseteq Keys
       /\ \A k \in DOMAIN req[r].snap : req[r].snap[k].state = "open"
       /\ req[r].op = "mail" => DOMAIN req[r].snap \subseteq Mails
       /\ req[r].op = "forgot" => DOMAIN req[r].snap \subseteq Otps
       /\ req[r].op = "reset" => req[r].key \in DOMAIN req[r].snap
  /\ req[r].op = "change" /\ req[r].at = "begin" => user.status # "none"
  /\ req[r].op = "login" /\ req[r].at = "spend" => req[r].key \in PreAuths
  /\ req[r].op \in {"passkey", "assert"} /\ req[r].at = "claim" => req[r].key \in Challenges
  /\ req[r].op = "reset" /\ req[r].at \in {"burn", "begin"} => req[r].key \in Otps

AccountsInv ==
  /\ DocsTyped /\ ReqTyped /\ CodesSound /\ NoneSound
  /\ \A k \in Keys : TokenSound(k)
  /\ \A r \in Requests : ReqSound(r)

(* What a step may do to the account, and to a token. *)
UserGrows ==
  /\ UserShape(user)' /\ user'.version \in Nat /\ user.version <= user'.version /\ era' \in Nat
  /\ user'.version = user.version => era' = era
  /\ user.status # "none" => user'.status # "none"
  /\ user.status = "active" => user'.status = "active"

Kept(k) == tok'[k] = tok[k] /\ uses'[k] = uses[k]
Issued(k) ==
  /\ tok[k].state = "unissued" /\ uses'[k] = uses[k] /\ (k \in Sids => user'.status = "active")
  /\ \E v, e \in Nat :
       /\ tok'[k] = [state |-> "open", version |-> v, era |-> e, tries |-> 0]
       /\ v <= user'.version /\ (v = user'.version => e = era')
Used(k) ==
  tok[k].state = "open" /\ tok'[k] = [tok[k] EXCEPT !.state = "spent"] /\ uses'[k] = uses[k] + 1
Ended(k) ==
  /\ tok[k].state # "unissued" /\ tok'[k] = [tok[k] EXCEPT !.state = "spent"] /\ uses'[k] = uses[k]
  /\ k \in Sids => Told(k)'
Tried(k) ==
  /\ tok[k].tries < MaxTries /\ tok'[k] = [tok[k] EXCEPT !.tries = @ + 1]
  /\ uses'[k] = uses[k]

TokensMove ==
  /\ tok' = [k \in Keys |-> tok'[k]] /\ uses' = [k \in Keys \cup Codes |-> uses'[k]]
  /\ \A k \in Keys : Kept(k) \/ Issued(k) \/ Used(k) \/ Ended(k) \/ Tried(k)
ReqMoves(r) ==
  /\ req' = [q \in Requests |-> req'[q]] /\ ReqShape(req'[r])
  /\ \A q \in Requests \ {r} : req'[q] = req[q]
(* So an account that is active stays so, its version only grows, and a    *)
(* token that was issued keeps its version and is never opened again.      *)
Advances ==
  /\ user.version <= user'.version /\ (user.status = "active" => user'.status = "active")
  /\ \A k \in Keys : tok[k].state # "unissued" =>
       /\ tok'[k].version = tok[k].version /\ tok'[k].state # "unissued"
       /\ tok[k].state # "open" => tok'[k].state # "open"

LEMMA TokenStep ==
  ASSUME AccountsInv, UserGrows, rows \subseteq rows', NEW k \in Keys,
         Kept(k) \/ Issued(k) \/ Used(k) \/ Ended(k) \/ Tried(k)
  PROVE  tok'[k] \in TokRecords /\ uses'[k] \in Nat /\ TokenSound(k)'
<1>0. /\ tok[k] \in TokRecords /\ uses[k] \in Nat /\ user.version \in Nat /\ era \in Nat
      /\ TokenSound(k) /\ MaxTries \in Nat
  BY AccountsConstants DEF AccountsInv, DocsTyped
<1>1. tok'[k].version = tok[k].version /\ uses'[k] = uses[k] /\ Told(k) => Told(k)'
  <2>1. user.version <= user'.version /\ user'.version \in Nat
    BY DEF UserGrows
  <2> QED BY <1>0, <2>1 DEF Told
<1>2. CASE Kept(k)
  BY <1>0, <1>1, <1>2 DEF Kept, TokenSound, UserGrows, TokRecords
<1>3. CASE Issued(k)
  BY <1>0, <1>3 DEF Issued, TokenSound, UserGrows, TokRecords
<1>4. CASE Used(k)
  BY <1>0, <1>4 DEF Used, TokenSound, UserGrows, TokRecords, Told
<1>5. CASE Ended(k)
  BY <1>0, <1>5 DEF Ended, TokenSound, UserGrows, TokRecords
<1>6. CASE Tried(k)
  <2>1. /\ tok'[k].state = tok[k].state /\ tok'[k].version = tok[k].version
        /\ tok'[k].era = tok[k].era /\ tok'[k].tries = tok[k].tries + 1
        /\ tok'[k] \in TokRecords
    BY <1>0, <1>6 DEF Tried, TokRecords
  <2> QED BY <1>0, <1>1, <1>6, <2>1 DEF Tried, TokenSound, UserGrows, TokRecords
<1> QED BY <1>2, <1>3, <1>4, <1>5, <1>6

LEMMA StepKeeps ==
  ASSUME AccountsInv, NEW r \in Requests, UserGrows, rows \subseteq rows', TokensMove,
         CodesSound', NoneSound', ReqMoves(r), ReqSound(r)'
  PROVE  AccountsInv' /\ Advances
<1>1. \A k \in Keys : tok'[k] \in TokRecords /\ uses'[k] \in Nat /\ TokenSound(k)'
  BY TokenStep DEF TokensMove
<1>2. DocsTyped'
  BY <1>1 DEF DocsTyped, TokensMove, UserGrows, CodesSound
<1>3. ReqTyped'
  BY DEF ReqTyped, ReqMoves, AccountsInv
<1>4. \A q \in Requests : ReqSound(q)'
  <2> SUFFICES ASSUME NEW q \in Requests \ {r} PROVE ReqSound(q)'
    OBVIOUS
  <2>1. ReqSound(q) /\ req'[q] = req[q] /\ user.version \in Nat
    BY DEF AccountsInv, ReqMoves, DocsTyped
  <2> QED BY <2>1 DEF ReqSound, UserGrows
<1>5. Advances
  <2> SUFFICES ASSUME NEW k \in Keys, tok[k].state # "unissued"
               PROVE  /\ tok'[k].version = tok[k].version /\ tok'[k].state # "unissued"
                      /\ tok[k].state # "open" => tok'[k].state # "open"
    BY DEF Advances, UserGrows
  <2>1. tok[k] \in TokRecords /\ (Kept(k) \/ Used(k) \/ Ended(k) \/ Tried(k))
    BY DEF TokensMove, Issued, AccountsInv, DocsTyped
  <2> QED BY <2>1 DEF Kept, Used, Ended, Tried, TokRecords
<1> QED BY <1>1, <1>2, <1>3, <1>4, <1>5 DEF AccountsInv

(* Requests: how they move, whatever happens to the documents. *)
LEMMA DoneSound ==
  ASSUME AccountsInv, NEW r \in Requests, NEW op, op # "login",
         req' = [req EXCEPT ![r] = [Done EXCEPT !.op = op]]
  PROVE  ReqMoves(r) /\ ReqSound(r)'
<1>1. /\ ReqShape([Done EXCEPT !.op = op]) /\ [Done EXCEPT !.op = op].at = "done"
      /\ [Done EXCEPT !.op = op].op = op
  BY DEF ReqShape, Done, Fresh
<1> HIDE DEF Done
<1>2. req'[r] = [Done EXCEPT !.op = op] /\ ReqMoves(r)
  BY <1>1 DEF AccountsInv, ReqTyped, ReqMoves
<1> QED BY <1>1, <1>2 DEF ReqSound

LEMMA AnswerSound ==
  ASSUME AccountsInv, NEW r \in Requests, Answer(r)
  PROVE  ReqMoves(r) /\ ReqSound(r)'
<1>1. ReqShape(Done) /\ Done.at = "done" /\ Done.op = "none"
  BY DEF ReqShape, Done, Fresh
<1> HIDE DEF Done
<1>2. req'[r] = Done /\ ReqMoves(r)
  BY <1>1 DEF AccountsInv, ReqTyped, ReqMoves, Answer
<1> QED BY <1>1, <1>2 DEF ReqSound

LEMMA LoadSound ==
  ASSUME AccountsInv, NEW r \in Requests, NEW op, NEW at, NEW key, NEW pw,
         Load(r, op, at, key, pw), UNCHANGED <<user, era>>, at # "commit",
         op = "login" => user.status = "active", op = "change" => user.status # "none",
         op = "login" /\ at = "spend" => key \in PreAuths,
         op \in {"passkey", "assert"} => key \in Challenges,
         op = "reset" => key \in Otps
  PROVE  ReqMoves(r) /\ ReqSound(r)'
<1> DEFINE asked == [Fresh EXCEPT !.op = op, !.at = at, !.seen = user, !.era = era,
                                  !.key = key, !.pw = pw]
<1>1. /\ ReqShape(asked) /\ asked.op = op /\ asked.at = at /\ asked.seen = user
      /\ asked.era = era /\ asked.key = key
  BY DEF ReqShape, Fresh
<1>2. req' = [req EXCEPT ![r] = asked]
  BY DEF Load
<1> HIDE DEF asked
<1>3. req'[r] = asked /\ ReqMoves(r)
  BY <1>1, <1>2 DEF AccountsInv, ReqTyped, ReqMoves
<1> QED BY <1>1, <1>3 DEF ReqSound, AccountsInv, DocsTyped

LEMMA GotoSound ==
  ASSUME AccountsInv, NEW r \in Requests, NEW at, Goto(r, at), UserGrows,
         at \notin {"commit", "spend", "claim", "burn"},
         req[r].op # "change", req[r].op = "reset" => req[r].key \in Otps
  PROVE  ReqMoves(r) /\ ReqSound(r)'
<1>1. ReqShape(req[r]) /\ ReqSound(r) /\ user.version \in Nat
  BY DEF AccountsInv, ReqTyped, DocsTyped
<1>2. /\ ReqShape(req'[r]) /\ req'[r].at = at /\ req'[r].op = req[r].op
      /\ req'[r].seen = req[r].seen /\ req'[r].era = req[r].era /\ req'[r].key = req[r].key
  BY <1>1 DEF Goto, ReqShape, AccountsInv, ReqTyped
<1>3. ReqMoves(r)
  BY <1>2 DEF Goto, AccountsInv, ReqTyped, ReqMoves
<1> QED BY <1>1, <1>2, <1>3 DEF ReqSound, UserGrows

LEMMA SnapshotSound ==
  ASSUME AccountsInv, NEW r \in Requests, NEW op, NEW K \in SUBSET Keys, Snapshot(r, op, K),
         UNCHANGED user, user.status # "none", op # "login",
         op = "mail" => K \subseteq Mails, op = "forgot" => K \subseteq Otps,
         op = "reset" => req[r].key \in Open(K)
  PROVE  ReqMoves(r) /\ ReqSound(r)'
<1> DEFINE snap == [k \in Open(K) |-> tok[k]]
<1>1. /\ DOMAIN snap \subseteq K /\ DOMAIN snap = Open(K)
      /\ \A k \in DOMAIN snap : snap[k].state = "open"
  BY DEF Open
<1>2. ReqShape(req[r])
  BY DEF AccountsInv, ReqTyped
<1>3. req' = [req EXCEPT ![r].op = op, ![r].at = "commit", ![r].base = user, ![r].snap = snap]
  BY DEF Snapshot
<1> HIDE DEF snap
<1>4. /\ ReqShape(req'[r]) /\ req'[r].at = "commit" /\ req'[r].op = op
      /\ req'[r].snap = snap /\ req'[r].key = req[r].key
  BY <1>2, <1>3 DEF ReqShape, AccountsInv, ReqTyped
<1>5. ReqMoves(r)
  BY <1>3, <1>4 DEF AccountsInv, ReqTyped, ReqMoves
<1> QED BY <1>1, <1>4, <1>5 DEF ReqSound

(* Steps that leave the documents alone, and those that leave the tokens. *)
LEMMA UserKept ==
  ASSUME AccountsInv, UNCHANGED <<user, era>> PROVE UserGrows
BY DEF AccountsInv, DocsTyped, UserGrows

LEMMA TokensKept ==
  ASSUME AccountsInv, UNCHANGED <<tok, uses>> PROVE TokensMove
BY DEF AccountsInv, DocsTyped, TokensMove, Kept

LEMMA NoneKept ==
  ASSUME AccountsInv, UserGrows,
         user.status = "none" => UNCHANGED tok /\ user'.version = user.version
  PROVE  NoneSound'
BY DEF AccountsInv, NoneSound, UserGrows

LEMMA DocsKept ==
  ASSUME AccountsInv, NEW r \in Requests, UNCHANGED docs, ReqMoves(r), ReqSound(r)'
  PROVE  AccountsInv' /\ Advances
<1>1. UNCHANGED <<user, tok, uses, rows, dealt, era>>
  BY DEF docs
<1>2. UserGrows /\ TokensMove
  BY <1>1, UserKept, TokensKept
<1>3. CodesSound'
  BY <1>1 DEF AccountsInv, CodesSound
<1>4. NoneSound'
  BY <1>1, <1>2, NoneKept
<1> QED BY <1>1, <1>2, <1>3, <1>4, StepKeeps

LEMMA TokensChange ==
  ASSUME AccountsInv, NEW r \in Requests, UNCHANGED <<user, dealt, era>>, rows \subseteq rows',
         TokensMove, \A c \in Codes : uses'[c] = uses[c],
         user.status # "none" \/ \A k \in Mails \cup Otps : tok'[k] = tok[k],
         ReqMoves(r), ReqSound(r)'
  PROVE  AccountsInv' /\ Advances
<1>1. UserGrows
  BY UserKept
<1>2. CodesSound'
  BY DEF AccountsInv, CodesSound
<1>3. NoneSound'
  BY DEF AccountsInv, NoneSound
<1> QED BY <1>1, <1>2, <1>3, StepKeeps

LEMMA UserChange ==
  ASSUME AccountsInv, NEW r \in Requests, UNCHANGED <<tok, rows, era>>,
         UserShape(user)', user'.version = user.version, user'.status = user.status,
         uses' = [k \in Keys \cup Codes |-> uses'[k]], \A k \in Keys : uses'[k] = uses[k],
         CodesSound', ReqMoves(r), ReqSound(r)'
  PROVE  AccountsInv' /\ Advances
<1>1. UserGrows
  BY DEF AccountsInv, DocsTyped, UserGrows
<1>2. TokensMove
  BY DEF AccountsInv, DocsTyped, TokensMove, Kept
<1>3. NoneSound'
  BY <1>1, NoneKept
<1> QED BY <1>1, <1>2, <1>3, StepKeeps

(* A new token, or one used up. *)
LEMMA IssueMoves ==
  ASSUME AccountsInv, NEW k \in Keys, tok[k].state = "unissued", NEW v \in Nat, NEW e \in Nat,
         v <= user'.version, v = user'.version => e = era', k \in Sids => user'.status = "active",
         tok' = Issue(k, v, e), UNCHANGED uses
  PROVE  TokensMove /\ \A j \in Keys \ {k} : tok'[j] = tok[j]
<1>1. tok \in [Keys -> TokRecords] /\ uses = [j \in Keys \cup Codes |-> uses[j]]
  BY DEF AccountsInv, DocsTyped
<1>2. /\ tok'[k] = [state |-> "open", version |-> v, era |-> e, tries |-> 0]
      /\ tok' = [j \in Keys |-> tok'[j]] /\ \A j \in Keys \ {k} : tok'[j] = tok[j]
  BY <1>1 DEF Issue
<1>3. Issued(k) /\ \A j \in Keys \ {k} : Kept(j)
  BY <1>2 DEF Issued, Kept
<1> QED BY <1>1, <1>2, <1>3 DEF TokensMove

LEMMA SpendMoves ==
  ASSUME AccountsInv, NEW k \in Keys, tok[k].state = "open", Spend(k)
  PROVE  /\ TokensMove /\ \A c \in Codes : uses'[c] = uses[c]
         /\ \A j \in Keys \ {k} : tok'[j] = tok[j]
<1>1. /\ tok \in [Keys -> TokRecords] /\ uses \in [Keys \cup Codes -> Nat]
      /\ Codes \cap Keys = {}
  BY AccountsConstants DEF AccountsInv, DocsTyped, Keys
<1>2. /\ tok'[k] = [tok[k] EXCEPT !.state = "spent"] /\ tok' = [j \in Keys |-> tok'[j]]
      /\ \A j \in Keys \ {k} : tok'[j] = tok[j]
  BY <1>1 DEF Spend, Spent
<1>3. /\ uses' = [uses EXCEPT ![k] = @ + 1] /\ uses' = [j \in Keys \cup Codes |-> uses'[j]]
  BY <1>1 DEF Spend
<1>4. Used(k) /\ \A j \in Keys \ {k} : Kept(j)
  BY <1>1, <1>2, <1>3 DEF Used, Kept
<1> QED BY <1>1, <1>2, <1>3, <1>4 DEF TokensMove

LEMMA UnissuedOnes ==
  ASSUME NEW K, NEW k \in Unissued(K) PROVE k \in K /\ tok[k].state = "unissued"
<1> DEFINE free == {j \in K : tok[j].state = "unissued"}
<1>1. free # {} /\ k \in {CHOOSE j \in free : TRUE}
  BY DEF Unissued
<1> QED BY <1>1

LEMMA EndsKept ==
  ASSUME AccountsInv, NEW r \in Requests, NEW m \in Keys, tok[m].state = "unissued",
         Unwritten(r), req[r].at = "commit", UNCHANGED <<user, era, uses, rows>>,
         DOMAIN req[r].snap \cap Sids = {}, m \notin Sids,
         tok' = Spent(Issue(m, 0, era), DOMAIN req[r].snap)
  PROVE  TokensMove
<1> DEFINE S == DOMAIN req[r].snap
<1>0. /\ tok \in [Keys -> TokRecords] /\ uses = [k \in Keys \cup Codes |-> uses[k]]
      /\ user.version \in Nat /\ era \in Nat
  BY DEF AccountsInv, DocsTyped
<1>1. S \subseteq Keys /\ \A k \in S : tok[k].state = "open"
  BY DEF AccountsInv, ReqSound, Unwritten
<1> HIDE DEF S
<1>2. /\ tok' = [k \in Keys |-> tok'[k]]
      /\ \A k \in Keys : tok'[k] = IF k \in S THEN [Issue(m, 0, era)[k] EXCEPT !.state = "spent"]
                                   ELSE Issue(m, 0, era)[k]
  BY DEF Spent, S
<1>3. /\ Issue(m, 0, era)[m] = [state |-> "open", version |-> 0, era |-> era, tries |-> 0]
      /\ \A k \in Keys \ {m} : Issue(m, 0, era)[k] = tok[k]
  BY <1>0 DEF Issue
<1>4. m \notin S
  BY <1>1
<1>5. Issued(m)
  <2>1. tok'[m] = [state |-> "open", version |-> 0, era |-> era, tries |-> 0]
    BY <1>2, <1>3, <1>4
  <2>2. 0 \in Nat /\ 0 <= user'.version /\ era = era' /\ uses'[m] = uses[m]
    BY <1>0
  <2> QED BY <1>0, <2>1, <2>2 DEF Issued
<1>6. \A k \in Keys \ {m} : IF k \in S THEN Ended(k) ELSE Kept(k)
  <2>1. S \cap Sids = {}
    BY DEF S
  <2> QED BY <1>1, <1>2, <1>3, <2>1 DEF Ended, Kept
<1> QED BY <1>0, <1>2, <1>5, <1>6 DEF TokensMove

LEMMA FirstFactorKeeps ==
  ASSUME AccountsInv, NEW r \in Requests, FirstFactor(r)
  PROVE  AccountsInv' /\ Advances
<1>0. /\ DocsTyped /\ ReqTyped /\ CodesSound /\ NoneSound /\ ReqSound(r)
      /\ user.version \in Nat /\ era \in Nat /\ UserShape(user) /\ ReqShape(req[r])
      /\ uses = [k \in Keys \cup Codes |-> uses[k]]
  BY DEF AccountsInv, DocsTyped, ReqTyped
<1>00. /\ Mails \subseteq Keys /\ PreAuths \subseteq Keys /\ Sids \subseteq Keys
       /\ Otps \subseteq Keys /\ (Mails \cup Otps) \cap Sids = {}
       /\ (Mails \cup Otps) \cap PreAuths = {}
  BY AccountsConstants DEF Keys
<1>1. ASSUME NEW pw \in Passwords, Register(r, pw) \/ Login(r, pw) PROVE AccountsInv' /\ Advances
  BY <1>0, <1>1, LoadSound, DocsKept DEF Register, Login, docs
<1>2. CASE RequestMail(r)
  BY <1>0, <1>00, <1>2, SnapshotSound, DocsKept DEF RequestMail, docs
<1>3. CASE GoogleLogin(r) \/ GoogleSignUp(r)
  BY <1>0, <1>3, LoadSound, DocsKept DEF GoogleLogin, GoogleSignUp, docs
<1>4. CASE RegisterCreate(r)
  <2>1. ReqMoves(r) /\ ReqSound(r)'
    BY <1>4, AnswerSound DEF RegisterCreate
  <2>2. CASE UNCHANGED <<user, tok, rows>>
    BY <1>4, <2>1, <2>2, DocsKept DEF RegisterCreate, docs
  <2>3. ASSUME user.status = "none", NEW m \in Unissued(Mails), tok' = Issue(m, 0, era),
               user' = [Unregistered EXCEPT !.status = "inactive", !.password = req[r].pw],
               rows \subseteq rows', UNCHANGED <<dealt, era, uses>>
        PROVE  AccountsInv' /\ Advances
    <3>1. /\ user'.version = 0 /\ user'.status = "inactive" /\ user'.codes = {}
          /\ UserShape(user)' /\ user.version = 0
      BY <1>0, <2>3 DEF Unregistered, UserShape, NoneSound
    <3>2. UserGrows
      BY <1>0, <2>3, <3>1 DEF UserGrows
    <3>3. m \in Keys /\ m \notin Sids /\ tok[m].state = "unissued"
      BY <1>00, UnissuedOnes
    <3>4. TokensMove
      BY <1>0, <2>3, <3>1, <3>3, IssueMoves
    <3>5. CodesSound'
      BY <1>0, <2>3, <3>1 DEF CodesSound
    <3>6. NoneSound'
      BY <3>1 DEF NoneSound
    <3> QED BY <2>1, <2>3, <3>2, <3>4, <3>5, <3>6, StepKeeps
  <2> QED BY <1>4, <2>2, <2>3 DEF RegisterCreate, Insert
<1>5. CASE IssueMail(r)
  <2>1. ReqMoves(r) /\ ReqSound(r)'
    BY <1>5, AnswerSound DEF IssueMail
  <2>2. /\ user.status # "none" /\ DOMAIN req[r].snap \subseteq Mails /\ req[r].at = "commit"
        /\ UNCHANGED <<user, rows, dealt, era, uses, mailed, passkey, signed>>
    BY <1>0, <1>5 DEF IssueMail, At, ReqSound
  <2>3. CASE UNCHANGED tok
    BY <2>1, <2>2, <2>3, DocsKept DEF docs
  <2>4. ASSUME Unwritten(r), NEW m \in Unissued(Mails),
               tok' = Spent(Issue(m, 0, era), DOMAIN req[r].snap)
        PROVE  AccountsInv' /\ Advances
    <3>1. m \in Keys /\ m \notin Sids /\ tok[m].state = "unissued"
      BY <1>00, UnissuedOnes
    <3>2. TokensMove
      BY <1>00, <2>2, <2>4, <3>1, EndsKept
    <3> QED BY <2>1, <2>2, <3>2, TokensChange
  <2> QED BY <1>5, <2>3, <2>4 DEF IssueMail
<1>6. ASSUME NEW m \in Mails, ConfirmMail(r, m) PROVE AccountsInv' /\ Advances
  <2>1. ReqMoves(r) /\ ReqSound(r)'
    BY <1>6, AnswerSound DEF ConfirmMail
  <2>2. /\ TokensMove /\ \A c \in Codes : uses'[c] = uses[c]
    BY <1>00, <1>6, SpendMoves DEF ConfirmMail
  <2>3. /\ user' = [user EXCEPT !.email = "verified", !.version = @ + 1,
                      !.status = IF @ = "inactive" THEN "active" ELSE @]
        /\ rows \subseteq rows' /\ UNCHANGED <<dealt, era>> /\ user.status # "none"
    BY <1>0, <1>6 DEF ConfirmMail, Insert, NoneSound
  <2>4. /\ user'.version = user.version + 1 /\ user'.status # "none"
        /\ user.status = "active" => user'.status = "active"
        /\ user'.codes = user.codes /\ UserShape(user)'
    BY <1>0, <2>3 DEF UserShape
  <2>5. UserGrows /\ NoneSound' /\ CodesSound'
    BY <1>0, <2>2, <2>3, <2>4 DEF UserGrows, NoneSound, CodesSound
  <2> QED BY <2>1, <2>2, <2>3, <2>5, StepKeeps
<1>7. CASE Rehash(r)
  <2>1. /\ At(r, "login", "rehash") /\ Goto(r, "proved")
        /\ UNCHANGED <<tok, rows, dealt, era, uses>>
        /\ \/ user' = [user EXCEPT !.password = req[r].pw, !.algo = "argon2"]
           \/ UNCHANGED user
    BY <1>7 DEF Rehash
  <2>2. /\ user'.version = user.version /\ user'.status = user.status
        /\ user'.codes = user.codes /\ UserShape(user)'
    BY <1>0, <2>1 DEF UserShape
  <2>3. UserGrows
    BY <1>0, <2>1, <2>2 DEF UserGrows
  <2>4. ReqMoves(r) /\ ReqSound(r)'
    BY <2>1, <2>3, GotoSound DEF At
  <2>5. CodesSound'
    BY <1>0, <2>1, <2>2 DEF CodesSound
  <2> QED BY <1>0, <2>1, <2>2, <2>4, <2>5, UserChange
<1>8. CASE GoogleCreate(r)
  <2>1. CASE Answer(r) /\ UNCHANGED <<user, rows>>
    BY <1>8, <2>1, AnswerSound, DocsKept DEF GoogleCreate, docs
  <2>2. CASE /\ user.status = "none"
             /\ user' = [Unregistered EXCEPT !.status = "active", !.provider = "google",
                                             !.email = "verified"]
             /\ rows \subseteq rows'
             /\ req' = [req EXCEPT ![r].op = "login", ![r].at = "proved",
                                   ![r].seen = user', ![r].era = era]
    <3>1. /\ user'.version = 0 /\ user'.status = "active" /\ user'.codes = {}
          /\ UserShape(user)' /\ user.version = 0 /\ UNCHANGED <<tok, dealt, era, uses>>
      BY <1>0, <1>8, <2>2 DEF GoogleCreate, Unregistered, UserShape, NoneSound
    <3>2. UserGrows
      BY <1>0, <2>2, <3>1 DEF UserGrows
    <3>3. /\ ReqShape(req'[r]) /\ req'[r].op = "login" /\ req'[r].at = "proved"
          /\ req'[r].seen = user' /\ req'[r].era = era
      BY <1>0, <2>2 DEF ReqShape, ReqTyped
    <3>4. ReqMoves(r)
      BY <1>0, <2>2, <3>3 DEF ReqTyped, ReqMoves
    <3>5. ReqSound(r)'
      BY <1>0, <3>1, <3>3 DEF ReqSound
    <3>6. CodesSound' /\ NoneSound'
      BY <1>0, <3>1 DEF CodesSound, NoneSound
    <3>7. TokensMove
      BY <3>1, TokensKept
    <3> QED BY <2>2, <3>2, <3>4, <3>5, <3>6, <3>7, StepKeeps
  <2> QED BY <1>8, <2>1, <2>2 DEF GoogleCreate, Insert
<1>9. CASE IssuePreAuth(r)
  <2>1. ReqMoves(r) /\ ReqSound(r)'
    BY <1>9, AnswerSound DEF IssuePreAuth
  <2>2. PICK p \in Unissued(PreAuths) : tok' = Issue(p, req[r].seen.version, req[r].era)
    BY <1>9 DEF IssuePreAuth
  <2>3. /\ user.status = "active" /\ UNCHANGED <<user, rows, dealt, era, uses>>
        /\ req[r].seen.version \in Nat /\ req[r].seen.version <= user.version
        /\ req[r].era \in Nat /\ (req[r].seen.version = user.version => req[r].era = era)
    BY <1>0, <1>9 DEF IssuePreAuth, At, ReqSound
  <2>4. p \in Keys /\ tok[p].state = "unissued"
    BY <1>00, UnissuedOnes
  <2>5. TokensMove
    BY <1>0, <2>2, <2>3, <2>4, IssueMoves
  <2> QED BY <2>1, <2>3, <2>5, TokensChange
<1>10. CASE CreateSession(r)
  <2>1. ReqMoves(r) /\ ReqSound(r)'
    BY <1>10, AnswerSound DEF CreateSession
  <2>2. PICK s \in Unissued(Sids) : /\ tok' = Issue(s, req[r].seen.version, req[r].era)
                                    /\ Insert(<< <<"session-created", s>> >>)
    BY <1>10 DEF CreateSession
  <2>3. /\ user.status = "active" /\ UNCHANGED <<user, dealt, era, uses>>
        /\ req[r].seen.version \in Nat /\ req[r].seen.version <= user.version
        /\ req[r].era \in Nat /\ (req[r].seen.version = user.version => req[r].era = era)
    BY <1>0, <1>10 DEF CreateSession, At, ReqSound
  <2>4. s \in Keys /\ tok[s].state = "unissued" /\ rows \subseteq rows'
    BY <1>00, <2>2, UnissuedOnes DEF Insert
  <2>5. TokensMove
    BY <1>0, <2>2, <2>3, <2>4, IssueMoves
  <2> QED BY <2>1, <2>3, <2>4, <2>5, TokensChange
<1> QED BY <1>1, <1>2, <1>3, <1>4, <1>5, <1>6, <1>7, <1>8, <1>9, <1>10 DEF FirstFactor

LEMMA SecondFactorKeeps ==
  ASSUME AccountsInv, NEW r \in Requests, SecondFactor(r)
  PROVE  AccountsInv' /\ Advances
<1>0. /\ DocsTyped /\ ReqTyped /\ CodesSound /\ NoneSound /\ ReqSound(r)
      /\ user.version \in Nat /\ era \in Nat /\ UserShape(user) /\ ReqShape(req[r])
      /\ uses \in [Keys \cup Codes -> Nat]
  BY DEF AccountsInv, DocsTyped, ReqTyped
<1>00. PreAuths \subseteq Keys /\ (Mails \cup Otps) \cap PreAuths = {} /\ Codes \cap Keys = {}
  BY AccountsConstants DEF Keys
<1>1. ASSUME NEW p \in PreAuths, StepUp(r, p) PROVE AccountsInv' /\ Advances
  BY <1>0, <1>1, LoadSound, DocsKept DEF StepUp, docs
<1>2. CASE SpendPreAuth(r)
  <2>1. /\ UNCHANGED <<user, mailed, passkey, signed, rows, dealt, era>>
        /\ req[r].key \in PreAuths /\ user.status # "none" /\ req[r].op = "login"
    BY <1>0, <1>2 DEF SpendPreAuth, At, ReqSound
  <2>2. CASE Answer(r) /\ UNCHANGED <<tok, uses>>
    BY <2>1, <2>2, AnswerSound, DocsKept DEF docs
  <2>3. CASE tok[req[r].key].state = "open" /\ Spend(req[r].key) /\ Goto(r, "factor")
    <3>1. UserGrows
      BY <2>1, UserKept
    <3>2. ReqMoves(r) /\ ReqSound(r)'
      BY <2>1, <2>3, <3>1, GotoSound
    <3>3. TokensMove /\ \A c \in Codes : uses'[c] = uses[c]
      BY <1>00, <2>1, <2>3, SpendMoves
    <3> QED BY <2>1, <3>2, <3>3, TokensChange
  <2> QED BY <1>2, <2>2, <2>3 DEF SpendPreAuth
<1>3. CASE Factor(r)
  <2>1. UNCHANGED docs /\ UNCHANGED <<user, era>> /\ req[r].op = "login" /\ UserGrows
    BY <1>3, UserKept DEF Factor, docs, At
  <2>2. CASE Goto(r, "session") \/ Answer(r)
    BY <2>1, <2>2, AnswerSound, GotoSound, DocsKept
  <2>3. ASSUME NEW c \in user.codes, req' = [req EXCEPT ![r].at = "pull", ![r].key = c]
        PROVE  AccountsInv' /\ Advances
    <3>1. /\ ReqShape(req'[r]) /\ req'[r].at = "pull" /\ req'[r].op = req[r].op
          /\ req'[r].seen = req[r].seen /\ req'[r].era = req[r].era
      BY <1>0, <2>3 DEF ReqShape, ReqTyped
    <3>2. ReqMoves(r)
      BY <1>0, <2>3, <3>1 DEF ReqTyped, ReqMoves
    <3>3. ReqSound(r)'
      BY <1>0, <2>1, <3>1 DEF ReqSound
    <3> QED BY <2>1, <3>2, <3>3, DocsKept
  <2> QED BY <1>3, <2>2, <2>3 DEF Factor
<1>4. CASE PullCode(r)
  <2> DEFINE c == req[r].key
  <2>1. /\ UNCHANGED <<tok, mailed, passkey, signed, rows, dealt, era>> /\ req[r].op = "login"
    BY <1>4 DEF PullCode, At
  <2>2. CASE Answer(r) /\ UNCHANGED <<user, uses>>
    BY <2>1, <2>2, AnswerSound, DocsKept DEF docs
  <2>3. CASE /\ c \in user.codes /\ user' = [user EXCEPT !.codes = @ \ {c}]
             /\ uses' = [uses EXCEPT ![c] = @ + 1] /\ Goto(r, "session")
    <3>1. c \in Codes /\ c \notin Keys /\ uses[c] = 0 /\ c \in dealt
      BY <1>0, <1>00, <2>3 DEF CodesSound
    <3>2. /\ user'.version = user.version /\ user'.status = user.status
          /\ user'.codes = user.codes \ {c} /\ UserShape(user)'
      BY <1>0, <2>3 DEF UserShape
    <3> HIDE DEF c
    <3>3. /\ uses' = [k \in Keys \cup Codes |-> uses'[k]] /\ uses'[c] = 1
          /\ \A k \in (Keys \cup Codes) \ {c} : uses'[k] = uses[k]
      <4>1. uses' = [uses EXCEPT ![c] = uses[c] + 1] /\ uses[c] + 1 = 1
        BY <2>3, <3>1
      <4>2. c \in Keys \cup Codes
        BY <3>1
      <4> QED BY <1>0, <4>1, <4>2
    <3>4. CodesSound'
      BY <1>0, <2>1, <3>1, <3>2, <3>3 DEF CodesSound
    <3>5. UserGrows
      BY <1>0, <2>1, <3>2 DEF UserGrows
    <3>6. ReqMoves(r) /\ ReqSound(r)'
      BY <2>1, <2>3, <3>5, GotoSound
    <3> QED BY <2>1, <3>1, <3>2, <3>3, <3>4, <3>6, UserChange
  <2> QED BY <1>4, <2>2, <2>3 DEF PullCode
<1>5. ASSUME NEW s \in Sids, Setup2fa(r, s) \/ Enable2fa(r, s) PROVE AccountsInv' /\ Advances
  BY <1>0, <1>5, LoadSound, DocsKept DEF Setup2fa, Enable2fa, docs
<1>6. ASSUME NEW s \in Sids, NEW pw \in Passwords, Disable2fa(r, s, pw) PROVE AccountsInv' /\ Advances
  BY <1>0, <1>6, LoadSound, DocsKept DEF Disable2fa, docs
<1>7. ASSUME Answer(r), UNCHANGED <<tok, rows, era, uses>>, UserShape(user)',
             user'.version = user.version, user'.status = user.status, CodesSound'
      PROVE  AccountsInv' /\ Advances
  BY <1>0, <1>7, AnswerSound, UserChange
<1>8. CASE SaveSecret(r)
  <2>1. /\ Answer(r) /\ UNCHANGED <<tok, rows, dealt, era, uses>>
        /\ \E x : user' = [user EXCEPT !.secret = x]
    BY <1>8 DEF SaveSecret
  <2>2. /\ user'.version = user.version /\ user'.status = user.status
        /\ user'.codes = user.codes /\ UserShape(user)'
    BY <1>0, <2>1 DEF UserShape
  <2> QED BY <1>0, <1>7, <2>1, <2>2 DEF CodesSound
<1>9. CASE SaveEnabled(r)
  <2>1. /\ Answer(r) /\ UNCHANGED <<tok, rows, era, uses>> /\ dealt' = Codes
        /\ user' = [user EXCEPT !.totp = "on", !.codes = Codes \ dealt]
    BY <1>9 DEF SaveEnabled
  <2>2. /\ user'.version = user.version /\ user'.status = user.status
        /\ user'.codes = Codes \ dealt /\ UserShape(user)'
    BY <1>0, <2>1 DEF UserShape
  <2> QED BY <1>0, <1>7, <2>1, <2>2 DEF CodesSound
<1>10. CASE SaveDisabled(r)
  <2>1. /\ Answer(r) /\ UNCHANGED <<tok, rows, dealt, era, uses>>
        /\ user' = [user EXCEPT !.totp = "off", !.secret = None, !.codes = {}]
    BY <1>10 DEF SaveDisabled
  <2>2. /\ user'.version = user.version /\ user'.status = user.status
        /\ user'.codes = {} /\ UserShape(user)'
    BY <1>0, <2>1 DEF UserShape
  <2> QED BY <1>0, <1>7, <2>1, <2>2 DEF CodesSound
<1> QED BY <1>1, <1>2, <1>3, <1>4, <1>5, <1>6, <1>8, <1>9, <1>10 DEF SecondFactor

LEMMA PasskeysKeep ==
  ASSUME AccountsInv, NEW r \in Requests, Passkeys(r)
  PROVE  AccountsInv' /\ Advances
<1>0. /\ DocsTyped /\ ReqTyped /\ CodesSound /\ NoneSound /\ ReqSound(r)
      /\ user.version \in Nat /\ era \in Nat /\ ReqShape(req[r])
      /\ uses \in [Keys \cup Codes -> Nat]
  BY DEF AccountsInv, DocsTyped, ReqTyped
<1>00. Challenges \subseteq Keys /\ (Mails \cup Otps \cup Sids) \cap Challenges = {}
  BY AccountsConstants DEF Keys
<1>1. ASSUME NEW c \in Challenges, IssueChallenge(r, c) PROVE AccountsInv' /\ Advances
  <2>1. ReqMoves(r) /\ ReqSound(r)'
    BY <1>1, AnswerSound DEF IssueChallenge
  <2>2. /\ tok[c].state = "unissued" /\ tok' = Issue(c, 0, era)
        /\ UNCHANGED <<user, rows, dealt, era, uses>>
    BY <1>1 DEF IssueChallenge
  <2>3. TokensMove /\ \A j \in Keys \ {c} : tok'[j] = tok[j]
    BY <1>0, <1>00, <2>2, IssueMoves
  <2>4. \A k \in Mails \cup Otps : tok'[k] = tok[k]
    BY <1>00, <2>3 DEF Keys
  <2> QED BY <2>1, <2>2, <2>3, <2>4, TokensChange
<1>2. ASSUME NEW c \in Challenges, Assert(r, c) PROVE AccountsInv' /\ Advances
  <2> DEFINE asked == [Fresh EXCEPT !.op = "assert", !.at = "claim", !.key = c,
                                    !.counter = signed']
  <2>1. req' = [req EXCEPT ![r] = asked] /\ UNCHANGED <<user, tok, rows, dealt, era, uses>>
    BY <1>2 DEF Assert
  <2>2. /\ ReqShape(asked) /\ asked.op = "assert" /\ asked.at = "claim" /\ asked.key = c
    BY DEF ReqShape, Fresh
  <2> HIDE DEF asked
  <2>3. req'[r] = asked /\ ReqMoves(r)
    BY <1>0, <2>1, <2>2 DEF ReqTyped, ReqMoves
  <2>4. ReqSound(r)'
    BY <2>2, <2>3 DEF ReqSound
  <2>5. TokensMove
    BY <2>1, TokensKept
  <2> QED BY <2>1, <2>3, <2>4, <2>5, TokensChange
<1>3. ASSUME NEW s \in Sids, NEW c \in Challenges, RegistrationOptions(r, s, c) PROVE AccountsInv' /\ Advances
  BY <1>1, <1>3 DEF RegistrationOptions
<1>4. ASSUME NEW c \in Challenges, LoginOptions(r, c) PROVE AccountsInv' /\ Advances
  BY <1>1, <1>4 DEF LoginOptions
<1>5. ASSUME NEW s \in Sids, NEW c \in Challenges, RegisterPasskey(r, s, c) PROVE AccountsInv' /\ Advances
  BY <1>0, <1>5, LoadSound, DocsKept DEF RegisterPasskey, docs
<1>6. ASSUME Answer(r), UNCHANGED <<user, tok, rows, dealt, era, uses>> PROVE AccountsInv' /\ Advances
  BY <1>6, AnswerSound, TokensKept, TokensChange
<1>7. ASSUME NEW s \in Sids, RevokePasskey(r, s) PROVE AccountsInv' /\ Advances
  BY <1>6, <1>7 DEF RevokePasskey
<1>8. CASE StorePasskey(r)
  BY <1>6, <1>8 DEF StorePasskey
<1>9. CASE ClaimChallenge(r)
  <2>1. /\ UNCHANGED <<user, mailed, passkey, signed, rows, dealt, era>>
        /\ req[r].key \in Challenges /\ req[r].op \notin {"reset", "change"}
    BY <1>0, <1>9 DEF ClaimChallenge, ReqSound
  <2>2. CASE Answer(r) /\ UNCHANGED <<tok, uses>>
    BY <1>6, <2>1, <2>2
  <2>3. CASE tok[req[r].key].state = "open" /\ Spend(req[r].key) /\ Goto(r, "claimed")
    <3>1. UserGrows
      BY <2>1, UserKept
    <3>2. ReqMoves(r) /\ ReqSound(r)'
      BY <2>1, <2>3, <3>1, GotoSound
    <3>3. /\ TokensMove /\ \A c \in Codes : uses'[c] = uses[c]
          /\ \A j \in Keys \ {req[r].key} : tok'[j] = tok[j]
      BY <1>00, <2>1, <2>3, SpendMoves
    <3>4. \A k \in Mails \cup Otps : tok'[k] = tok[k]
      BY <1>00, <2>1, <3>3 DEF Keys
    <3> QED BY <2>1, <3>2, <3>3, <3>4, TokensChange
  <2> QED BY <1>9, <2>2, <2>3 DEF ClaimChallenge
<1>10. CASE AdvanceCounter(r)
  <2>1. UNCHANGED <<user, tok, rows, dealt, era, uses>> /\ req[r].op = "assert"
    BY <1>10 DEF AdvanceCounter, At
  <2>2. CASE Answer(r)
    BY <1>6, <2>1, <2>2
  <2>3. CASE Goto(r, "owner")
    <3>1. UserGrows /\ TokensMove
      BY <2>1, UserKept, TokensKept
    <3>2. ReqMoves(r) /\ ReqSound(r)'
      BY <2>1, <2>3, <3>1, GotoSound
    <3> QED BY <2>1, <3>1, <3>2, TokensChange
  <2> QED BY <1>10, <2>2, <2>3 DEF AdvanceCounter
<1>11. CASE PasskeyOwner(r)
  BY <1>0, <1>11, LoadSound, DocsKept DEF PasskeyOwner, docs
<1> QED BY <1>2, <1>3, <1>4, <1>5, <1>7, <1>8, <1>9, <1>10, <1>11 DEF Passkeys

(* The end of all sessions, in one transaction. *)
LEMMA EndAllKeeps ==
  ASSUME AccountsInv, NEW r \in Requests, req[r].at = "commit", req[r].op # "login", NEW keys, NEW pw,
         NEW algo, NEW spent,
         EndAll(r, req[r].base.version + 1, keys, pw, algo, spent),
         \E i \in DOMAIN keys : keys[i] = <<"all-sessions-revoked", req[r].base.version + 1>>,
         spent = None \/ spent \in DOMAIN req[r].snap,
         UNCHANGED <<mailed, passkey, signed, dealt>>
  PROVE  AccountsInv' /\ Advances
<1> DEFINE v == req[r].base.version + 1
           S == DOMAIN req[r].snap
<1>0. /\ DocsTyped /\ ReqTyped /\ CodesSound /\ NoneSound /\ ReqSound(r)
      /\ user.version \in Nat /\ era \in Nat /\ UserShape(user)
      /\ uses \in [Keys \cup Codes -> Nat] /\ tok \in [Keys -> TokRecords]
      /\ Codes \cap Keys = {} /\ None \notin Keys /\ None \notin Codes
  BY AccountsConstants DEF AccountsInv, DocsTyped, Keys
<1>1. CASE Answer(r) /\ UNCHANGED <<user, tok, uses, rows, era>>
  BY <1>1, AnswerSound, DocsKept DEF docs
<1>2. CASE /\ user = req[r].base /\ Unwritten(r)
           /\ user' = [user EXCEPT !.version = v, !.password = pw, !.algo = algo]
           /\ tok' = Spent(tok, S)
           /\ uses' = [k \in DOMAIN uses |-> uses[k] + (IF k = spent THEN 1 ELSE 0)]
           /\ Insert(keys) /\ era' = era + 1 /\ Reply(r, req[r].op)
  <2>1. ReqMoves(r) /\ ReqSound(r)'
    BY <1>2, DoneSound DEF Reply
  <2>2. /\ v = user.version + 1 /\ S \subseteq Keys
        /\ \A k \in S : tok[k].state = "open"
        /\ user.status # "none"
    BY <1>0, <1>2 DEF ReqSound, Unwritten
  <2>3. rows \subseteq rows' /\ <<"all-sessions-revoked", v>> \in rows'
    BY <1>2 DEF Insert
  <2> HIDE DEF v, S
  <2>4. /\ user'.version = v /\ user'.status = user.status /\ user'.codes = user.codes
        /\ UserShape(user)'
    BY <1>0, <1>2 DEF UserShape
  <2>5. UserGrows
    BY <1>0, <1>2, <2>2, <2>4 DEF UserGrows
  <2>6. /\ tok' = [k \in Keys |-> tok'[k]]
        /\ \A k \in Keys : tok'[k] = IF k \in S THEN [tok[k] EXCEPT !.state = "spent"] ELSE tok[k]
    BY <1>0, <1>2 DEF Spent
  <2>7. /\ uses' = [k \in Keys \cup Codes |-> uses'[k]]
        /\ \A k \in Keys \cup Codes : uses'[k] = IF k = spent THEN uses[k] + 1 ELSE uses[k]
    BY <1>0, <1>2
  <2>8. ASSUME NEW k \in Keys PROVE Kept(k) \/ Used(k) \/ Ended(k)
    <3>1. CASE k \notin S
      <4>1. k # spent
        BY <1>0, <3>1 DEF S
      <4> QED BY <2>6, <2>7, <3>1, <4>1 DEF Kept
    <3>2. CASE k \in S /\ k = spent
      BY <2>2, <2>6, <2>7, <3>2 DEF Used
    <3>3. CASE k \in S /\ k # spent
      <4>1. tok'[k] = [tok[k] EXCEPT !.state = "spent"] /\ uses'[k] = uses[k]
        BY <2>6, <2>7, <3>3
      <4>2. tok'[k].version = tok[k].version /\ tok[k].version <= user.version
            /\ tok[k].version \in Nat
        BY <1>0, <4>1 DEF TokRecords, AccountsInv, TokenSound
      <4>3. v \in 1..user'.version /\ v > tok'[k].version
        BY <1>0, <2>2, <2>4, <4>2
      <4>4. Told(k)'
        BY <2>3, <4>3 DEF Told
      <4> QED BY <2>2, <3>3, <4>1, <4>4 DEF Ended
    <3> QED BY <3>1, <3>2, <3>3
  <2>9. TokensMove
    BY <2>6, <2>7, <2>8 DEF TokensMove
  <2>10. spent \notin Codes
    BY <1>0, <2>2 DEF S
  <2>11. CodesSound'
    BY <1>0, <2>4, <2>7, <2>10 DEF CodesSound
  <2>12. NoneSound'
    BY <2>2, <2>4 DEF NoneSound
  <2> QED BY <2>1, <2>3, <2>5, <2>9, <2>11, <2>12, StepKeeps
<1> QED BY <1>1, <1>2 DEF EndAll

LEMMA RevocationKeeps ==
  ASSUME AccountsInv, NEW r \in Requests, Revocation(r)
  PROVE  AccountsInv' /\ Advances
<1>0. /\ DocsTyped /\ ReqTyped /\ CodesSound /\ NoneSound /\ ReqSound(r)
      /\ user.version \in Nat /\ era \in Nat /\ ReqShape(req[r])
      /\ uses \in [Keys \cup Codes -> Nat] /\ tok \in [Keys -> TokRecords]
  BY DEF AccountsInv, DocsTyped, ReqTyped
<1>00. /\ Sids \subseteq Keys /\ Otps \subseteq Keys /\ PreAuths \subseteq Keys
       /\ (Mails \cup Otps) \cap Sids = {} /\ Codes \cap Keys = {} /\ None \notin Keys
  BY AccountsConstants DEF Keys
<1>1. CASE Forgot(r)
  BY <1>0, <1>00, <1>1, SnapshotSound, DocsKept DEF Forgot, docs
<1>2. CASE ForgotCommit(r)
  <2>1. ReqMoves(r) /\ ReqSound(r)'
    BY <1>2, AnswerSound DEF ForgotCommit
  <2>2. /\ user.status # "none" /\ DOMAIN req[r].snap \subseteq Otps /\ req[r].at = "commit"
        /\ UNCHANGED <<user, rows, dealt, era, uses, passkey, signed>>
    BY <1>0, <1>2 DEF ForgotCommit, At, ReqSound
  <2>3. CASE UNCHANGED <<tok, mailed>>
    BY <2>1, <2>2, <2>3, DocsKept DEF docs
  <2>4. ASSUME Unwritten(r), NEW o \in Unissued(Otps),
               tok' = Spent(Issue(o, 0, era), DOMAIN req[r].snap)
        PROVE  AccountsInv' /\ Advances
    <3>1. o \in Keys /\ o \notin Sids /\ tok[o].state = "unissued"
      BY <1>00, UnissuedOnes
    <3>2. TokensMove
      BY <1>00, <2>2, <2>4, <3>1, EndsKept
    <3> QED BY <2>1, <2>2, <3>2, TokensChange
  <2> QED BY <1>2, <2>3, <2>4 DEF ForgotCommit
<1>3. ASSUME NEW o \in Otps, NEW pw \in Passwords, ResetFind(r, o, pw) PROVE AccountsInv' /\ Advances
  BY <1>0, <1>3, LoadSound, DocsKept DEF ResetFind, docs
<1>4. CASE BurnTry(r)
  <2> DEFINE o == req[r].key
  <2>1. /\ UNCHANGED <<user, mailed, passkey, signed, rows, dealt, era, uses>>
        /\ o \in Otps /\ req[r].op = "reset"
    BY <1>0, <1>4 DEF BurnTry, At, ReqSound
  <2>2. CASE Answer(r) /\ UNCHANGED tok
    BY <2>1, <2>2, AnswerSound, DocsKept DEF docs
  <2>3. CASE /\ o \in Open(Otps) /\ tok[o].tries < MaxTries
             /\ tok' = [tok EXCEPT ![o].tries = @ + 1]
             /\ Goto(r, "begin") \/ Answer(r)
    <3>1. UserGrows
      BY <2>1, UserKept
    <3>2. ReqMoves(r) /\ ReqSound(r)'
      BY <2>1, <2>3, <3>1, AnswerSound, GotoSound
    <3>3. user.status # "none"
      BY <1>0, <2>3 DEF NoneSound, Open
    <3>4. o \in Keys
      BY <1>00, <2>1
    <3> HIDE DEF o
    <3>5. /\ tok'[o] = [tok[o] EXCEPT !.tries = @ + 1] /\ tok' = [k \in Keys |-> tok'[k]]
          /\ \A k \in Keys \ {o} : tok'[k] = tok[k]
      BY <1>0, <2>3, <3>4
    <3>6. TokensMove
      BY <1>0, <2>1, <2>3, <3>4, <3>5 DEF TokensMove, Tried, Kept
    <3> QED BY <2>1, <3>2, <3>3, <3>6, TokensChange
  <2> QED BY <1>4, <2>2, <2>3 DEF BurnTry
<1>5. CASE ResetBegin(r)
  <2>1. UNCHANGED docs /\ UNCHANGED user /\ req[r].key \in Otps
    BY <1>0, <1>5 DEF ResetBegin, docs, At, ReqSound
  <2>2. CASE Answer(r)
    BY <2>1, <2>2, AnswerSound, DocsKept
  <2>3. CASE /\ req[r].key \in Open(Otps)
             /\ Snapshot(r, "reset", Sids \cup PreAuths \cup {req[r].key})
    <3>1. /\ Sids \cup PreAuths \cup {req[r].key} \subseteq Keys /\ user.status # "none"
          /\ req[r].key \in Open(Sids \cup PreAuths \cup {req[r].key})
      BY <1>0, <1>00, <2>1, <2>3 DEF Open, NoneSound
    <3> QED BY <2>1, <2>3, <3>1, SnapshotSound, DocsKept
  <2> QED BY <1>5, <2>2, <2>3 DEF ResetBegin
<1>6. CASE ResetCommit(r)
  <2> DEFINE v == req[r].base.version + 1
             keys == << <<"password-changed", v>>, <<"all-sessions-revoked", v>> >>
  <2>1. keys[2] = <<"all-sessions-revoked", v>> /\ 2 \in DOMAIN keys
    OBVIOUS
  <2>2. /\ EndAll(r, v, keys, req[r].pw, "argon2", req[r].key) /\ req[r].at = "commit"
        /\ req[r].op = "reset" /\ UNCHANGED <<mailed, passkey, signed, dealt>>
    BY <1>6 DEF ResetCommit, At
  <2>3. req[r].key \in DOMAIN req[r].snap
    BY <1>0, <2>2 DEF ReqSound
  <2> HIDE DEF keys
  <2> QED BY <2>1, <2>2, <2>3, EndAllKeeps
<1>7. ASSUME NEW s \in Sids, NEW old \in Passwords, NEW pw \in Passwords, Change(r, s, old, pw)
      PROVE  AccountsInv' /\ Advances
  BY <1>0, <1>7, LoadSound, DocsKept DEF Change, LoggedIn, Accepted, docs
<1>8. CASE ChangeBegin(r)
  <2>1. /\ UNCHANGED docs /\ UNCHANGED user /\ Snapshot(r, "change", Sids \cup PreAuths)
          /\ user.status # "none"
    BY <1>0, <1>8 DEF ChangeBegin, docs, At, ReqSound
  <2> QED BY <1>00, <2>1, SnapshotSound, DocsKept
<1>9. CASE ChangeCommit(r)
  <2> DEFINE v == req[r].seen.version + 1
             keys == << <<"password-changed", v>>, <<"all-sessions-revoked", v>>,
                        <<"password-changed", v>> >>
  <2>1. ~Insertable(keys)
    <3>1. keys[1] = keys[3] /\ 1 \in DOMAIN keys /\ 3 \in DOMAIN keys
      OBVIOUS
    <3> HIDE DEF keys
    <3> QED BY <3>1 DEF Insertable
  <2>2. EndAll(r, v, keys, req[r].pw, "argon2", None) /\ UNCHANGED <<mailed, passkey, signed, dealt>>
    BY <1>9 DEF ChangeCommit
  <2> HIDE DEF keys
  <2>3. Answer(r) /\ UNCHANGED docs
    BY <2>1, <2>2 DEF EndAll, docs
  <2> QED BY <2>3, AnswerSound, DocsKept
<1>10. ASSUME NEW s \in Sids, LogoutAll(r, s) PROVE AccountsInv' /\ Advances
  BY <1>0, <1>00, <1>10, SnapshotSound, DocsKept DEF LogoutAll, LoggedIn, Accepted, docs
<1>11. CASE ForceLogout(r)
  BY <1>0, <1>00, <1>11, SnapshotSound, DocsKept DEF ForceLogout, docs
<1>12. CASE RevokeAllCommit(r)
  <2> DEFINE v == req[r].base.version + 1
             keys == << <<"all-sessions-revoked", v>> >>
  <2>1. keys[1] = <<"all-sessions-revoked", v>> /\ 1 \in DOMAIN keys
    OBVIOUS
  <2>2. /\ EndAll(r, v, keys, user.password, user.algo, None) /\ req[r].at = "commit"
        /\ req[r].op # "login" /\ UNCHANGED <<mailed, passkey, signed, dealt>>
    BY <1>12 DEF RevokeAllCommit
  <2> HIDE DEF keys
  <2> QED BY <2>1, <2>2, EndAllKeeps
<1>13. ASSUME NEW s \in Sids, Logout(r, s) PROVE AccountsInv' /\ Advances
  <2> DEFINE asked == [Fresh EXCEPT !.op = "logout", !.at = "announce", !.key = s]
  <2>1. /\ req' = [req EXCEPT ![r] = asked] /\ Spend(s) /\ UNCHANGED <<user, rows, dealt, era>>
        /\ tok[s].state = "open" /\ user.status # "none"
    BY <1>13 DEF Logout, LoggedIn, Accepted
  <2>2. ReqShape(asked) /\ asked.op = "logout" /\ asked.at = "announce"
    BY DEF ReqShape, Fresh
  <2> HIDE DEF asked
  <2>3. req'[r] = asked /\ ReqMoves(r)
    BY <1>0, <2>1, <2>2 DEF ReqTyped, ReqMoves
  <2>4. ReqSound(r)'
    BY <2>2, <2>3 DEF ReqSound
  <2>5. TokensMove /\ \A c \in Codes : uses'[c] = uses[c]
    BY <1>00, <2>1, SpendMoves
  <2> QED BY <2>1, <2>3, <2>4, <2>5, TokensChange
<1>14. CASE LogoutAnnounce(r)
  <2>1. /\ Reply(r, "logout") /\ UNCHANGED <<user, tok, dealt, era, uses>> /\ rows \subseteq rows'
    BY <1>14 DEF LogoutAnnounce, Insert
  <2>2. ReqMoves(r) /\ ReqSound(r)'
    BY <2>1, DoneSound DEF Reply
  <2> QED BY <2>1, <2>2, TokensKept, TokensChange
<1>15. ASSUME NEW s \in Sids, NEW t \in Sids, RevokeSession(r, s, t) PROVE AccountsInv' /\ Advances
  <2>1. /\ Reply(r, "revokeSession") /\ UNCHANGED <<user, dealt, era, uses>>
        /\ tok' = Spent(tok, {t}) /\ Insert(<< <<"session-revoked", t>> >>)
        /\ user.status # "none"
    BY <1>15 DEF RevokeSession, LoggedIn, Accepted
  <2>2. ReqMoves(r) /\ ReqSound(r)'
    BY <2>1, DoneSound DEF Reply
  <2>3. rows \subseteq rows' /\ <<"session-revoked", t>> \in rows'
    <3>1. << <<"session-revoked", t>> >>[1] = <<"session-revoked", t>>
          /\ 1 \in DOMAIN << <<"session-revoked", t>> >>
      OBVIOUS
    <3> QED BY <2>1, <3>1 DEF Insert
  <2>4. /\ tok'[t] = [tok[t] EXCEPT !.state = "spent"] /\ tok' = [k \in Keys |-> tok'[k]]
        /\ \A k \in Keys \ {t} : tok'[k] = tok[k]
    BY <1>0, <1>00, <2>1 DEF Spent
  <2>5. Ended(t) /\ \A k \in Keys \ {t} : Kept(k)
    BY <1>15, <2>1, <2>3, <2>4 DEF Ended, Kept, Told, RevokeSession, Open
  <2>6. TokensMove
    BY <1>0, <2>1, <2>4, <2>5 DEF TokensMove
  <2> QED BY <2>1, <2>2, <2>3, <2>6, TokensChange
<1> QED BY <1>1, <1>2, <1>3, <1>4, <1>5, <1>6, <1>7, <1>8, <1>9, <1>10, <1>11, <1>12,
           <1>13, <1>14, <1>15 DEF Revocation

LEMMA AccountsStart == Init => AccountsInv
<1> SUFFICES ASSUME Init PROVE AccountsInv
  OBVIOUS
<1>1. PICK start \in Starts :
        /\ user = start.user /\ passkey = start.passkey
        /\ tok = [k \in Keys |-> IF k \in start.live THEN [Blank EXCEPT !.state = "open"] ELSE Blank]
  BY DEF Init
<1>2. /\ UserShape(user) /\ user.version = 0 /\ user.codes \subseteq Codes
      /\ start.live = {} \/ user.status = "active"
      /\ user.status = "none" => start.live = {}
  <2>1. /\ UserShape(Unregistered) /\ Unregistered.version = 0 /\ Unregistered.codes = {}
    BY DEF UserShape, Unregistered
  <2>2. ASSUME NEW pw, NEW algo, NEW totp, NEW secret, NEW codes
        PROVE  LET u == Registered(pw, algo, totp, secret, codes) IN
               UserShape(u) /\ u.version = 0 /\ u.codes = codes /\ u.status = "active"
    BY DEF UserShape, Registered, Unregistered
  <2>3. \/ user = Unregistered /\ start.live = {}
        \/ \E algo, totp, secret, codes :
             user = Registered(First, algo, totp, secret, codes) /\ codes \subseteq Codes
    BY <1>1 DEF Starts
  <2> HIDE DEF Unregistered
  <2> QED BY <2>1, <2>2, <2>3
<1>3. /\ uses = [k \in Keys \cup Codes |-> 0] /\ era = 0 /\ dealt = user.codes
      /\ req = [r \in Requests |-> Fresh]
  BY DEF Init
<1>4. \A k \in Keys : /\ tok[k] \in TokRecords /\ tok[k].version = 0 /\ tok[k].era = 0
                      /\ tok[k].tries = 0 /\ tok[k].state \in {"unissued", "open"}
                      /\ k \notin start.live => tok[k].state = "unissued"
  BY <1>1 DEF Blank, TokRecords
<1>5. DocsTyped
  BY <1>1, <1>2, <1>3, <1>4 DEF DocsTyped
<1>6. ReqShape(Fresh) /\ Fresh.op = "none" /\ Fresh.at = "new"
  BY DEF ReqShape, Fresh
<1>7. ReqTyped /\ \A r \in Requests : ReqSound(r)
  <2> HIDE DEF Fresh
  <2> QED BY <1>3, <1>6 DEF ReqTyped, ReqSound
<1>8. CodesSound
  BY <1>2, <1>3 DEF CodesSound
<1>9. NoneSound
  <2>1. Mails \cup Otps \subseteq Keys
    BY DEF Keys
  <2> QED BY <1>2, <1>4, <2>1 DEF NoneSound
<1>10. \A k \in Keys : TokenSound(k)
  BY <1>2, <1>3, <1>4, AccountsConstants DEF TokenSound
<1> QED BY <1>5, <1>7, <1>8, <1>9, <1>10 DEF AccountsInv

LEMMA AccountsStep ==
  ASSUME AccountsInv, [Next]_vars PROVE AccountsInv' /\ Advances
<1>1. CASE Next
  BY <1>1, FirstFactorKeeps, SecondFactorKeeps, PasskeysKeep, RevocationKeeps DEF Next
<1>2. CASE UNCHANGED vars
  <2>1. AccountsInv'
    BY <1>2 DEF vars, docs, AccountsInv, DocsTyped, ReqTyped, CodesSound, NoneSound, TokenSound,
                ReqSound, Told
  <2>2. Advances
    BY <1>2 DEF vars, docs, AccountsInv, DocsTyped, Advances
  <2> QED BY <2>1, <2>2
<1> QED BY <1>1, <1>2

LEMMA AccountsSafe ==
  ASSUME AccountsInv
  PROVE  RevocationHolds /\ OneTime /\ GuessesBounded /\ RevocationsAnnounced
<1>0. /\ Sids \subseteq Keys /\ Otps \subseteq Keys
      /\ PreAuths \cup Otps \cup Mails \cup Challenges \subseteq Keys
  BY DEF Keys
<1>1. RevocationHolds
  BY <1>0 DEF AccountsInv, RevocationHolds, Accepted, TokenSound
<1>2. OneTime
  BY <1>0 DEF AccountsInv, OneTime, TokenSound, CodesSound
<1>3. GuessesBounded
  BY <1>0 DEF AccountsInv, GuessesBounded, TokenSound
<1>4. RevocationsAnnounced
  BY <1>0 DEF AccountsInv, RevocationsAnnounced, TokenSound, Told
<1> QED BY <1>1, <1>2, <1>3, <1>4

(* A token that is accepted comes from credentials that were checked after *)
(* the last reset or logout of all sessions, for any number of requests    *)
(* under way (loginUser, resetPassword, revokeAllForUser).                 *)
THEOREM RevocationsHold == Spec => []RevocationHolds
<1>1. AccountsInv => RevocationHolds
  BY AccountsSafe
<1> QED BY <1>1, AccountsStart, AccountsStep, PTL DEF Spec

(* A reset code, step-up token, recovery code, verification token or       *)
(* challenge takes effect once, whoever presents it at the same time.      *)
THEOREM TokensAreOneTime == Spec => []OneTime
<1>1. AccountsInv => OneTime
  BY AccountsSafe
<1> QED BY <1>1, AccountsStart, AccountsStep, PTL DEF Spec

(* No reset code is compared more often than OTP_MAX_ATTEMPTS, however     *)
(* many guesses run in parallel.                                           *)
THEOREM GuessesAreBounded == Spec => []GuessesBounded
<1>1. AccountsInv => GuessesBounded
  BY AccountsSafe
<1> QED BY <1>1, AccountsStart, AccountsStep, PTL DEF Spec

(* The outbox has a row for every session that ended, unless a logout      *)
(* ended it.                                                               *)
THEOREM RevocationsAreAnnounced == Spec => []RevocationsAnnounced
<1>1. AccountsInv => RevocationsAnnounced
  BY AccountsSafe
<1> QED BY <1>1, AccountsStart, AccountsStep, PTL DEF Spec
-----------------------------------------------------------------------------
(***************************************************************************)
(* The gateway.  `dead' counts the ticks since a token was last accepted;  *)
(* an answer on its way is not older than the introspection that fetched   *)
(* it, and an entry is at most TimeOut older than it looks.                *)
(***************************************************************************)
Introspections ==
  [at : {"idle", "sent", "matched", "answered"}, sid : Sids \cup {None},
   age : 0..TimeOut, active : {"yes", "no"}]

GatewayTyped ==
  /\ lookup \in [Lookups -> Introspections]
  /\ \A g \in Lookups : lookup[g].at # "idle" =>
       lookup[g].sid \in Sids /\ tok[lookup[g].sid].state # "unissued"
  /\ \A g \in Lookups : lookup[g].at = "sent" => lookup[g].active = "no"
  /\ dead \in [Sids -> Nat] /\ cache = [s \in Sids |-> cache[s]] /\ ended \subseteq Sids

(* How stale a token is, and what the cache holds of it. *)
EntrySound(s) ==
  /\ tok[s].state = "unissued" \/ Accepted(s) => dead[s] = 0
  /\ cache[s] # None => cache[s] \in 0..(TTL - 1) /\ dead[s] <= cache[s] + TimeOut
  /\ s \in ended => /\ tok[s].state # "unissued" /\ ~Accepted(s)
                    /\ cache[s] # None => s \in overtaken \cup unevicted

(* What an introspection may still answer. *)
AnswerFresh(g) ==
  LET s == lookup[g].sid IN
  /\ lookup[g].at = "matched" /\ tok[s].state = "open" =>
       dead[s] <= lookup[g].age /\ s \notin ended \ overtaken
  /\ lookup[g].at = "answered" /\ lookup[g].active = "yes" =>
       dead[s] <= lookup[g].age /\ s \notin ended \ overtaken

GatewayInv ==
  /\ AccountsInv /\ GatewayTyped
  /\ \A s \in Sids : EntrySound(s)
  /\ \A g \in Lookups : AnswerFresh(g)

(* A token that identity does not accept is not accepted later. *)
LEMMA StaysRejected ==
  ASSUME AccountsInv, Advances, NEW s \in Sids, tok[s].state # "unissued", ~Accepted(s)
  PROVE  tok'[s].state # "unissued" /\ ~Accepted(s)'
<1>1. /\ s \in Keys /\ tok[s] \in TokRecords /\ TokenSound(s) /\ user.version \in Nat
  BY DEF Keys, AccountsInv, DocsTyped
<1>2. AccountsInv' => user'.version \in Nat
  BY DEF AccountsInv, DocsTyped
<1> QED BY <1>1 DEF Advances, Accepted, TokenSound, TokRecords

LEMMA IdentityStep ==
  ASSUME GatewayInv, [Next]_vars, UNCHANGED gateway
  PROVE  GatewayInv'
<1>1. AccountsInv' /\ Advances
  BY AccountsStep DEF GatewayInv
<1>2. /\ cache' = cache /\ lookup' = lookup /\ dead' = dead
      /\ overtaken' = overtaken /\ unevicted' = unevicted /\ ended' = ended
  BY DEF gateway, history
<1>3. \A s \in Sids : tok[s].state # "unissued" =>
        /\ tok'[s].state # "unissued" /\ (tok[s].state # "open" => tok'[s].state # "open")
  BY <1>1 DEF Advances, Keys
<1>4. GatewayTyped'
  BY <1>2, <1>3 DEF GatewayInv, GatewayTyped
<1>5. ASSUME NEW s \in Sids PROVE EntrySound(s)'
  <2>1. EntrySound(s) /\ AccountsInv
    BY DEF GatewayInv
  <2>2. CASE tok[s].state # "unissued" /\ ~Accepted(s)
    BY <1>1, <1>2, <2>1, <2>2, StaysRejected DEF EntrySound
  <2>3. CASE tok[s].state = "unissued" \/ Accepted(s)
    BY <1>2, <2>1, <2>3 DEF EntrySound
  <2> QED BY <2>2, <2>3
<1>6. ASSUME NEW g \in Lookups PROVE AnswerFresh(g)'
  BY <1>2, <1>3 DEF GatewayInv, GatewayTyped, AnswerFresh
<1> QED BY <1>1, <1>4, <1>5, <1>6 DEF GatewayInv

(* A step of the gateway leaves the account as it is. *)
LEMMA AccountStands ==
  ASSUME AccountsInv, UNCHANGED vars
  PROVE  /\ AccountsInv' /\ tok' = tok /\ user' = user
         /\ \A s \in Sids : Accepted(s)' <=> Accepted(s)
<1>1. AccountsInv'
  BY AccountsStep
<1> QED BY <1>1 DEF vars, docs, Accepted

(* One introspection moves, the others and the cache stay. *)
LEMMA LookupStep ==
  ASSUME GatewayInv, UNCHANGED vars, NEW g \in Lookups, NEW l \in Introspections,
         lookup' = [lookup EXCEPT ![g] = l],
         UNCHANGED <<cache, dead, history>>,
         l.at = "sent" => l.active = "no",
         l.at # "idle" => l.sid \in Sids /\ tok[l.sid].state # "unissued",
         l.at = "matched" /\ tok[l.sid].state = "open" =>
           dead[l.sid] <= l.age /\ l.sid \notin ended \ overtaken,
         l.at = "answered" /\ l.active = "yes" =>
           dead[l.sid] <= l.age /\ l.sid \notin ended \ overtaken
  PROVE  GatewayInv'
<1>1. /\ AccountsInv' /\ tok' = tok /\ user' = user
      /\ \A s \in Sids : Accepted(s)' <=> Accepted(s)
  BY AccountStands DEF GatewayInv
<1>2. lookup \in [Lookups -> Introspections]
  BY DEF GatewayInv, GatewayTyped
<1>3. /\ lookup' \in [Lookups -> Introspections] /\ lookup'[g] = l
      /\ \A h \in Lookups \ {g} : lookup'[h] = lookup[h]
  BY <1>2
<1>4. GatewayTyped'
  BY <1>1, <1>3 DEF GatewayInv, GatewayTyped, history
<1>5. \A s \in Sids : EntrySound(s)'
  BY <1>1 DEF GatewayInv, EntrySound, history
<1>6. ASSUME NEW h \in Lookups PROVE AnswerFresh(h)'
  BY <1>1, <1>3 DEF GatewayInv, AnswerFresh, history
<1> QED BY <1>1, <1>4, <1>5, <1>6 DEF GatewayInv

(* The questions to identity-service. *)
LEMMA AskingKeeps ==
  ASSUME GatewayInv, NEW g \in Lookups,
         (\E s \in Sids : Ask(g, s)) \/ IntrospectUser(g) \/ IntrospectSession(g) \/ Abort(g)
  PROVE  GatewayInv'
<1>0. /\ lookup \in [Lookups -> Introspections] /\ lookup[g] \in Introspections
      /\ lookup[g].at # "idle" => lookup[g].sid \in Sids /\ tok[lookup[g].sid].state # "unissued"
      /\ AnswerFresh(g) /\ \A s \in Sids : EntrySound(s)
      /\ TimeOut \in Nat
  BY GatewayConstants DEF GatewayInv, GatewayTyped
<1>1. ASSUME NEW s \in Sids, Ask(g, s) PROVE GatewayInv'
  <2> DEFINE l == [at |-> "sent", sid |-> s, age |-> 0, active |-> "no"]
  <2>1. l \in Introspections
    BY <1>0 DEF Introspections
  <2> QED BY <1>1, <2>1, LookupStep DEF Ask
<1>2. CASE IntrospectUser(g)
  <2> DEFINE s == lookup[g].sid
             matches == user.status = "active" /\ tok[s].version = user.version
             l == [lookup[g] EXCEPT !.at = IF matches THEN "matched" ELSE "answered"]
  <2>1. /\ l \in Introspections /\ l.sid = s /\ l.age = lookup[g].age
        /\ l.active = lookup[g].active
        /\ l.at = IF matches THEN "matched" ELSE "answered"
    BY <1>0 DEF Introspections
  <2>2. lookup' = [lookup EXCEPT ![g] = l]
    BY <1>0, <1>2 DEF IntrospectUser
  <2>3. s \in Sids /\ tok[s].state # "unissued" /\ EntrySound(s)
    BY <1>0, <1>2 DEF IntrospectUser
  <2>4. matches /\ tok[s].state = "open" => dead[s] <= l.age /\ s \notin ended
    <3>1. lookup[g].age \in Nat
      BY <1>0 DEF Introspections
    <3> QED BY <2>1, <2>3, <3>1 DEF EntrySound, Accepted
  <2>5. lookup[g].active = "no"
    BY <1>2 DEF IntrospectUser, GatewayInv, GatewayTyped
  <2>6. UNCHANGED <<vars, cache, dead, history>>
    BY <1>2 DEF IntrospectUser
  <2> HIDE DEF l
  <2> QED BY <2>1, <2>2, <2>3, <2>4, <2>5, <2>6, LookupStep
<1>3. CASE IntrospectSession(g)
  <2> DEFINE s == lookup[g].sid
             l == [lookup[g] EXCEPT !.at = "answered",
                     !.active = IF tok[s].state = "open" THEN "yes" ELSE "no"]
  <2>1. /\ l \in Introspections /\ l.sid = s /\ l.age = lookup[g].age /\ l.at = "answered"
        /\ l.active = "yes" => tok[s].state = "open"
    BY <1>0 DEF Introspections
  <2>2. lookup' = [lookup EXCEPT ![g] = l]
    BY <1>0, <1>3 DEF IntrospectSession
  <2>3. /\ s \in Sids /\ tok[s].state # "unissued"
        /\ tok[s].state = "open" => dead[s] <= l.age /\ s \notin ended \ overtaken
    BY <1>0, <1>3, <2>1 DEF IntrospectSession, AnswerFresh
  <2> HIDE DEF l
  <2> QED BY <1>3, <2>1, <2>2, <2>3, LookupStep DEF IntrospectSession
<1>4. CASE Abort(g)
  <2>1. Idle \in Introspections /\ Idle.at = "idle"
    BY <1>0 DEF Introspections, Idle
  <2> HIDE DEF Idle
  <2> QED BY <1>4, <2>1, LookupStep DEF Abort
<1> QED BY <1>1, <1>2, <1>3, <1>4

LEMMA ReceiveKeeps ==
  ASSUME GatewayInv, NEW g \in Lookups, Receive(g)
  PROVE  GatewayInv'
<1> DEFINE s == lookup[g].sid
<1>0. /\ lookup \in [Lookups -> Introspections] /\ lookup[g] \in Introspections
      /\ s \in Sids /\ AnswerFresh(g) /\ \A t \in Sids : EntrySound(t)
      /\ TimeOut \in Nat /\ TTL \in Nat \ {0} /\ dead \in [Sids -> Nat]
      /\ cache = [t \in Sids |-> cache[t]]
  BY GatewayConstants DEF GatewayInv, GatewayTyped, Receive
<1>1. /\ AccountsInv' /\ tok' = tok /\ user' = user
      /\ \A t \in Sids : Accepted(t)' <=> Accepted(t)
  BY AccountStands DEF GatewayInv, Receive
<1>2. /\ dead' = dead /\ overtaken' = overtaken /\ unevicted' = unevicted
      /\ ended' = ended
      /\ lookup' = [lookup EXCEPT ![g] = Idle]
  BY DEF Receive, history
<1>3. Idle \in Introspections /\ Idle.at = "idle"
  BY <1>0 DEF Introspections, Idle
<1>4. /\ cache' = [t \in Sids |-> cache'[t]]
      /\ \A t \in Sids : \/ cache'[t] = cache[t] \/ cache'[t] = None
                         \/ t = s /\ cache'[t] = 0 /\ lookup[g].active = "yes"
  <2>1. CASE lookup[g].active = "no" /\ cache' = [cache EXCEPT ![s] = None]
    BY <1>0, <2>1
  <2>2. CASE lookup[g].active = "yes" /\ cache' \in Stored(s)
    BY <1>0, <2>2 DEF Stored
  <2> QED BY <2>1, <2>2 DEF Receive
<1>5. GatewayTyped'
  <2> HIDE DEF Idle
  <2> QED BY <1>0, <1>1, <1>2, <1>3, <1>4 DEF GatewayInv, GatewayTyped
<1>6. ASSUME NEW t \in Sids PROVE EntrySound(t)'
  <2>0. EntrySound(t) /\ dead[t] \in Nat
    BY <1>0
  <2>1. CASE t = s /\ cache'[t] = 0 /\ lookup[g].active = "yes"
    <3>1. dead[s] <= TimeOut /\ s \notin ended \ overtaken
      BY <1>0, <2>1 DEF AnswerFresh, Receive, Introspections
    <3> QED BY <1>0, <1>1, <1>2, <2>0, <2>1, <3>1 DEF EntrySound
  <2>2. CASE cache'[t] = cache[t]
    BY <1>1, <1>2, <2>0, <2>2 DEF EntrySound
  <2>3. CASE cache'[t] = None
    BY <1>1, <1>2, <2>0, <2>3 DEF EntrySound
  <2> QED BY <1>4, <2>1, <2>2, <2>3
<1>7. ASSUME NEW h \in Lookups PROVE AnswerFresh(h)'
  <2>1. lookup'[h] = lookup[h] \/ lookup'[h].at = "idle"
    BY <1>0, <1>2, <1>3
  <2> QED BY <1>1, <1>2, <2>1 DEF GatewayInv, AnswerFresh
<1> QED BY <1>1, <1>5, <1>6, <1>7 DEF GatewayInv

LEMMA EvictionKeeps ==
  ASSUME GatewayInv, NEW r \in Requests, EvictOnRevocation(r)
  PROVE  GatewayInv'
<1>0. \A t \in Sids : EntrySound(t)
  BY DEF GatewayInv
<1>1. /\ AccountsInv' /\ tok' = tok /\ user' = user /\ dead' = dead /\ lookup' = lookup
      /\ \A t \in Sids : Accepted(t)' <=> Accepted(t)
  BY AccountStands DEF GatewayInv, EvictOnRevocation
<1>2. CASE UNCHANGED <<cache, history>>
  <2>1. GatewayTyped'
    BY <1>1, <1>2 DEF GatewayInv, GatewayTyped, history
  <2>2. \A t \in Sids : EntrySound(t)'
    BY <1>0, <1>1, <1>2 DEF EntrySound, history
  <2>3. \A h \in Lookups : AnswerFresh(h)'
    BY <1>1, <1>2 DEF GatewayInv, AnswerFresh, history
  <2> QED BY <1>1, <2>1, <2>2, <2>3 DEF GatewayInv
<1>3. CASE /\ Reports
           /\ \/ cache' = [s \in Sids |-> None]
              \/ cache' = cache /\ unevicted' = unevicted \cup (Over \cap Cached)
  <2>1. GatewayTyped'
    BY <1>1, <1>3 DEF GatewayInv, GatewayTyped, Reports, Over
  <2>2. ASSUME NEW t \in Sids PROVE EntrySound(t)'
    <3>1. EntrySound(t) /\ (t \in ended' <=> t \in ended \/ t \in Over)
      BY <1>0, <1>3 DEF Reports
    <3>2. CASE cache' = [s \in Sids |-> None]
      <4>1. cache'[t] = None
        BY <3>2
      <4> QED BY <1>1, <3>1, <4>1 DEF EntrySound, Over
    <3>3. CASE cache' = cache /\ unevicted' = unevicted \cup (Over \cap Cached)
      <4>1. overtaken \subseteq overtaken'
        BY <1>3 DEF Reports
      <4> QED BY <1>1, <3>1, <3>3, <4>1 DEF EntrySound, Over, Cached
    <3> QED BY <1>3, <3>2, <3>3
  <2>3. ASSUME NEW h \in Lookups PROVE AnswerFresh(h)'
    <3>1. UnderWay(h) => lookup[h].sid \in overtaken'
      BY <1>3 DEF Reports
    <3>2. \A t : t \notin ended \ overtaken /\ t \notin Over => t \notin ended' \ overtaken'
      BY <1>3 DEF Reports
    <3>3. AnswerFresh(h)
      BY DEF GatewayInv
    <3> QED BY <1>1, <3>1, <3>2, <3>3 DEF AnswerFresh, UnderWay
  <2> QED BY <1>1, <2>1, <2>2, <2>3 DEF GatewayInv
<1> QED BY <1>2, <1>3 DEF EvictOnRevocation, Evict

LEMMA TickKeeps ==
  ASSUME GatewayInv, Tick
  PROVE  GatewayInv'
<1>0. /\ lookup \in [Lookups -> Introspections] /\ dead \in [Sids -> Nat]
      /\ TimeOut \in Nat /\ TTL \in Nat \ {0} /\ \A t \in Sids : EntrySound(t)
  BY GatewayConstants DEF GatewayInv, GatewayTyped
<1>1. /\ AccountsInv' /\ tok' = tok /\ user' = user
      /\ overtaken' = overtaken /\ unevicted' = unevicted /\ ended' = ended
      /\ \A t \in Sids : Accepted(t)' <=> Accepted(t)
  BY AccountStands DEF GatewayInv, Tick, history
<1>2. dead' \in [Sids -> Nat] /\ \A t \in Sids :
        /\ dead'[t] <= dead[t] + 1
        /\ tok[t].state = "unissued" \/ Accepted(t) => dead'[t] = dead[t]
  BY <1>0 DEF Tick
<1>3. lookup' = [g \in Lookups |-> IF lookup[g].at = "idle" THEN Idle
                                   ELSE [lookup[g] EXCEPT !.age = @ + 1]]
  BY DEF Tick
<1>4. ASSUME NEW g \in Lookups
      PROVE  /\ lookup'[g] \in Introspections
             /\ \/ lookup'[g].at = "idle"
                \/ /\ lookup'[g].at = lookup[g].at /\ lookup'[g].sid = lookup[g].sid
                   /\ lookup'[g].active = lookup[g].active
                   /\ lookup'[g].age = lookup[g].age + 1
  <2>1. lookup[g] \in Introspections
    BY <1>0
  <2>2. CASE lookup[g].at = "idle"
    <3>1. lookup'[g] = Idle
      BY <1>3, <2>2
    <3> QED BY <1>0, <3>1 DEF Introspections, Idle
  <2>3. CASE lookup[g].at # "idle"
    <3>1. lookup'[g] = [lookup[g] EXCEPT !.age = @ + 1]
      BY <1>3, <2>3
    <3>2. lookup[g].age # TimeOut
      BY <2>3 DEF Tick, Overdue
    <3> QED BY <1>0, <2>1, <3>1, <3>2 DEF Introspections
  <2> QED BY <2>2, <2>3
<1>5. lookup' \in [Lookups -> Introspections]
  BY <1>3, <1>4
<1>6. cache' = [s \in Sids |-> Aged(s)]
  BY DEF Tick
<1>7. GatewayTyped'
  BY <1>1, <1>2, <1>4, <1>5, <1>6 DEF GatewayInv, GatewayTyped
<1>8. ASSUME NEW t \in Sids PROVE EntrySound(t)'
  <2>1. EntrySound(t) /\ dead[t] \in Nat /\ dead'[t] \in Nat /\ cache'[t] = Aged(t)
    BY <1>0, <1>2, <1>6
  <2>2. CASE cache'[t] = None
    BY <1>1, <1>2, <2>1, <2>2 DEF EntrySound
  <2>3. CASE cache'[t] # None
    <3>1. /\ cache[t] # None /\ cache[t] \in 0..(TTL - 1) /\ cache'[t] = cache[t] + 1
          /\ cache[t] + 1 # TTL
      BY <2>1, <2>3 DEF Aged, EntrySound
    <3> QED BY <1>0, <1>1, <1>2, <2>1, <2>3, <3>1 DEF EntrySound
  <2> QED BY <2>2, <2>3
<1>9. ASSUME NEW g \in Lookups PROVE AnswerFresh(g)'
  <2>1. /\ lookup[g].at # "idle" => lookup[g].sid \in Sids
        /\ lookup[g].at # "idle" => dead[lookup[g].sid] \in Nat /\ dead'[lookup[g].sid] \in Nat
        /\ lookup[g].age \in Nat /\ AnswerFresh(g)
    BY <1>0, <1>2 DEF GatewayInv, GatewayTyped, Introspections
  <2> QED BY <1>1, <1>2, <1>4, <2>1 DEF AnswerFresh
<1> QED BY <1>1, <1>7, <1>8, <1>9 DEF GatewayInv

LEMMA GatewayStep ==
  ASSUME GatewayInv, [GatewayNext]_gatewayVars PROVE GatewayInv'
<1>1. CASE UNCHANGED gatewayVars
  BY <1>1, IdentityStep DEF gatewayVars
<1>2. CASE Next /\ UNCHANGED gateway
  BY <1>2, IdentityStep
<1>3. CASE GatewaySteps
  BY <1>3, AskingKeeps, ReceiveKeeps, EvictionKeeps, TickKeeps DEF GatewaySteps
<1> QED BY <1>1, <1>2, <1>3 DEF GatewayNext

LEMMA GatewayStart == GatewayInit => GatewayInv
<1> SUFFICES ASSUME GatewayInit PROVE GatewayInv
  OBVIOUS
<1>1. AccountsInv
  BY AccountsStart DEF GatewayInit
<1>2. Idle \in Introspections /\ Idle.at = "idle"
  BY GatewayConstants DEF Introspections, Idle
<1>3. /\ lookup = [g \in Lookups |-> Idle] /\ cache = [s \in Sids |-> None]
      /\ dead = [s \in Sids |-> 0] /\ ended = {}
  BY DEF GatewayInit
<1> HIDE DEF Idle
<1>4. GatewayTyped /\ \A g \in Lookups : AnswerFresh(g)
  BY <1>2, <1>3 DEF GatewayTyped, AnswerFresh
<1>5. \A s \in Sids : EntrySound(s)
  BY <1>3 DEF EntrySound
<1> QED BY <1>1, <1>4, <1>5 DEF GatewayInv

(* The gateway serves a token less than TTL + TimeOut after identity has   *)
(* ceased to accept it, and after a reply that reported a revocation only  *)
(* if an answer was on its way then, or if the reply was to a reset or a   *)
(* forced logout, which evict nothing (tokenCache, evictOnRevocation).     *)
THEOREM StaleTokensAreLimited == GatewaySpec => []StaleLimited
<1>1. ASSUME GatewayInv PROVE StaleLimited
  <2>1. TTL \in Nat /\ TimeOut \in Nat /\ dead \in [Sids -> Nat] /\ ended \subseteq Sids
    BY <1>1, GatewayConstants DEF GatewayInv, GatewayTyped
  <2>2. StaleBounded
    <3> SUFFICES ASSUME NEW s \in Sids, cache[s] # None PROVE dead[s] < TTL + TimeOut
      BY DEF StaleBounded, Cached
    <3>1. cache[s] \in 0..(TTL - 1) /\ dead[s] <= cache[s] + TimeOut /\ dead[s] \in Nat
      BY <1>1, <2>1 DEF GatewayInv, EntrySound
    <3> QED BY <2>1, <3>1
  <2>3. OnlyOvertakenServed
    BY <1>1 DEF GatewayInv, EntrySound, OnlyOvertakenServed, Cached
  <2> QED BY <2>2, <2>3 DEF StaleLimited
<1>2. GatewayInv => StaleLimited
  BY <1>1
<1> QED BY <1>2, GatewayStart, GatewayStep, PTL DEF GatewaySpec
=============================================================================
