-------------------------------- MODULE Keys ---------------------------------
(***************************************************************************)
(* Rotation of identity-service's keys: the key that encrypts TOTP seeds   *)
(* (keyring, rotateTotpKeys) and the key that signs access tokens          *)
(* (keyManager).  Every instance reads its keys once, when it starts, so a *)
(* rotation reaches the instances one restart at a time.  The operator     *)
(* follows the steps the two files state.                                  *)
(***************************************************************************)
EXTENDS Integers, FiniteSets

CONSTANTS
  Instances,  \* processes of identity-service
  Holders,    \* users with a seed
  Signed,     \* access tokens
  MaxSeeds    \* bound on the seeds made

VARIABLES
  config,  \* seed keys each instance read: "before", "both", or the new one "after"
  signer,  \* signing keys each instance read, likewise
  seed,    \* the stored seeds, by user
  known,   \* the seed in the user's authenticator, 0 without one
  enabled, \* users whose second factor is on
  made,    \* how many seeds were made
  script,  \* the run of rotateTotpKeys
  clean,   \* a run of the script ended with no failure
  access   \* the access tokens

keysVars == <<config, signer, seed, known, enabled, made, script, clean, access>>

-----------------------------------------------------------------------------
NoSeed == [key |-> "none", of |-> 0]
Resting == [on |-> FALSE, left |-> {}, batch |-> {}, failed |-> FALSE,
            read |-> [u \in Holders |-> NoSeed]]

Active(c) == IF c = "before" THEN "v1" ELSE "v2"
Previous(c) == IF c = "both" THEN {"v1"} ELSE {}

(* decrypt: plaintext from before encryption is read until its deadline,   *)
(* which lies in the time both keys are configured.                        *)
Decrypts(c, s) ==
  \/ s.key = Active(c) \/ s.key \in Previous(c)
  \/ s.key = "plain" /\ c # "after"

needsRotationIfKeyed(c, s) == s.key \notin {"none", "plain", Active(c)}
needsRotation(c, s) == s.key \notin {"none", Active(c)}

(* getVerificationKey: a retired or unknown kid is refused. *)
getVerificationKey(c, kid) == kid = Active(c) \/ kid \in Previous(c)

KeysInit ==
  /\ config = [i \in Instances |-> "before"]
  /\ signer = [i \in Instances |-> "before"]
  /\ known = [u \in Holders |-> 0]
  /\ \E old \in [Holders -> {"none", "plain", "v1"}] :
       /\ seed = [u \in Holders |-> [key |-> old[u], of |-> 0]]
       /\ enabled \in SUBSET {u \in Holders : old[u] # "none"}
  /\ made = 0
  /\ script = Resting
  /\ clean = FALSE
  /\ access = [t \in Signed |-> "none"]

-----------------------------------------------------------------------------
(* A restart with the new key active and the old one kept. *)
Promote(i) ==
  /\ config[i] = "before"
  /\ config' = [config EXCEPT ![i] = "both"]
  /\ UNCHANGED <<signer, seed, known, enabled, made, script, clean, access>>

Promoted(read) == \A i \in Instances : read[i] # "before"

(* "Re-run without --dry-run, then drop v1." *)
Drop(i) ==
  /\ clean /\ config[i] = "both"
  /\ config' = [config EXCEPT ![i] = "after"]
  /\ UNCHANGED <<signer, seed, known, enabled, made, script, clean, access>>

PromoteSigner(i) ==
  /\ signer[i] = "before"
  /\ signer' = [signer EXCEPT ![i] = "both"]
  /\ UNCHANGED <<config, seed, known, enabled, made, script, clean, access>>

(* "Move the old one to ... for one token lifetime, then retire it." *)
RetireSigner(i) ==
  /\ Promoted(signer) /\ \A t \in Signed : access[t] # "v1"
  /\ signer[i] = "both"
  /\ signer' = [signer EXCEPT ![i] = "after"]
  /\ UNCHANGED <<config, seed, known, enabled, made, script, clean, access>>

-----------------------------------------------------------------------------
setup2fa(i, u) ==
  /\ u \notin enabled /\ made < MaxSeeds
  /\ made' = made + 1
  /\ seed' = [seed EXCEPT ![u] = [key |-> Active(config[i]), of |-> made']]
  /\ known' = [known EXCEPT ![u] = made']
  /\ UNCHANGED <<config, signer, enabled, script, clean, access>>

enable2fa(i, u) ==
  /\ Decrypts(config[i], seed[u]) /\ seed[u].of = known[u]
  /\ enabled' = enabled \cup {u}
  /\ UNCHANGED <<config, signer, seed, known, made, script, clean, access>>

disable2fa(i, u) ==
  /\ u \in enabled
  /\ Decrypts(config[i], seed[u]) /\ seed[u].of = known[u]
  /\ enabled' = enabled \ {u}
  /\ seed' = [seed EXCEPT ![u] = NoSeed]
  /\ UNCHANGED <<config, signer, known, made, script, clean, access>>

-----------------------------------------------------------------------------
(* rotateTotpKeys walks a cursor, which fetches rows in batches, and       *)
(* writes each row back by its _id alone.                                  *)
StartScript ==
  /\ ~script.on /\ Promoted(config) /\ ~clean
  /\ script' = [Resting EXCEPT !.on = TRUE, !.left = Holders]
  /\ UNCHANGED <<config, signer, seed, known, enabled, made, clean, access>>

FetchBatch(rows) ==
  /\ script.batch = {} /\ rows \subseteq script.left /\ rows # {}
  /\ script' = [script EXCEPT !.left = @ \ rows, !.batch = rows,
       !.read = [u \in Holders |-> IF u \in rows THEN seed[u] ELSE NoSeed]]
  /\ UNCHANGED <<config, signer, seed, known, enabled, made, clean, access>>

RotateRow(u) ==
  /\ u \in script.batch
  /\ LET s == script.read[u]
         due == needsRotation("both", s)
         readable == Decrypts("both", s)
     IN /\ seed' = IF due /\ readable THEN [seed EXCEPT ![u] = [s EXCEPT !.key = "v2"]] ELSE seed
        /\ script' = [script EXCEPT !.batch = @ \ {u}, !.read[u] = NoSeed,
                                     !.failed = @ \/ (due /\ ~readable)]
  /\ UNCHANGED <<config, signer, known, enabled, made, clean, access>>

EndScript ==
  /\ script.on /\ script.left = {} /\ script.batch = {}
  /\ clean' = ~script.failed
  /\ script' = Resting
  /\ UNCHANGED <<config, signer, seed, known, enabled, made, access>>

(* The script stops anywhere; it is run again from the start. *)
StopScript ==
  /\ script.on
  /\ script' = Resting
  /\ UNCHANGED <<config, signer, seed, known, enabled, made, clean, access>>

-----------------------------------------------------------------------------
signAccessToken(i, t) ==
  /\ access[t] = "none"
  /\ access' = [access EXCEPT ![t] = Active(signer[i])]
  /\ UNCHANGED <<config, signer, seed, known, enabled, made, script, clean>>

Expire(t) ==
  /\ access[t] # "none"
  /\ access' = [access EXCEPT ![t] = "none"]
  /\ UNCHANGED <<config, signer, seed, known, enabled, made, script, clean>>

SeedNext ==
  \/ \E i \in Instances : Promote(i) \/ Drop(i)
  \/ \E i \in Instances, u \in Holders : setup2fa(i, u) \/ enable2fa(i, u) \/ disable2fa(i, u)
  \/ StartScript \/ EndScript \/ StopScript
  \/ \E rows \in SUBSET Holders : FetchBatch(rows)
  \/ \E u \in Holders : RotateRow(u)

SignNext ==
  \/ \E i \in Instances : PromoteSigner(i) \/ RetireSigner(i)
  \/ \E i \in Instances, t \in Signed : signAccessToken(i, t)
  \/ \E t \in Signed : Expire(t)

KeysSpec == KeysInit /\ [][SeedNext \/ SignNext]_keysVars
-----------------------------------------------------------------------------
(* While the rotation goes on, and when the old key is gone, every stored  *)
(* seed can be read by every instance that has started with the new key:   *)
(* no row was missed by the script or written under the old key after it   *)
(* (rotateTotpKeys: "a bad write here would lock the user out").           *)
SeedsReadable ==
  \A i \in Instances, u \in Holders :
    config[i] # "before" /\ seed[u] # NoSeed => Decrypts(config[i], seed[u])

(* No rotation logs anybody out: a token that has not expired verifies at  *)
(* every instance that has started with the new key, and one signed before *)
(* the rotation verifies at every instance (keyManager's overlap).         *)
TokensOverlap ==
  \A i \in Instances, t \in Signed :
    access[t] = "v1" \/ (access[t] = "v2" /\ signer[i] # "before")
      => getVerificationKey(signer[i], access[t])

(* Both rotations keep what was made before them usable.                   *)
KeysOverlap == SeedsReadable /\ TokensOverlap
=============================================================================
