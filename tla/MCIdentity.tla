----------------------------- MODULE MCIdentity ------------------------------
(***************************************************************************)
(* The identity service on small instances: an account with all its        *)
(* operations, the same account behind the gateway's cache, or the         *)
(* rotation of the keys.  Behind the cache the owner is logged in and has  *)
(* one password and no second factor, for what counts there is when        *)
(* sessions end.                                                           *)
(***************************************************************************)
EXTENDS Gateway, Keys

CONSTANT o1

VARIABLE scene

SceneInit ==
  /\ GatewayInit /\ KeysInit
  /\ scene \in {"account", "gateway", "seeds", "signing"}
  /\ scene = "gateway" => \E s \in Sids : tok[s].state = "open"
  /\ scene \notin {"account", "gateway"} => user.status = "none"
  /\ scene # "seeds" => enabled = {} /\ \A u \in Holders : seed[u].key = "none"

(* GatewayNext, with a few of the requests. *)
BehindGateway ==
  /\ \/ (\E r \in 1..2 : FirstFactor(r) \/ Revocation(r)) /\ UNCHANGED gateway
     \/ GatewaySteps
  /\ \A k \in (Mails \cup Otps) \ {o1} : tok'[k].state = "unissued"
  /\ \A r \in Requests : req'[r].pw \in {First, None}

SceneNext ==
  /\ UNCHANGED scene
  /\ \/ scene = "account" /\ Next /\ UNCHANGED <<gateway, keysVars>>
     \/ scene = "gateway" /\ BehindGateway /\ UNCHANGED keysVars
     \/ scene = "seeds" /\ SeedNext /\ UNCHANGED gatewayVars
     \/ scene = "signing" /\ SignNext /\ UNCHANGED gatewayVars

SceneSpec == SceneInit /\ [][SceneNext]_<<gatewayVars, keysVars, scene>>
=============================================================================
