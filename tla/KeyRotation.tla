----------------------------- MODULE KeyRotation -----------------------------
(***************************************************************************)
(* The JWT key ring of the pods that sign tokens (user-service) and of the *)
(* pods that verify them (api-gateway), while operators replace the key    *)
(* (app/jwt_keyring.py in both services).                                  *)
(*                                                                         *)
(* A pod reads its settings when its process starts and never again, so    *)
(* during each step of a rotation old and new settings are at work side by *)
(* side.  `day` counts the steps that the operators have published:        *)
(*                                                                         *)
(*   0  JWT_SECRETS is empty: one key, kid "default"                       *)
(*   1  the new key is in both rings, tokens are still signed with the old *)
(*   2  user-service signs with the new key                                *)
(*   3  the old key is out of both rings ("Day 4")                         *)
(***************************************************************************)
EXTENDS Naturals

CONSTANTS Gateways,  \* pods of the api-gateway
          Signers,   \* pods of the user-service
          JwtLife,   \* jwt_expiry_minutes, in ticks
          None

ASSUME RotationAssumption ==
    /\ Gateways \cap Signers = {}
    /\ JwtLife \in Nat \ {0}
    /\ None \notin {"default", "k2"}

VARIABLES day,     \* the settings that a pod starting now would read
          boot,    \* the settings that each pod did read
          waited   \* ticks since the last signer left the old key, saturating

rotationVars == <<day, boot, waited>>

Pods == Gateways \cup Signers
Days == 0..3
Secrets == {"old", "new"}
Kids == {"default", "k2"}

RotationTypeOK ==
    /\ day \in Days
    /\ boot \in [Pods -> Days]
    /\ waited \in 0..JwtLife

RotationInit ==
    /\ day = 0
    /\ boot = [p \in Pods |-> 0]
    /\ waited = 0

-----------------------------------------------------------------------------
(* JWT_SECRETS as published on each day; empty means no ring was set up.   *)
JwtSecrets(d) ==
    LET published == IF d = 0 THEN {} ELSE IF d = 3 THEN {"k2"} ELSE Kids
    IN  [k \in published |-> IF k = "default" THEN "old" ELSE "new"]

JwtCurrentKid(d) == IF d < 2 THEN "default" ELSE "k2"

(* An empty JWT_SECRETS falls back to the single jwt_secret.               *)
ParseKeyring(secrets) ==
    IF DOMAIN secrets = {} THEN [k \in {"default"} |-> "old"] ELSE secrets

Ring(p) == ParseKeyring(JwtSecrets(boot[p]))

(* A mutant of the next definition.                                        *)
MutNewestKey(ring, kid) ==
    IF "k2" \in DOMAIN ring THEN ring["k2"] ELSE ring["default"]

(* A token of a kid that is not in the ring has no key; one without a kid, *)
(* from before kids were stamped, is checked with "default".               *)
SelectVerificationKey(ring, kid) ==
    IF kid \in DOMAIN ring THEN ring[kid]
    ELSE IF kid = None /\ "default" \in DOMAIN ring THEN ring["default"]
    ELSE None

(* The operators follow the choreography: nobody signs with the new key    *)
(* before every pod knows it, and the old key goes when the tokens of the  *)
(* last pod that signed with it have expired.                              *)
MayPublish(d) ==
    /\ d = 2 => \A p \in Pods : boot[p] >= 1
    /\ d = 3 => waited = JwtLife

Publish ==
    /\ day < 3
    /\ MayPublish(day + 1)
    /\ day' = day + 1
    /\ UNCHANGED <<boot, waited>>

(* A pod restarts, in the course of the roll-out or after a crash, and     *)
(* reads what is published by then.                                        *)
Restart(p) ==
    /\ boot' = [boot EXCEPT ![p] = day]
    /\ UNCHANGED <<day, waited>>

NewKeyOnly == \A s \in Signers : boot[s] >= 2

RotationTick ==
    /\ waited' = IF NewKeyOnly /\ waited < JwtLife THEN waited + 1 ELSE waited
    /\ UNCHANGED <<day, boot>>
=============================================================================
