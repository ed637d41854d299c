------------------------------ MODULE HostedAccess ------------------------------
(***************************************************************************)
(* The access token of a hosted KeySpot (core/src/index.ts): checkpoint()  *)
(* calls checkHostedAccess first, which admits on a token that has not     *)
(* expired, drops one that has, and asks the facilitator for a new one     *)
(* across an await.  The host may call setAccessToken, and other           *)
(* checkpoints may run, meanwhile.  The facilitator is external.           *)
(***************************************************************************)
EXTENDS Integers, FiniteSets

CONSTANTS
  Checks,       (* checkpoints that can be in progress at once              *)
  NoToken,
  MaxTTL,       (* MAX_TOKEN_TTL                                            *)
  DefaultTTL,   (* 60_000, for an answer without expiresInMs                *)
  Lifetimes,    (* the expiresInMs a facilitator answers; may be negative   *)
  MaxAccessTime (* bound on the clock                                       *)

ASSUME HostedAssumption ==
  /\ IsFiniteSet(Checks)
  /\ {MaxTTL, DefaultTTL, MaxAccessTime} \subseteq Nat
  /\ Lifetimes \subseteq Int
  /\ NoToken \notin Int

VARIABLES
  accessTime,   (* Date.now()                                               *)
  expiry,       (* this.accessToken: its expiresAt, or NoToken              *)
  facilitator,  (* the configuration: no URL, http: or https:               *)
  check         (* [Checks -> idle, fetching, admitted, denied]             *)

hosted == <<accessTime, expiry, facilitator, check>>

HostedInit ==
  /\ accessTime = 1
  /\ expiry = NoToken
  /\ facilitator \in {"none", "insecure", "secure"}
  /\ check = [c \in Checks |-> "idle"]

-------------------------------------------------------------------------------
(* setAccessToken: an expiry of 0 counts as none given.                    *)
Clamped(e) ==
  LET given == e - accessTime
  IN accessTime + IF e = 0 \/ given > MaxTTL THEN MaxTTL ELSE given

Valid(e) == e # NoToken /\ accessTime < e

(* The host sets a token with an expiry, which may lie in the past or far  *)
(* ahead, or with none (0).                                                *)
SetAccessToken ==
  \E e \in 0 .. MaxAccessTime + 2 * MaxTTL :
    /\ expiry' = Clamped(e)
    /\ UNCHANGED <<accessTime, facilitator, check>>

(* The part of checkHostedAccess up to its await: the token is tested and  *)
(* dropped in one step, so no token set meanwhile is dropped with it.      *)
CheckAccess(c) ==
  /\ check[c] # "fetching"
  /\ expiry' = IF Valid(expiry) THEN expiry ELSE NoToken
  /\ check' = [check EXCEPT ![c] =
       IF Valid(expiry) THEN "admitted"
       ELSE IF facilitator = "secure" THEN "fetching" ELSE "denied"]
  /\ UNCHANGED <<accessTime, facilitator>>

(* The facilitator grants a token: obtainFacilitatorToken turns its        *)
(* lifetime into an expiry and setAccessToken clamps it.  The check is     *)
(* admitted even when the lifetime is not positive, and a longer token set *)
(* meanwhile is overwritten.                                               *)
FacilitatorGrants(c) ==
  /\ check[c] = "fetching"
  /\ \E ttl \in Lifetimes \cup {DefaultTTL} : expiry' = Clamped(accessTime + ttl)
  /\ check' = [check EXCEPT ![c] = "admitted"]
  /\ UNCHANGED <<accessTime, facilitator>>

(* A plausible bug: the expired token is dropped after the await.          *)
FacilitatorRefuses_Clears(c) ==
  /\ check[c] = "fetching"
  /\ check' = [check EXCEPT ![c] = "denied"]
  /\ expiry' = NoToken
  /\ UNCHANGED <<accessTime, facilitator>>

(* An answer that is not ok or has no token, or a fetch that rejects.      *)
FacilitatorRefuses(c) ==
  /\ check[c] = "fetching"
  /\ check' = [check EXCEPT ![c] = "denied"]
  /\ UNCHANGED <<accessTime, expiry, facilitator>>

AccessTick ==
  /\ accessTime < MaxAccessTime
  /\ accessTime' = accessTime + 1
  /\ UNCHANGED <<expiry, facilitator, check>>

HostedNext ==
  \/ SetAccessToken
  \/ AccessTick
  \/ \E c \in Checks : CheckAccess(c) \/ FacilitatorGrants(c) \/ FacilitatorRefuses(c)

-------------------------------------------------------------------------------
(* A token that is still valid is never dropped, whatever a check that     *)
(* found an older one expired is waiting for: it is only replaced, and by  *)
(* none that outlives MAX_TOKEN_TTL (index.ts:401-455).                    *)
TokenKept ==
  [][/\ Valid(expiry) => expiry' # NoToken
     /\ expiry' \in {expiry, NoToken} \/ expiry' <= accessTime + MaxTTL]_hosted

===============================================================================
