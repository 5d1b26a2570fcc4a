---------------------------- MODULE KeyRegistry ----------------------------
(***************************************************************************)
(* What the registry promises the programs and clients that rely on it, as *)
(* one immutable map: an address is either unpublished or stands, for ever, *)
(* for one validated verifying key whose hash it is.  Accounts, staging,   *)
(* lamports, signers and transactions are not visible here.                *)
(***************************************************************************)
CONSTANTS
    Address,
    KeyAddress(_),              \* canonical address of a body
    ValidateForPublish(_, _),   \* body, n: Ok or an error
    Ok

VARIABLE keys       \* from published addresses to [n, body]

Genuine(a, key) ==
    /\ a \in Address
    /\ a = KeyAddress(key.body)
    /\ ValidateForPublish(key.body, key.n) = Ok

Init == keys = [a \in {} |-> a]

(* One transaction may publish several keys. *)
Publish ==
    /\ \A a \in DOMAIN keys : a \in DOMAIN keys' /\ keys'[a] = keys[a]
    /\ \A a \in DOMAIN keys' : a \notin DOMAIN keys => Genuine(a, keys'[a])

Spec == Init /\ [][Publish]_keys
=============================================================================
