----------------------------- MODULE StealthKeys -----------------------------
(***************************************************************************)
(* The arithmetic of stealth addresses, over a small group like the one of *)
(* Ed25519: cyclic, of order Cofactor * Order with Order prime, the points *)
(* written as multiples of a point of full order.  The base point G has    *)
(* order Order.  The two hashes of a shared point are functions.           *)
(***************************************************************************)
EXTENDS Integers

CONSTANTS
    Order,          \* of G: the scalars are taken modulo it
    Cofactor,
    SharedHash,     \* [points -> scalars]
    ViewTag         \* [points -> bytes]

Scalars == 0 .. Order - 1
Points == 0 .. Cofactor * Order - 1

ASSUME StealthAssumption ==
    /\ Order \in Nat \ {0} /\ Cofactor \in Nat \ {0}
    /\ SharedHash \in [Points -> Scalars] /\ DOMAIN ViewTag = Points

(* Order is a prime that does not divide the cofactor. *)
ASSUME GroupAssumption == \A n \in 1 .. Order - 1 : (Cofactor * n) % Order # 0

plus(p, q) == (p + q) % (Cofactor * Order)
multiply(p, n) == (n * p) % (Cofactor * Order)
G == Cofactor

isSmallOrder(p) == multiply(p, Cofactor) = 0
isTorsionFree(p) == multiply(p, Order) = 0
isSafePublicKey(p) == p \in Points /\ ~isSmallOrder(p) /\ isTorsionFree(p)

publicKeyFromScalar(s) == multiply(G, s % Order)

stealthKeysFromSeeds(spend, scan) ==
    [spend |-> spend, scan |-> scan,
     spendPub |-> publicKeyFromScalar(spend), scanPub |-> publicKeyFromScalar(scan)]

metaOf(keys) == [spendPub |-> keys.spendPub, scanPub |-> keys.scanPub]
decodeMetaAddress(meta) == isSafePublicKey(meta.spendPub) /\ isSafePublicKey(meta.scanPub)

(* The randomness r and the hash must not be zero. *)
Degenerate(meta, r) == r = 0 \/ SharedHash[multiply(meta.scanPub, r)] = 0

createStealthPayment(meta, r) ==
    LET shared == multiply(meta.scanPub, r) IN
    [ephemeral |-> multiply(G, r),
     stealthPub |-> plus(meta.spendPub, multiply(G, SharedHash[shared])),
     viewTag |-> ViewTag[shared]]

scanByTagOnly(keys, a) ==
    IF ViewTag[multiply(a.ephemeral, keys.scan)] = a.viewTag
    THEN {(keys.spend + SharedHash[multiply(a.ephemeral, keys.scan)]) % Order} ELSE {}

(* The private scalar of the address paid, if the payment is to these keys.*)
scanAnnouncement(keys, a) ==
    LET shared == multiply(a.ephemeral, keys.scan)
        h == SharedHash[shared]
    IN  IF /\ ~isSmallOrder(a.ephemeral)
           /\ h # 0
           /\ ViewTag[shared] = a.viewTag
           /\ plus(keys.spendPub, multiply(G, h)) = a.stealthPub
        THEN {(keys.spend + h) % Order}
        ELSE {}
=============================================================================
