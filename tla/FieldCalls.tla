----------------------------- MODULE FieldCalls -----------------------------
(***************************************************************************)
(* Field arithmetic on any elements (Fe of src/crypto/x25519.rs).          *)
(***************************************************************************)
EXTENDS Fe25519, Calls

CONSTANTS Lefts, Rights   \* the elements an operation is given

\* Five limbs, each of at most twice the width of one: more than any sum or
\* difference the ladder makes.
Limbs(a) ==
  /\ DOMAIN a = 1 .. 5
  /\ \A i \in 1 .. 5 : a[i] \in Nat /\ a[i] <= Limb * Limb

ASSUME ModulusAssumption ==
  Limb \in Nat /\ FOLD \in Nat /\ 7 < Limb /\ 0 < FOLD /\ FOLD < Limb

ASSUME ElementAssumption == \A a \in Lefts \cup Rights : Limbs(a)

FieldCall == Call("field", Lefts \X Rights)

FieldSpec == Idle /\ [][FieldCall \/ Return]_call

\* Addition, subtraction, products, squares and small multiples agree with the
\* integers modulo p, on limbs that are not fully reduced (src/crypto/x25519.rs).
FieldOps == call.on = "field" => Computes(call.args[1], call.args[2])

\* The encoding is the unique residue below p, for values between p and the top
\* of the limbs as well (to_bytes of src/crypto/x25519.rs).
Canonical == call.on = "field" => Encodes(call.args[1])

=============================================================================
