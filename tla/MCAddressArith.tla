--------------------------- MODULE MCAddressArith ---------------------------
(***************************************************************************)
(* One call of enclave_size (elf2sgxs.rs line 343) for every last-page    *)
(* address up to and past the cap, at a reduced f64 significand width.    *)
(***************************************************************************)
EXTENDS AddressArith

CONSTANT Bound  \* largest argument tried; above 2^MANT to reach the cap

VARIABLES last, res, called

vars == <<last, res, called>>

Init ==
    /\ last \in 0..Bound
    /\ res = [ok |-> FALSE, val |-> 0]
    /\ called = FALSE

Call ==
    /\ ~called
    /\ res' = enclave_size(last)
    /\ called' = TRUE
    /\ UNCHANGED last

Spec == Init /\ [][Call]_vars

(* Enclave-size law (spec 4.1 and 8.5): for 0 < x < 2^53 the f64 decode   *)
(* yields the least power of two at or above x, exactly a power of two   *)
(* giving itself; 0 gives 0, and every x from 2^53 on is refused.         *)
EnclaveSizeLaw ==
    called =>
        CASE last = 0 -> res = [ok |-> TRUE, val |-> 0]
          [] last >= 2^MANT -> ~res.ok
          [] OTHER -> res.ok /\ res.val = LeastPow2AtLeast(last)

=============================================================================
