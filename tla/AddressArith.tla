---------------------------- MODULE AddressArith ----------------------------
(***************************************************************************)
(* The address arithmetic of elf2sgxs.rs: rounding to pages and the       *)
(* enclave size, computed through the f64 decode of the last page address. *)
(* PAGE stands for 0x1000 and MANT for the 53 significand bits of an f64; *)
(* the code's cap 0x20000000000000 is 2^MANT.                              *)
(***************************************************************************)
EXTENDS Integers

CONSTANTS
    PAGE,  \* page size, 0x1000
    MANT   \* significand bits of f64, including the implicit one: 53

ASSUME PAGE > 0 /\ MANT >= 2

(* size_align_page_size: round a size up to a multiple of the page size. *)
size_align_page_size(size) ==
    IF size % PAGE = 0 THEN size ELSE size + (PAGE - (size % PAGE))

(* addr & !0xfff *)
PageBase(a) == a - (a % PAGE)

(* Number of significant bits of x: floor(log2 x) + 1, and 0 for 0. *)
RECURSIVE BitLength(_)
BitLength(x) == IF x = 0 THEN 0 ELSE 1 + BitLength(x \div 2)

(* f64::integer_decode of (x as f64), x > 0: x = mantissa * 2^exponent    *)
(* with the implicit bit set, so the mantissa lies in [2^(MANT-1), 2^MANT).*)
(* Exact below 2^MANT; above, the dropped low bits stand for the rounding *)
(* of the conversion, which the code never reaches.                        *)
IntegerDecode(x) ==
    LET k == BitLength(x) - 1
    IN [mantissa |-> IF k <= MANT - 1 THEN x * 2^(MANT - 1 - k)
                                      ELSE x \div 2^(k - (MANT - 1)),
        exponent |-> k - (MANT - 1)]

(* A faulty variant, as a coding slip would write it: the cap test with > *)
(* for >=.                                                                 *)
enclave_size_cap_gt(last_page_address) ==
    IF last_page_address = 0 THEN [ok |-> TRUE, val |-> 0]
    ELSE IF last_page_address > 2^MANT THEN [ok |-> FALSE, val |-> 0]
    ELSE LET d == IntegerDecode(last_page_address)
             adjust == IF d.mantissa = 2^(MANT - 1) THEN MANT - 1 ELSE MANT
         IN [ok |-> TRUE, val |-> 2^(d.exponent + adjust)]

(* enclave_size: Ok(0) for 0, Err(EnclaveSizeTooBig) from 2^MANT on, else *)
(* 1 << (exponent + adjust), where adjust drops from 53 to 52 when the    *)
(* mantissa is exactly the implicit bit (mantissa ^ 2^52 == 0), i.e. when *)
(* the address is itself a power of two.                                  *)
enclave_size(last_page_address) ==
    IF last_page_address = 0 THEN [ok |-> TRUE, val |-> 0]
    ELSE IF last_page_address >= 2^MANT THEN [ok |-> FALSE, val |-> 0]
    ELSE LET d == IntegerDecode(last_page_address)
             adjust == IF d.mantissa = 2^(MANT - 1) THEN MANT - 1 ELSE MANT
         IN [ok |-> TRUE, val |-> 2^(d.exponent + adjust)]

-----------------------------------------------------------------------------
(* Reference: the least power of two at or above x (x >= 1). *)
LeastPow2AtLeast(x) ==
    CHOOSE p \in {2^i : i \in 0..MANT} : p >= x /\ (p = 1 \/ p \div 2 < x)

=============================================================================
