--------------------------- MODULE MCSgxsEmitter ----------------------------
(***************************************************************************)
(* LayoutInfo::write at a reduced scale: 8-byte pages, 2-byte values,      *)
(* an 8-bit f64 significand (the enclave-size cap is 256), 10-bit          *)
(* addresses and a 2-page guard.  Six ELF images: two ordinary ones, one   *)
(* whose text shares a page with its data segment, one whose enclave size *)
(* crosses a power of two only through its SSA frames, one too large for *)
(* the cap, one without PT_LOAD headers; every                             *)
(* configuration with page-multiple or unaligned heap and stack sizes.     *)
(***************************************************************************)
EXTENDS SgxsEmitter

CONSTANTS HEAP_BASE, RELA, ENCLAVE_SIZE

MCSyms == {HEAP_BASE, RELA, ENCLAVE_SIZE}
MCSymOrder == <<HEAP_BASE, RELA, ENCLAVE_SIZE>>

Text(v, m, f) == [vaddr |-> v, memsz |-> m, filesz |-> f, flags |-> {"R", "X"}]
Data(v, m, f) == [vaddr |-> v, memsz |-> m, filesz |-> f, flags |-> {"R", "W"}]
Addrs(a, b, c) == (HEAP_BASE :> a) @@ (RELA :> b) @@ (ENCLAVE_SIZE :> c)

MCInputs ==
    { [phdrs |-> <<Text(0, 12, 8), Data(21, 10, 6)>>, addr |-> Addrs(22, 24, 2)],
      [phdrs |-> <<Text(5, 8, 4), Data(16, 10, 6)>>, addr |-> Addrs(6, 18, 20)],
      [phdrs |-> <<Text(0, 12, 8), Data(36, 10, 6)>>, addr |-> Addrs(38, 40, 2)],
      [phdrs |-> <<Text(5, 12, 4), Data(21, 10, 6)>>, addr |-> Addrs(6, 22, 24)],
      [phdrs |-> <<Text(0, 12, 8), Data(200, 10, 10)>>, addr |-> Addrs(202, 204, 206)],
      [phdrs |-> <<>>, addr |-> Addrs(0, 2, 4)] }

(* A data segment ending exactly at 2^W: virtual_addr + mem_size wraps to *)
(* 0 in the u64 sum of line 335.                                           *)
WrapInputs ==
    { [phdrs |-> <<Text(0, 12, 8), Data(2^W - PAGE, PAGE, PAGE)>>, addr |-> Addrs(2, 4, 6)] }

MCConfigs == [heap_size : {8, 12, 16}, stack_size : {8, 12},
              ssaframesize : {1, 2}, debug : BOOLEAN]

=============================================================================
