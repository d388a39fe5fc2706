--------------------------- MODULE MCSpliceEngine ---------------------------
(***************************************************************************)
(* Model of write_elf_segments at a reduced scale: 8-byte pages, 2-byte   *)
(* spliced values, three of the five spliced symbols, two PT_LOAD headers. *)
(* A text segment (R|X) at 0 or 5 and a data segment (R|W) at 16 or 21,   *)
(* with or without a .bss tail; the first may run into the page of the    *)
(* second.  A start 5 bytes into its page leaves room for a symbol in the  *)
(* zero fill before it.                                                    *)
(***************************************************************************)
EXTENDS SpliceEngine

CONSTANTS HEAP_BASE, RELA, ENCLAVE_SIZE

MCSyms == {HEAP_BASE, RELA, ENCLAVE_SIZE}
MCSymOrder == <<HEAP_BASE, RELA, ENCLAVE_SIZE>>

TextSegs == {[vaddr |-> v, memsz |-> m, filesz |-> f, flags |-> {"R", "X"}] :
                v \in {0, 5}, m \in {8, 12}, f \in {4, 8}}
DataSegs == {[vaddr |-> v, memsz |-> m, filesz |-> f, flags |-> {"R", "W"}] :
                v \in {16, 21}, m \in {10}, f \in {0, 6}}
(* Segment bounds of an input, as write_elf_segments computes them. *)
InStart(in, k) == in.phdrs[k].vaddr
InBase(in, k)  == InStart(in, k) - (InStart(in, k) % PAGE)
InEnd(in, k)   == InStart(in, k) + in.phdrs[k].memsz

(* The splice address a lies in segment k as spec section 4.4 states it. *)
InSeg(in, a, k) == InBase(in, k) <= a /\ a + WORD <= InEnd(in, k)

(* Every symbol lies in the memory image of some PT_LOAD segment. *)
SpecLayout(in) == \A s \in MCSyms : \E k \in DOMAIN in.phdrs : InSeg(in, in.addr[s], k)

(* A symbol whose 8 bytes end exactly at its segment's end. *)
AtEnd(in) == \E s \in MCSyms, k \in DOMAIN in.phdrs :
                InSeg(in, in.addr[s], k) /\ in.addr[s] + WORD = InEnd(in, k)

(* A symbol at the page base of a segment that has file data. *)
AtBaseWithData(in) == \E s \in MCSyms, k \in DOMAIN in.phdrs :
                InSeg(in, in.addr[s], k) /\ in.addr[s] = InBase(in, k)
                /\ in.phdrs[k].filesz > 0

(* Symbol addresses: distinct and WORD aligned, as u64 statics are. *)
SymAddrs == {a \in [MCSyms -> {a \in 0..30 : a % WORD = 0}] :
                \A s, t \in MCSyms : s # t => a[s] # a[t]}

(* Two required symbols at one address, the third elsewhere: check_symbols *)
(* checks names, not addresses, so such an ELF passes it.                 *)
DupAddrs == {a \in [MCSyms -> {a \in 0..30 : a % WORD = 0}] :
                a[HEAP_BASE] = a[RELA] /\ a[ENCLAVE_SIZE] # a[RELA]}

AllInputs == {[phdrs |-> <<t, d>>, addr |-> a] :
                t \in TextSegs, d \in DataSegs, a \in SymAddrs}

PassInputs == {in \in AllInputs : SpecLayout(in) /\ ~AtEnd(in) /\ ~AtBaseWithData(in)}
BaseInputs == {in \in AllInputs : SpecLayout(in) /\ ~AtEnd(in) /\ AtBaseWithData(in)}
DupInputs  == {in \in {[phdrs |-> <<t, d>>, addr |-> a] :
                         t \in TextSegs, d \in DataSegs, a \in DupAddrs} :
                 SpecLayout(in) /\ ~AtEnd(in) /\ ~AtBaseWithData(in)}
EndInputs  == {in \in AllInputs : SpecLayout(in) /\ AtEnd(in) /\ ~AtBaseWithData(in)}

=============================================================================
