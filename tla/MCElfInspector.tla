--------------------------- MODULE MCElfInspector ---------------------------
(***************************************************************************)
(* LayoutInfo::new over small ELF images: two of the six required names    *)
(* (sgx_entry, whose size is free, and HEAP_BASE, which must be 8 bytes),  *)
(* a text segment [0,16) R|X and a data segment [16,32) R|W, 8-bit         *)
(* offsets.  Each walk is varied over every table of up to 3 entries (2   *)
(* for the dynamic entries and RELA sections) while the others are one   *)
(* of a few valid tables.                                                  *)
(***************************************************************************)
EXTENDS ElfInspector

CONSTANTS sgx_entry, HEAP_BASE

MCRequired == {sgx_entry, HEAP_BASE}
MCSized == {HEAP_BASE}

Sym(n, d, sz) == [name |-> n, defined |-> d, size |-> sz]
Null == Sym("", FALSE, 0)  \* the reserved entry 0 of .dynsym
SymKinds == {Sym(sgx_entry, TRUE, 4), Sym(HEAP_BASE, TRUE, 8), Sym(HEAP_BASE, TRUE, 4),
             Sym("other", TRUE, 8), Sym("other", FALSE, 8)}
ValidSyms == <<Null, Sym(sgx_entry, TRUE, 4), Sym("other", TRUE, 8), Sym(HEAP_BASE, TRUE, 8)>>

Dyn(t, v) == [tag |-> t, val |-> v]
DynKinds == {Dyn("JMPREL", 0), Dyn("INIT_ARRAY", 0), Dyn("FINI", 0), Dyn("DT_RELCOUNT", 0),
             Dyn("RELA", 0), Dyn("DT_RELACOUNT", 0), Dyn("DT_RELACOUNT", 1), Dyn("PLTGOT", 0)}
ValidDyns == {<<>>, <<Dyn("RELA", 0), Dyn("DT_RELACOUNT", 1)>>,
              <<Dyn("DT_RELACOUNT", 0), Dyn("RELA", 0)>>}

Rel(s, t, o) == [sym |-> s, type |-> t, offset |-> o]
(* inside at the segment's last word, wrong type, wrong symbol, in the *)
(* read-only text, one byte past the segment end                       *)
RelKinds == {Rel(0, 8, 24), Rel(0, 1, 24), Rel(1, 8, 24), Rel(0, 8, 8), Rel(0, 8, 28)}
(* an offset whose offset+8 wraps past 2^W *)
WrapRel == Rel(0, 8, 2^W - 4)
ValidRelas == {<<>>, <<<<Rel(0, 8, 24)>>>>, <<<<>>, <<Rel(0, 8, 16)>>>>}

Phdrs == <<[vaddr |-> 0, memsz |-> 16, flags |-> {"R", "X"}],
           [vaddr |-> 16, memsz |-> 16, flags |-> {"R", "W"}]>>

Elf(c, ds, s, dy, d, r) == [class64 |-> c, dynsym |-> ds, syms |-> s, dynamic |-> dy,
                            dyns |-> d, relasecs |-> r, phdrs |-> Phdrs]

Sections(K) == BoundedSeq({<<>>} \cup {<<k>> : k \in K}, 2)

MCInputs ==
    {Elf(c, ds, ValidSyms, dy, <<>>, <<>>) :
        c \in BOOLEAN, ds \in {"absent", "other", "ok"}, dy \in {"absent", "other", "ok"}}
    \cup {Elf(TRUE, "ok", <<Null>> \o s, "ok", <<>>, <<>>) : s \in BoundedSeq(SymKinds, 3)}
    \cup {Elf(TRUE, "ok", ValidSyms, "ok", d, r) :
              d \in BoundedSeq(DynKinds, 2), r \in ValidRelas}
    \cup {Elf(TRUE, "ok", ValidSyms, "ok", d, r) : d \in ValidDyns, r \in Sections(RelKinds)}

(* The same, and RELA sections holding a relocation whose end wraps. *)
WrapInputs == MCInputs \cup
    {Elf(TRUE, "ok", ValidSyms, "ok", d, r) : d \in ValidDyns, r \in Sections({WrapRel})}

=============================================================================
