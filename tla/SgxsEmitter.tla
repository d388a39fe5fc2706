---------------------------- MODULE SgxsEmitter -----------------------------
(***************************************************************************)
(* LayoutInfo::write (elf2sgxs.rs): computes the enclave layout from the  *)
(* PT_LOAD headers and the configuration, opens the canonical SGXS writer *)
(* with the ECREATE record, streams the ELF segments through              *)
(* write_elf_segments (module SpliceEngine, instantiated here over the    *)
(* same variables), then writes the heap, stack, TLS, TCS and SSA pages.  *)
(* Addresses are u64: W stands for 64 and GUARD for the 0x10000 gap.       *)
(***************************************************************************)
EXTENDS Integers, Sequences, SequencesExt, AddressArith

CONSTANTS
    WORD, Syms, SymOrder, Inputs,  \* as in SpliceEngine
    Configs,  \* possible [heap_size, stack_size, ssaframesize, debug]
    W,        \* integer width of the address computations, 64
    GUARD     \* guard gap between heap and stack, 0x10000

ASSUME W > MANT /\ GUARD % PAGE = 0

VARIABLES
    phdrs, symaddr, cur_splice, seg, data, cur_ptr, pc, result, pages, wnext,
    cfg,     \* LayoutInfo's ssaframesize, heap_size, stack_size, debug
    epc,     \* "layout", "segments", "runtime" or "done"
    lay,     \* the addresses computed by write: heap_addr, stack_addr, ...
    esize,   \* the size in the ECREATE record given to the writer
    rtq,     \* the writer calls for heap, stack, TLS, TCS, SSA still to make
    rtpages, \* extents the writer accepted after the ELF segments
    eresult  \* Ok, or the error write returns

seVars == <<phdrs, symaddr, cur_splice, seg, data, cur_ptr, pc, result, pages, wnext>>
vars == <<seVars, cfg, epc, lay, esize, rtq, rtpages, eresult>>

SE == INSTANCE SpliceEngine

-----------------------------------------------------------------------------
(* u64 addition, wrapping as a release build does. *)
U64Add(a, b) == (a + b) % 2^W

(* max over PT_LOAD headers of virtual_addr + mem_size, each a u64 sum *)
MaxLoadEnd == Max({U64Add(phdrs[k].vaddr, phdrs[k].memsz) : k \in DOMAIN phdrs})

(* Faulty variants, as a coding slip would write them: the heap placed at *)
(* the unrounded end of the image; the enclave sized without the SSA      *)
(* frames; the TCS pointing its SSA at itself.                            *)
LayoutNoAlign(max_addr, c) ==
    LET heap_addr  == max_addr
        stack_addr == U64Add(U64Add(heap_addr, c.heap_size), GUARD)
        stack_tos  == U64Add(stack_addr, c.stack_size)
    IN [heap_addr |-> heap_addr, stack_addr |-> stack_addr, stack_tos |-> stack_tos,
        tls_addr |-> stack_tos, tcs_addr |-> U64Add(stack_tos, PAGE)]
LastPageEndNoSsa(l, c) == U64Add(l.tcs_addr, PAGE)
TcsSelfSsa(l, c) ==
    [ossa |-> l.tcs_addr, nssa |-> IF c.debug THEN 2 ELSE 1,
     ofsbasgx |-> l.tls_addr, ogsbasgx |-> l.stack_tos]

(* heap_addr .. tcs_addr, lines 338-342 *)
Layout(max_addr, c) ==
    LET heap_addr  == size_align_page_size(max_addr) % 2^W
        stack_addr == U64Add(U64Add(heap_addr, c.heap_size), GUARD)
        stack_tos  == U64Add(stack_addr, c.stack_size)
    IN [heap_addr |-> heap_addr, stack_addr |-> stack_addr, stack_tos |-> stack_tos,
        tls_addr |-> stack_tos, tcs_addr |-> U64Add(stack_tos, PAGE)]

(* the argument of enclave_size: tcs_addr + (1 + 2*ssaframesize)*0x1000 *)
LastPageEnd(l, c) == U64Add(l.tcs_addr, (1 + 2 * c.ssaframesize) * PAGE)

(* the Tcs structure, fields other than zero (fslimit, gslimit 0xfff and  *)
(* oentry = sgx_entry.value are constants of the page and left out).      *)
TcsFields(l, c) ==
    [ossa |-> U64Add(l.tcs_addr, PAGE), nssa |-> IF c.debug THEN 2 ELSE 1,
     ofsbasgx |-> l.tls_addr, ogsbasgx |-> l.stack_tos]

NoAddr == -1  \* write_pages(.., None, ..): continue at the writer's cursor

(* The writer places a call without address at its cursor.  (Below it, a  *)
(* faulty variant that keeps the absent address.)                          *)
PlacedAsGiven(w, addr) == w
Placed(w, addr) == [w EXCEPT !.addr = addr]

(* The five writer calls of lines 350-378, in order. *)
RuntimeWrites(l, c) ==
    << [kind |-> "heap", addr |-> l.heap_addr, count |-> c.heap_size \div PAGE,
        type |-> "REG", perms |-> {"R", "W"}, content |-> "zero"],
       [kind |-> "stack", addr |-> l.stack_addr, count |-> c.stack_size \div PAGE,
        type |-> "REG", perms |-> {"R", "W"}, content |-> "zero"],
       [kind |-> "tls", addr |-> l.tls_addr, count |-> 1,
        type |-> "REG", perms |-> {"R", "W"}, content |-> <<l.stack_tos, 0>>],
       [kind |-> "tcs", addr |-> l.tcs_addr, count |-> 1,
        type |-> "TCS", perms |-> {}, content |-> TcsFields(l, c)],
       [kind |-> "ssa", addr |-> NoAddr, count |-> 2 * c.ssaframesize,
        type |-> "REG", perms |-> {"R", "W"}, content |-> "zero"] >>

-----------------------------------------------------------------------------
Init ==
    /\ \E in \in Inputs : phdrs = in.phdrs /\ symaddr = in.addr
    /\ cfg \in Configs
    /\ cur_splice = <<>> /\ seg = 1 /\ data = <<>> /\ cur_ptr = 0
    /\ pc = "begin" /\ result = "running" /\ pages = <<>> /\ wnext = 0
    /\ epc = "layout"
    /\ lay = Layout(0, cfg)
    /\ esize = 0
    /\ rtq = <<>> /\ rtpages = <<>>
    /\ eresult = "running"

(* Lines 333-345: no PT_LOAD header, or a last page at or above 2^53, ends *)
(* write before the writer exists; otherwise the writer is opened with    *)
(* ECREATE{size: enclave_size} and write_elf_segments starts.              *)
Begin ==
    /\ epc = "layout"
    /\ \/ /\ phdrs = <<>>
          /\ epc' = "done" /\ eresult' = "NoLoadableSegments"
          /\ UNCHANGED <<lay, esize, rtq, seVars>>
       \/ /\ phdrs # <<>>
          /\ LET l  == Layout(MaxLoadEnd, cfg)
                 es == enclave_size(LastPageEnd(l, cfg))
             IN \/ /\ ~es.ok
                   /\ epc' = "done" /\ eresult' = "EnclaveSizeTooBig"
                   /\ UNCHANGED <<lay, esize, rtq, seVars>>
                \/ /\ es.ok
                   /\ lay' = l /\ esize' = es.val
                   /\ rtq' = RuntimeWrites(l, cfg)
                   /\ epc' = "segments"
                   /\ cur_splice' = SE!SortedSplices(symaddr)
                   /\ UNCHANGED <<eresult, phdrs, symaddr, seg, data, cur_ptr,
                                  pc, result, pages, wnext>>
    /\ UNCHANGED <<cfg, rtpages>>

(* A step of write_elf_segments. *)
Segments ==
    /\ epc = "segments"
    /\ SE!Next
    /\ UNCHANGED <<cfg, epc, lay, esize, rtq, rtpages, eresult>>

(* write_elf_segments returned: try! passes an error on, Ok goes on. *)
SegmentsReturn ==
    /\ epc = "segments" /\ pc = "done"
    /\ \/ result = "ok" /\ epc' = "runtime" /\ UNCHANGED eresult
       \/ result # "ok" /\ epc' = "done" /\ eresult' = result
    /\ UNCHANGED <<seVars, cfg, lay, esize, rtq, rtpages>>

(* The next of the heap, stack, TLS, TCS and SSA writes; the writer takes *)
(* an absent address as its cursor.                                        *)
WriteRuntime ==
    /\ epc = "runtime" /\ rtq # <<>>
    /\ LET w    == Head(rtq)
           addr == IF w.addr = NoAddr THEN wnext ELSE w.addr
       IN \/ /\ SE!WriterAccepts(addr)
             /\ rtpages' = Append(rtpages, Placed(w, addr))
             /\ wnext' = addr + w.count * PAGE
             /\ rtq' = Tail(rtq)
             /\ UNCHANGED <<epc, eresult>>
          \/ /\ ~SE!WriterAccepts(addr)
             /\ epc' = "done" /\ eresult' = "sgxs_error"
             /\ UNCHANGED <<rtpages, wnext, rtq>>
    /\ UNCHANGED <<phdrs, symaddr, cur_splice, seg, data, cur_ptr, pc, result,
                   pages, cfg, lay, esize>>

(* All pages written: write returns Ok(()). *)
Done ==
    /\ epc = "runtime" /\ rtq = <<>>
    /\ epc' = "done" /\ eresult' = "ok"
    /\ UNCHANGED <<seVars, cfg, lay, esize, rtq, rtpages>>

Next == Begin \/ Segments \/ SegmentsReturn \/ WriteRuntime \/ Done

(* write runs to completion in one thread: every enabled step is taken. *)
Spec == Init /\ [][Next]_vars /\ WF_vars(Next)

-----------------------------------------------------------------------------
TypeOK ==
    /\ epc \in {"layout", "segments", "runtime", "done"}
    /\ eresult \in {"running", "ok", "panic", "sgxs_error",
                    "NoLoadableSegments", "EnclaveSizeTooBig"}
    /\ esize \in Nat
    /\ \A f \in DOMAIN lay : lay[f] \in 0..2^W - 1
    /\ \A i \in DOMAIN rtpages :
          /\ rtpages[i].addr \in Nat /\ rtpages[i].count \in Nat
          /\ rtpages[i].type \in {"REG", "TCS"}

(* The extent the writer accepted for one of the runtime writes. *)
Extent(kind) == LET i == CHOOSE i \in DOMAIN rtpages : rtpages[i].kind = kind
                IN rtpages[i]

(* Every page the writer accepted, from the ELF segments to the last SSA  *)
(* page, lies inside the enclave whose size write gave in ECREATE before  *)
(* any of them was known to the writer.                                   *)
EnclaveCoversPages ==
    /\ \A i \in DOMAIN pages : pages[i].addr + PAGE <= esize
    /\ \A i \in DOMAIN rtpages :
          rtpages[i].addr + rtpages[i].count * PAGE <= esize

(* When write returns Ok, the TCS it wrote points where the writer really *)
(* put the pages: OSSA at the first SSA page (written without an address, *)
(* at the writer's cursor), OFSBASGX at the TLS page, OGSBASGX at the top *)
(* of the stack pages, and NSSA frames of ssaframesize pages fit in the   *)
(* SSA pages written.                                                      *)
TcsConsistent ==
    eresult = "ok" =>
        LET tcs == Extent("tcs").content
        IN /\ tcs.ossa = Extent("ssa").addr
           /\ tcs.ofsbasgx = Extent("tls").addr
           /\ tcs.ogsbasgx = Extent("stack").addr + Extent("stack").count * PAGE
           /\ tcs.nssa * cfg.ssaframesize <= Extent("ssa").count

(* With page-multiple heap and stack sizes (spec section 6) the writer    *)
(* never rejects a heap, stack, TLS, TCS or SSA write: the heap starts    *)
(* above the last page of every segment, whatever their file order, and  *)
(* each later region above the one before.                                 *)
RuntimePagesAccepted ==
    /\ cfg.heap_size % PAGE = 0 /\ cfg.stack_size % PAGE = 0
    /\ epc = "runtime" /\ rtq # <<>>
    => SE!WriterAccepts(IF Head(rtq).addr = NoAddr THEN wnext ELSE Head(rtq).addr)

(* The last page end of spec sections 3 and 4.3 in exact arithmetic: the *)
(* chain from max over segments of virtual_addr + mem_size.               *)
SpecLastPageEnd ==
    LET m == Max({phdrs[k].vaddr + phdrs[k].memsz : k \in DOMAIN phdrs})
    IN size_align_page_size(m) + cfg.heap_size + GUARD + cfg.stack_size + PAGE
         + (1 + 2 * cfg.ssaframesize) * PAGE

(* A layout too big for the enclave is refused before any output (spec    *)
(* sections 4.1 and 7: EnclaveSizeTooBig is a validation error, detected *)
(* before any bytes are written): when the exact last page end reaches    *)
(* the cap, write never opens the writer nor hands it a page.             *)
TooBigRefusedBeforeOutput ==
    phdrs # <<>> /\ SpecLastPageEnd >= 2^MANT => esize = 0 /\ pages = <<>>

(* The page bases a segment's memory [base, end) spans. *)
SpannedPages(k) ==
    {a \in {SE!Base(k) + p * PAGE : p \in 0..(SE!End(k) - SE!Base(k)) \div PAGE} :
        a < SE!End(k)}

(* Whatever ends write, the writer never holds a torn segment: at every   *)
(* step the pages it accepted from write_elf_segments are, once each,     *)
(* exactly the pages spanning [base, end) of the segments already emitted *)
(* and none of the segment being built or refused (line 326), so a failed *)
(* conversion leaves whole segments, as spec section 7 requires of the    *)
(* incomplete output the caller discards.                                   *)
SegmentsWhole ==
    LET held == {<<pages[i].seg, pages[i].addr>> : i \in DOMAIN pages}
    IN /\ held = UNION {{<<k, a>> : a \in SpannedPages(k)} : k \in 1..seg - 1}
       /\ Len(pages) = Cardinality(held)

=============================================================================
