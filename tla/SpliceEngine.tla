---------------------------- MODULE SpliceEngine ----------------------------
(***************************************************************************)
(* LayoutInfo::write_elf_segments (elf2sgxs.rs): the loadable segments of  *)
(* the ELF are streamed, in file order, to the canonical SGXS writer, and  *)
(* the five 8-byte "splices" (symbol address, computed value) are overlaid *)
(* on the segment bytes by chaining Read adaptors (take, chain, repeat).   *)
(*                                                                         *)
(* Data is abstracted to the ORIGIN of every byte: a zero byte, byte o of  *)
(* the file data of segment k, or byte j of the value spliced for symbol   *)
(* s.  A Box<Read> stream is the finite sequence of the bytes it yields.   *)
(* PAGE stands for 0x1000 and WORD for the 8 bytes of a u64.               *)
(***************************************************************************)
EXTENDS Integers, Sequences, SequencesExt, AddressArith

CONSTANTS
    WORD,      \* width of a spliced value, 8 bytes (u64)
    Syms,      \* the spliced symbols (HEAP_BASE, HEAP_SIZE, RELA, ...)
    SymOrder,  \* their order in the `splices` array literal
    Inputs     \* possible inputs: [phdrs |-> PT_LOAD headers in file order,
               \*                   addr  |-> symbol value of each symbol]

ASSUME WORD > 0 /\ WORD <= PAGE
ASSUME SymOrder \in Seq(Syms) /\ ToSet(SymOrder) = Syms

VARIABLES
    phdrs,      \* the PT_LOAD program headers, in file order (read-only)
    symaddr,    \* Symbols: the value (address) of each spliced symbol
    cur_splice, \* the peekable iterator over the sorted splices
    seg,        \* index in phdrs of the segment being emitted
    data,       \* the Box<Read> stream built for the current segment
    cur_ptr,    \* cur_ptr: address just past the last spliced value
    pc,         \* "begin" a segment, "splice" loop, or "done"
    result,     \* "running", "ok", "panic" or "sgxs_error"
    pages,      \* pages accepted by the writer, in emission order
    wnext       \* writer cursor: lowest address the next page may have

vars == <<phdrs, symaddr, cur_splice, seg, data, cur_ptr, pc, result, pages, wnext>>

-----------------------------------------------------------------------------
(* Byte origins. *)
Zero == <<"zero">>
FileByte(k, o) == <<"file", k, o>>
ValByte(s, j) == <<"val", s, j>>

Start(k) == phdrs[k].vaddr
Base(k)  == PageBase(Start(k))
End(k)   == Start(k) + phdrs[k].memsz

(* repeat(0).take(n) *)
Zeros(n) == [i \in 1..n |-> Zero]

(* base_data: the file bytes of segment k (SegmentData::Undefined). *)
BaseData(k) == [i \in 1..phdrs[k].filesz |-> FileByte(k, i - 1)]

(* Faulty variants of the helpers below, as a coding slip would write them: *)
(* value bytes indexed from 1, a slice one byte early, peek() used where  *)
(* next() is meant, and the page count taken from start instead of base.  *)
ValueBytesFromOne(sp) == [j \in 1..WORD |-> ValByte(sp.sym, j)]
DropOneEarly(s, n) == SubSeq(s, n, Len(s))
AdvanceByPeek(q) == q
SegPagesFromStart(k) == size_align_page_size(End(k) - Start(k)) \div PAGE

(* transmute::<&u64,&[u8;8]>(&splice.1): the bytes of a splice's value. *)
ValueBytes(sp) == [j \in 1..WORD |-> ValByte(sp.sym, j - 1)]

(* Read::take(n) on a stream, and the slice s[n..] (only when n <= Len). *)
Take(s, n) == SubSeq(s, 1, IF n < Len(s) THEN n ELSE Len(s))
Drop(s, n) == SubSeq(s, n + 1, Len(s))

(* Splice's PartialEq and Ord compare the address (field 0) alone. *)
SpliceLess(x, y) == x.addr < y.addr

(* The `splices` array, sorted by address.  slice::sort is stable, so      *)
(* splices with equal addresses keep their order in the array literal.     *)
SortedSplices(addr) ==
    SortSeq([i \in 1..Len(SymOrder) |->
                [addr |-> addr[SymOrder[i]], sym |-> SymOrder[i], idx |-> i]],
            LAMBDA x, y : SpliceLess(x, y) \/ (~SpliceLess(y, x) /\ x.idx < y.idx))

(* cur_splice.next(): the iterator moves past the head splice. *)
Advance(q) == Tail(q)

(* cur_splice.peek(): whether there is a next splice, and which it is. *)
HasNext == cur_splice # <<>>
Peek == Head(cur_splice)

(* The page count given to write_pages: size_align_page_size(end-base)/0x1000 *)
SegPages(k) == size_align_page_size(End(k) - Base(k)) \div PAGE

(* The condition of the splice loop of segment k. *)
SpliceInSegment(sp, k) == sp.addr >= Base(k) /\ sp.addr + WORD < End(k)

-----------------------------------------------------------------------------
(* The canonical SGXS writer (sgxs crate, outside this repository):        *)
(* write_pages(data, count, Some(addr), secinfo) accepts the pages only if *)
(* addr is page aligned and above every page written before; it reads up  *)
(* to count pages of bytes from data and zero-pads the shortfall.          *)
Pad(s, n) == Take(s, n) \o Zeros(n - Len(Take(s, n)))

WriterAccepts(addr) == addr % PAGE = 0 /\ addr >= wnext

WritePages(stream, count, addr, flags, k) ==
    /\ pages' = pages \o
         [i \in 1..count |->
             [addr  |-> addr + (i - 1) * PAGE, seg |-> k, flags |-> flags,
              bytes |-> SubSeq(Pad(stream, count * PAGE),
                               (i - 1) * PAGE + 1, i * PAGE)]]
    /\ wnext' = addr + count * PAGE

-----------------------------------------------------------------------------
Init ==
    /\ \E in \in Inputs : phdrs = in.phdrs /\ symaddr = in.addr
    /\ cur_splice = SortedSplices(symaddr)
    /\ seg = 1
    /\ data = <<>>
    /\ cur_ptr = 0
    /\ pc = "begin"
    /\ result = "running"
    /\ pages = <<>>
    /\ wnext = 0

(* Start of the loop body for the next PT_LOAD header: the first part of  *)
(* the stream is the value of a splice lying exactly at the page base, or  *)
(* the file data, or zero fill up to start followed by the file data.      *)
SegmentBegin ==
    /\ pc = "begin" /\ seg <= Len(phdrs)
    /\ cur_ptr' = Base(seg)
    /\ \/ /\ (HasNext /\ Peek.addr = Base(seg))
          /\ data' = ValueBytes(Peek)
          /\ cur_splice' = Advance(cur_splice)
       \/ /\ ~(HasNext /\ Peek.addr = Base(seg))
          /\ Base(seg) = Start(seg)
          /\ data' = BaseData(seg)
          /\ UNCHANGED cur_splice
       \/ /\ ~(HasNext /\ Peek.addr = Base(seg))
          /\ Base(seg) # Start(seg)
          /\ data' = Zeros(Start(seg) - Base(seg)) \o BaseData(seg)
          /\ UNCHANGED cur_splice
    /\ pc' = "splice"
    /\ UNCHANGED <<phdrs, symaddr, seg, result, pages, wnext>>

(* One iteration of the splice loop: the stream is cut before the splice   *)
(* address, the value appended, then the file data from cur_ptr on.  The   *)
(* slice base_data[(cur_ptr-start)..] panics when the index passes its end.*)
SpliceNext ==
    /\ pc = "splice"
    /\ (HasNext /\ SpliceInSegment(Peek, seg))
    /\ LET sp  == Peek
           ptr == sp.addr + WORD
           nd  == Take(data, sp.addr - Base(seg)) \o ValueBytes(sp)
       IN /\ cur_splice' = Advance(cur_splice)
          /\ cur_ptr' = ptr
          /\ \/ /\ ptr < Start(seg)
                /\ data' = nd \o Zeros(Start(seg) - ptr) \o BaseData(seg)
                /\ UNCHANGED <<pc, result>>
             \/ /\ ptr >= Start(seg)
                /\ ptr - Start(seg) <= phdrs[seg].filesz
                /\ data' = nd \o Drop(BaseData(seg), ptr - Start(seg))
                /\ UNCHANGED <<pc, result>>
             \/ /\ ptr - Start(seg) > phdrs[seg].filesz
                /\ pc' = "done" /\ result' = "panic"
                /\ UNCHANGED data
    /\ UNCHANGED <<phdrs, symaddr, seg, pages, wnext>>

(* The loop ends; the stream is handed to write_pages for the segment's    *)
(* pages, with SECINFO REG and the segment's R/W/X flags.                  *)
SegmentWrite ==
    /\ pc = "splice"
    /\ ~(HasNext /\ SpliceInSegment(Peek, seg))
    /\ \/ /\ WriterAccepts(Base(seg))
          /\ WritePages(data, SegPages(seg), Base(seg), phdrs[seg].flags, seg)
          /\ pc' = "begin" /\ seg' = seg + 1
          /\ UNCHANGED result
       \/ /\ ~WriterAccepts(Base(seg))
          /\ pc' = "done" /\ result' = "sgxs_error"
          /\ UNCHANGED <<seg, pages, wnext>>
    /\ UNCHANGED <<phdrs, symaddr, cur_splice, data, cur_ptr>>

(* All PT_LOAD headers emitted: write_elf_segments returns Ok(()). *)
Finish ==
    /\ pc = "begin" /\ seg > Len(phdrs)
    /\ pc' = "done" /\ result' = "ok"
    /\ UNCHANGED <<phdrs, symaddr, cur_splice, seg, data, cur_ptr, pages, wnext>>

Next == SegmentBegin \/ SpliceNext \/ SegmentWrite \/ Finish

(* write_elf_segments runs to completion in one thread: every enabled step *)
(* is eventually taken.                                                    *)
Spec == Init /\ [][Next]_vars /\ WF_vars(Next)

-----------------------------------------------------------------------------
Flags == SUBSET {"R", "W", "X"}
IsByte(b) ==
    \/ b = Zero
    \/ b[1] = "file" /\ Len(b) = 3 /\ b[2] \in DOMAIN phdrs /\ b[3] \in Nat
    \/ b[1] = "val" /\ Len(b) = 3 /\ b[2] \in Syms /\ b[3] \in 0..WORD - 1

TypeOK ==
    /\ seg \in 1..Len(phdrs) + 1
    /\ cur_ptr \in Nat /\ wnext \in Nat
    /\ pc \in {"begin", "splice", "done"}
    /\ result \in {"running", "ok", "panic", "sgxs_error"}
    /\ IsSuffix(cur_splice, SortedSplices(symaddr))
    /\ \A i \in DOMAIN data : IsByte(data[i])
    /\ \A i \in DOMAIN pages :
          /\ pages[i].addr \in Nat /\ pages[i].flags \in Flags
          /\ Len(pages[i].bytes) = PAGE
          /\ \A j \in 1..PAGE : IsByte(pages[i].bytes[j])

(* The byte the spec (section 4.4) requires at address a of the pages of   *)
(* segment k: the value of a splice whose 8 bytes lie in [base, end), else *)
(* the segment's file byte, else zero.                                     *)
ExpectedByte(k, a) ==
    LET hits == {sp \in ToSet(SortedSplices(symaddr)) :
                    /\ Base(k) <= sp.addr /\ sp.addr + WORD <= End(k)
                    /\ sp.addr <= a /\ a < sp.addr + WORD}
    IN IF hits # {}
       THEN LET sp == CHOOSE sp \in hits : TRUE IN ValByte(sp.sym, a - sp.addr)
       ELSE IF Start(k) <= a /\ a < Start(k) + phdrs[k].filesz
            THEN FileByte(k, a - Start(k))
            ELSE Zero

(* Splice fidelity: every byte of every page write_elf_segments hands to   *)
(* the writer is the splice value, file byte or zero fill that the memory *)
(* image of its segment has at that address, whatever chain of take/chain *)
(* adaptors the splice loop built.                                          *)
SpliceFidelity ==
    \A i \in DOMAIN pages : \A j \in 1..PAGE :
        pages[i].bytes[j] = ExpectedByte(pages[i].seg, pages[i].addr + j - 1)

(* A layout meeting the precondition of spec section 4.4 (every splice in *)
(* [base, end - 8] of a segment, zero fill included) is emitted without   *)
(* the process aborting: the slice of base_data at line 322 never runs    *)
(* past the segment's file bytes.                                          *)
NoPanic == result # "panic"

(* The byte the pages written hold at address a (Zero where none is). *)
WrittenByte(a) ==
    LET hit == {i \in DOMAIN pages : pages[i].addr <= a /\ a < pages[i].addr + PAGE}
    IN IF hit = {} THEN Zero
       ELSE LET i == CHOOSE i \in hit : TRUE IN pages[i].bytes[a - pages[i].addr + 1]

(* Every spliced value is written: when write_elf_segments returns Ok,    *)
(* each required symbol's bytes in the output are its own value (spec     *)
(* section 8.3), whatever the addresses of the other symbols.             *)
SpliceValuesWritten ==
    result = "ok" =>
        \A s \in Syms : \A j \in 0..WORD - 1 : WrittenByte(symaddr[s] + j) = ValByte(s, j)

(* Termination: the segment loop and the splice loop always end, with     *)
(* Ok, a writer error or a panic.                                          *)
Termination == <>(pc = "done")

=============================================================================
