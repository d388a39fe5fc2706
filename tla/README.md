# TLA+ models of elf2sgxs (sgx-utils)

This directory holds TLA+ models of the ELF to SGXS converter in
`src/libenclave-tools/src/elf2sgxs.rs`. The models are checked with TLC. The
converter reads a statically linked 64-bit ELF. It validates the ELF's dynamic
symbols, dynamic entries and relocations, and computes the enclave layout. It
then streams the enclave's pages, in ascending address order, to the canonical
SGXS writer. While streaming the loadable segments it overlays ("splices")
five 8-byte values onto their bytes.

## 1. Inventory

### Components

| Component | Source | State | Operations |
|---|---|---|---|
| Address arithmetic | `elf2sgxs.rs:59-74` | none (pure) | `size_align_page_size`, `enclave_size` (next power of two through an `f64` decode, `EnclaveSizeTooBig` at 2^53) |
| ELF inspector | `elf2sgxs.rs:114-272` | the six required symbols found so far; the `DT_RELA`/`DT_RELACOUNT` entries found so far; the relocation count | `check_symbols` (walk of `.dynsym`), `check_dynamic` (walk of the `PT_DYNAMIC` entries), `check_relocs` (walk of every RELA section), `LayoutInfo::new` (runs them in order) |
| Layout planner | `elf2sgxs.rs:332-345` | heap, stack, TLS, TCS addresses; enclave size | first half of `LayoutInfo::write` |
| Splice engine | `elf2sgxs.rs:274-330` | the sorted splices and a peekable cursor over them; `cur_ptr`; the chained `Read` stream of the current segment | `write_elf_segments`: one loop body per `PT_LOAD` header, an inner loop per splice, one `write_pages` per segment |
| SGXS emitter | `elf2sgxs.rs:332-381` | the writer's cursor and the pages written | `LayoutInfo::write`: ECREATE, segments, heap, stack, TLS, TCS, SSA |
| Canonical SGXS writer | `sgxs` crate (not in this repository) | next allowed address | `new` (ECREATE), `write_page(s)`: rejects an address that is not page aligned or not above the previous pages; zero-pads short data |
| no_std I/O shims | `libenclave/src/io/util.rs`, `io/impls.rs` | slice cursors; the `copy` byte counter | `copy` (retry on `Interrupted`), `Empty`, `Repeat`, `Sink`, `Read for &[u8]`, `Write for &mut [u8]`, `Write for Vec<u8>` |

### How the components interact

The front end (out of scope) calls `LayoutInfo::new`. That function runs the
class check and then the three inspector walks. It returns at the first error.
`LayoutInfo::write` then runs the planner. It fails with `NoLoadableSegments`
or `EnclaveSizeTooBig` before it writes anything. Next it opens the canonical
writer with the ECREATE record. Then it calls `write_elf_segments`, and
finally it writes the heap, stack, TLS, TCS and SSA pages. The splice engine
and the emitter share a single piece of state: the writer. The writer's rule
that page addresses strictly ascend is the only check of the page order. All
calls are synchronous and run in one thread.

### What is hard here

The code is sequential, so interleavings, crashes and timeouts do not arise.
The hard parts are these:

- **Stream composition in the splice engine.** The stream of a segment is
  built by nesting `take` and `chain` over the value bytes, the zero fill and
  slices of the file data. Whether each byte lands at the right address
  depends on the splice address relative to the page base, `start`, the end of
  the file data and `end`.
- **Cursor order against file order.** The splices are sorted by address.
  The segments come in file order. The cursor never looks back, so a splice
  left behind by one segment blocks every later splice.
- **Boundaries.** These include a splice at the page base, a splice ending
  exactly at `end`, a splice in `.bss`, two segments sharing a page, and a
  last-page address that is a power of two or reaches 2^53.
- **Integer width.** The layout chain adds user-supplied sizes in `u64`. An
  overflow wraps in a release build and panics in a debug build.
- **First-error ordering.** Each inspector walk returns at its first
  offending entry. Which error is reported depends on the entry order.

### What makes each component correct

- Splice engine: every written byte is the value of a splice, or the
  segment's file byte, or zero, as the memory image requires (spec §4.4,
  §8.3). Every splice in a segment is applied. Every layout the spec allows is
  emitted without a panic. The loops terminate.
- Emitter: page addresses strictly ascend (§8.1). Every page lies below the
  enclave size. The TCS fields point at the TLS page, the stack top and the
  first SSA frame. SECINFO is REG with the segment's flags, or R|W, or TCS
  (§8.4).
- Address arithmetic: `enclave_size` is the least power of two that is at
  least its argument. It is 0 for 0, and `EnclaveSizeTooBig` from 2^53 on
  (§4.1, §8.5).
- Inspector: the conversion succeeds exactly when the ELF meets the symbol,
  dynamic-entry and relocation policy. Each error names a violation that is
  present in the input (§4.2, §8.6, §8.7).

## 2. Plan

Modules, most important first:

1. `SpliceEngine` (done): `write_elf_segments`, together with the writer's
   page-order check. `MCSpliceEngine` instantiates it.
2. `AddressArith` (done): `size_align_page_size` and `enclave_size`, with
   `enclave_size` written as the `f64` decode (mantissa and exponent through a
   RECURSIVE bit length). It is checked against the reference "least power of
   two at or above x" over every address of a scaled width.
3. `SgxsEmitter` (done): `LayoutInfo::write`. It runs the layout chain in
   wrapping `W`-bit arithmetic, as a release build does. It
   calls `SpliceEngine` through `INSTANCE`, and its writer covers the heap,
   stack, TLS, TCS and SSA pages. Properties: canonical order, pages within
   the enclave, TCS consistency, acceptance of page-multiple sizes.
4. `ElfInspector` (done): the three walks of `LayoutInfo::new`, checked against a
   declarative statement of the policy (the `Valid` predicate). It has an
   abstract specification `ElfPolicy`, and the walk is shown to refine the
   one-step check `Validate` under a refinement mapping.
5. `Elf2Sgxs`, the composition of `new` then `write`, is dropped. No code
   in this repository calls the two in sequence. The caller is the front end,
   which is out of scope, so the composition could only restate the spec.
6. `IoCopy` (done): `io::copy` over a reader that may return `Interrupted`, short
   reads or errors, and `write_all` on a slice. It checks the returned count
   and eventual termination under fairness on the reader.
7. `IoBuffers` (done): every operation of the in-memory readers and writers,
   called in any order by a client.

## 3. Modules and runs

### SpliceEngine

The variables correspond to the locals of `write_elf_segments`:
`cur_splice` is the peekable iterator, `data` the `Box<Read>`, `cur_ptr`
itself, and `seg` the position in `program_iter()` among the `PT_LOAD`
headers. `pages` and `wnext` are the writer's output and cursor. Data is
abstracted to the origin of each byte: `Zero`, `FileByte(k, o)` or
`ValByte(s, j)`. A stream is the sequence of the bytes it yields, so `take`,
`chain`, `repeat(0).take(n)` and slicing become `Take`, `\o`, `Zeros` and
`Drop`.

The actions follow the control flow of the code:

- `SegmentBegin` (lines 285-311) has three disjuncts, one per branch of the
  `if`/`else if`/`else`.
- `SpliceNext` (lines 313-324) is one iteration of the `while`. Its third
  disjunct is the panic of `base_data[(cur_ptr-start)..]`.
- `SegmentWrite` (line 326) hands the stream to `write_pages`. The writer
  accepts the pages or returns an error.
- `Finish` (line 329) is the return after the last segment.

The scale is 8-byte pages and 2-byte values (`PAGE`, `WORD`), with three of
the five symbols and two `PT_LOAD` headers:

- a text segment (R|X) at 0 or 5, 8 or 12 bytes long, with 4 or 8 file bytes;
- a data segment (R|W) at 16 or 21, 10 bytes long, with 0 or 6 file bytes;
- symbols at every even address below 32.

These bounds give the following cases: a segment starting inside its page
(zero fill), a symbol in that zero fill, `.bss` tails, a segment with no file
bytes, two segments sharing a page (the writer rejects this), symbols before,
inside and after each segment, and two splices in one segment.

| Run | Inputs | Checks | Result |
|---|---|---|---|
| `splice_engine` | `PassInputs`: every symbol in `[base, end-8]` of a segment, none ending at `end`, none at the page base of a segment with file data | `TypeOK`, `SpliceFidelity`, `Termination` | pass: for all other layouts the take/chain arithmetic puts every byte where the memory image has it, and both loops end |
| `splice_at_base` | a symbol at the page base of a segment with file data | `SpliceFidelity` | violated: the first branch (line 305) makes the stream the 8 value bytes only; the segment's file data is lost (zero padded) and a later splice in the same segment is misplaced |
| `splice_at_end` | a symbol whose 8 bytes end exactly at the segment end | `SpliceFidelity` | violated: the loop condition `(s.0+8)<end` (line 313) skips it; the value is never written and the cursor blocks every later splice |
| `splice_in_bss` | `PassInputs` | `NoPanic` | violated: a symbol in `.bss` makes `cur_ptr-start` exceed the file size and the slice at line 322 panics |
| `splice_dup_addr` | `DupInputs`: HEAP_BASE and RELA at one address, otherwise as `PassInputs` | `SpliceValuesWritten` | violated: `check_symbols` rejects duplicate names but not shared addresses; the stable sort keeps both splices and the later one overwrites the earlier, so HEAP_BASE's value is never written. Spec §3 assumes the upstream checks rule this out |

Fairness: `WF_vars(Next)`. The code is one thread that never blocks, so every
enabled step is eventually taken. `CHECK_DEADLOCK FALSE`, because the
conversion really stops: `pc = "done"` has no successor, and `Termination`
checks that every behaviour gets there.

### AddressArith

`size_align_page_size` and `PageBase` are used by both other modules.
`enclave_size` follows the code step by step:

- `IntegerDecode` is `f64::integer_decode`, with `MANT` significand bits
  (53 in the code). It uses a RECURSIVE `BitLength`.
- The power-of-two test `mantissa ^ 2^52 == 0` lowers `adjust` by one.
- The cap `>= 2^53` returns `EnclaveSizeTooBig`.

`MCAddressArith` calls it once for every address in `0..Bound`.

| Run | Checks | Result |
|---|---|---|
| `address_arith` | `EnclaveSizeLaw` | pass (2,202 states), with `PAGE = 8`, `MANT = 10` and `Bound = 1100`. For every address up to beyond the cap 1024, the result is Ok(0) for 0, `EnclaveSizeTooBig` from the cap on, and otherwise the least power of two at or above the address. The powers of two themselves are included. |

The bound goes past `2^MANT`, so both sides of the cap and every power of two
below it are covered. The decode depends on the address only through its bit
length and its low bits, so 10 bits already show each case that 53 bits have.

### SgxsEmitter

This module models `LayoutInfo::write` (lines 332-381). It has the
`SpliceEngine` variables, through `SE == INSTANCE SpliceEngine`. To those it
adds:

- the configuration `cfg`;
- the phase `epc`;
- the computed layout `lay`;
- the ECREATE size `esize`;
- `rtq`, the queue of the five runtime writer calls (heap, stack, TLS, TCS,
  SSA);
- `rtpages`, the extents the writer accepted for them;
- `eresult`, the value `write` returns.

The actions are these:

- `Begin` (lines 333-345) covers `NoLoadableSegments`, `EnclaveSizeTooBig`,
  or opening the writer.
- `Segments` is one step of `write_elf_segments`.
- `SegmentsReturn` is its `try!`.
- `WriteRuntime` is one of the five `write_pages` calls, accepted or rejected.
  The SSA call has no address, so the writer places it at its cursor.
- `Done` is `Ok(())`.

Arithmetic is `% 2^W`, and this includes each `virtual_addr + mem_size` that
`max_addr` takes the maximum of, and the rounding of `heap_addr`. The TCS page is abstracted to the fields that point
elsewhere: `ossa`, `nssa`, `ofsbasgx` and `ogsbasgx`.

The scale is `PAGE = 8`, `MANT = 8` (cap 256), `W = 10`, and `GUARD = 16` for
the 0x10000 gap. `MCSgxsEmitter` has six ELF images:

- two ordinary images;
- one whose text shares a page with its data, so the writer rejects the data
  segment and `try!` passes the error on;
- one whose enclave size reaches the next power of two only because of the SSA
  frames;
- one beyond the cap;
- one with no `PT_LOAD`.

Each image is combined with every configuration of heap size 8, 12 or 16,
stack size 8 or 12, 1 or 2 SSA frames, and debug on or off. The sizes of 12
bytes are not page multiples, so the writer rejects the TLS page.

| Run | Checks | Result |
|---|---|---|
| `sgxs_emitter` | `TypeOK`, `EnclaveCoversPages`, `TcsConsistent`, `RuntimePagesAccepted`, `SegmentsWhole` | pass (1,392 states). Every page accepted, segment or runtime, lies below the ECREATE size. On Ok, the TCS's OSSA is where the writer put the SSA pages, OFSBASGX is the TLS page, and OGSBASGX is the top of the stack pages. With page-multiple sizes, no runtime write is rejected. |
| `load_end_wrap` | `TooBigRefusedBeforeOutput`, with `WrapInputs`: text at 0 and a data page at 2^W-8 of memory size 8 | violated: `virtual_addr + mem_size` (line 335) wraps to 0. So `max_addr` is the text end and the enclave is sized at 128. Spec §4.3 gives an exact last page end of at least 2^W, which is past the cap 256. `write` emits ECREATE and pages, and it fails only later, with a writer error, when the heap page lies below the data page. Spec §7 says `EnclaveSizeTooBig` is raised before any byte is written. This happens in a release build. A debug build panics. |

`SegmentsWhole` is about what a failed conversion leaves behind (line 326).
At every step, the writer holds each page spanning `[base, end)` of the
segments already emitted, exactly once. It holds nothing of the segment being
built or refused. The page count is taken from `SpannedPages`, not from the
code's `size_align_page_size(end-base)/0x1000`. So after a writer error, a
panic, or a runtime error, the output ends on whole segments. The
page-sharing image reaches the writer error that is the hazard here.

Fairness: the same as `SpliceEngine`. `write` is one thread and never blocks.

### ElfInspector and ElfPolicy

`ElfPolicy` is the abstract specification. In one step, `Validate` answers Ok
for an ELF with no violation of the policy of spec §4.2. Otherwise it answers
the kind of any violation the ELF has. `Violations(e)` states the policy
declaratively, over the whole ELF at once.

`ElfInspector` is the code. Each action is one iteration of a walk or one of
its early returns:

- `CheckClass` is the class check of `new`.
- `FindDynsym`, `SymStep`, `SymEnd` and `CheckSizes` are `check_symbols`,
  with the `read_syms!` loop and `check_size!`.
- `FindDynamic`, `DynStep` and `DynEnd` are `check_dynamic`. `DynEnd` is the
  match on the pair.
- `RelSection`, `RelEntry` and `RelCount` are `check_relocs`, walking every
  RELA section.

The Option locals of the code are indices, where 0 stands for None.
`elf` holds the parsed tables the walks read, so the `xmas_elf` parsing is
abstracted away. The refinement mapping is `verdict <- IF phase = "done" THEN
result ELSE "pending"`. `PolicySpec` (the property `Policy!Spec`) states that
the walks implement `ElfPolicy`: every error they return names a present
violation, they return Ok only for a valid ELF, and under `WF` they always
return.

`MCElfInspector` uses two of the six names: `sgx_entry`, whose size is
unconstrained, and `HEAP_BASE`, which must be 8 bytes. The segments are text
[0,16) R|X and data [16,32) R|W, and `W = 8`. It varies one walk at a time
while the other tables are valid:

- every `.dynsym` of up to 3 entries, with undefined, duplicate, missing,
  wrong-size and unrelated symbols;
- every dynamic table of up to 2 entries, with a forbidden tag of each class,
  a duplicate or lone RELA or RELACOUNT, counts 0 and 1, and PLTGOT, which is
  deliberately allowed;
- every pair of RELA sections of up to one relocation each. The relocations
  include one at the segment's last word, one one byte past its end, one in
  read-only text, and ones with a wrong type or symbol.

Ordering between the walks is covered because `Verdicts` allows any present
violation.

| Run | Checks | Result |
|---|---|---|
| `elf_inspector` | `TypeOK`, `PolicySpec` | pass (5,078 states) |
| `elf_reloc_wrap` | `PolicySpec`, with RELA sections holding a relocation at offset 2^W-4 added | violated: `offset+8` wraps to 4, which is below the segment end, so `new` returns Ok for a relocation outside every writable segment (line 240, in a release build; a debug build panics) |

### IoCopy

This module models `io::copy` (util.rs lines 52-67) with:

- readers: `<&[u8] as Read>` (impls.rs 152-160), `Empty`, and any other
  `Read`, which may answer Interrupted, a short read, an error or EOF;
- writers: `<&mut [u8] as Write>` (`write` followed by the `write_all` check,
  impls.rs 183-200), `Vec<u8>` and `Sink`.

`Read(o)` is one read call together with `copy`'s match on its answer.
`WriteAll` is `try!(write_all(&buf[..len]))` followed by `written += len`.
Bytes are source positions 1..n, so both loss and reordering would show.
`BUF = 2` stands for `DEFAULT_BUF_SIZE`. Sources are up to 4 bytes long and
slice writers have room for 0 to 5 bytes, so a write can be short, exact or
roomy.

Fairness: `WF` on `WriteAll`, and `WF` on a read that answers something other
than Interrupted. `copy` retries Interrupted forever, as its documentation
says, so `Termination` can only hold if the reader eventually answers.

| Run | Checks | Result |
|---|---|---|
| `io_copy` | `TypeOK`, `CopyFaithful`, `Termination` | pass (751 states): on Ok the whole source is in the writer, in order, and `n` is its length. A slice writer always holds a prefix of what was read. On `WriteZero`, the partial write is kept but not counted. |

### IoBuffers

In this module, a client calls, one after another, the operations of the
in-memory readers and writers of `libenclave/src/io`:

- `<&[u8] as Read>`: `read` (`SliceRead`) and `read_exact`
  (`SliceReadExact`);
- `BufRead` for `&[u8]` and `Empty`: `fill_buf` (`FillBuf`) and `consume`
  (`Consume`);
- `Empty::read` and `Repeat::read` (`OtherRead`);
- on a `&mut [u8]`, a `Vec<u8>` or a `Sink`: `write` (`Write`), `write_all`
  (`WriteAll`) and `flush` (`Flush`).

`rest` is the reader slice itself, and `room` is the writer slice's remaining
length. The client follows its own loop. After `Ok(n)` it moves `n` bytes on
in its message. After `WriteZero` it does not move on. It consumes at most
what its last `fill_buf` handed it, and a read in between drops that slice,
as the borrow does.

- `TypeOK` holds only the variables' types.
- `ReaderIntact`: a slice reader hands out every byte once and in order, and
  keeps exactly the rest.
- `WriterIntact`: the written bytes and the remaining length make up the
  capacity. Bytes the client does not know to be written, left by a failed
  `write_all`, exist only once the slice is full. So writing on after
  `WriteZero` never writes a byte twice.

| Run | Checks | Result |
|---|---|---|
| `io_buffers` | `TypeOK`, `ReaderIntact`, `WriterIntact` | pass (10,105 states). Sources and messages are up to 3 bytes, buffers 0-3 bytes, capacities 0-3, and the client makes 4 calls: enough for a short read, an exact read at the end of the slice, `fill_buf` then partial `consume`, and a partial `write_all` followed by further writes. |

There is no fairness, because the client may stop at any point.
`CHECK_DEADLOCK FALSE`, because the client stops after `MaxCalls` calls.

## 4. Not modelled, and why

- The command-line front end and file I/O are out of scope (spec §1).
- Byte values are not modelled, only their origins. The TCS structure layout
  and the little-endian encoding (`transmute`) are modelled as "the bytes of
  value v".
- SHA-256 measurement (EEXTEND) is inside the writer. It is a pure function
  of the page stream, so the page stream stands for it.
- In `SgxsEmitter`, overflow is modelled as a wrap, as in a release build. A
  debug build would panic instead. The passing inputs stay below the wrap.
  The `load_end_wrap` run has one segment that ends exactly at 2^W and so
  reaches the wrap.
- The `new` then `write` composition is not modelled. Nothing under `src/`
  calls the two in sequence.
- The forwarding impls for `&mut R` and `Box<R>` (impls.rs 27-148) are not
  modelled separately. Each one calls the same method on the value it points
  to, so it behaves as the reader or writer it forwards to. `IoCopy`'s
  arbitrary reader covers them.
- `consume` past the end of the slice panics. Only a caller that breaks
  the `BufRead` contract can reach this, for example with an `amt` kept from
  a `fill_buf` that a later read made stale. Nothing under `src/` calls
  `consume`, and the modelled client keeps to the contract. So no property
  states that this panic is never reached: under the contract it holds by
  the client's guard. The `read_exact` length test is not a property of its
  own either, because such a property would only restate the action's two
  branches.
- `Sink`'s `write_all` is the default method of the `Write` trait, which is
  defined outside this repository. It is modelled as a loop of `write`
  calls, each of which takes everything.
- ELF parsing by `xmas_elf` is an external library. The models start from
  the parsed tables.
