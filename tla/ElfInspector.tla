---------------------------- MODULE ElfInspector ----------------------------
(***************************************************************************)
(* LayoutInfo::new (elf2sgxs.rs): the class check, then the three walks   *)
(* check_symbols (read_syms! and check_size!), check_dynamic and          *)
(* check_relocs, one entry per step, each returning at its first          *)
(* offending entry.  The ELF is the parsed view the walks read: the       *)
(* .dynsym entries (entry 1 the reserved null symbol), the PT_DYNAMIC     *)
(* entries, the RELA sections and the PT_LOAD headers.  Offsets are u64:  *)
(* W stands for 64, and offset+8 wraps as in a release build.             *)
(***************************************************************************)
EXTENDS Integers, SequencesExt

CONSTANTS
    Required,  \* sgx_entry, HEAP_BASE, HEAP_SIZE, RELA, RELACOUNT, ENCLAVE_SIZE
    Sized,     \* the required names check_size! checks (all but sgx_entry)
    Inputs,    \* the ELF images
    W          \* width of u64

VARIABLES
    elf,       \* the input, never changed
    phase,     \* which check or walk runs
    i,         \* position in .dynsym or in the dynamic entries
    found,     \* read_syms!'s Option per required name: entry index, 0 = None
    rela,      \* check_dynamic's Option<&DynEntry>: entry index, 0 = None
    relacount,
    sec, j,    \* the RELA section and the entry within it; j = 0 before it
    count,     \* check_relocs's running count
    result     \* "running", "Ok", or the error new returns

vars == <<elf, phase, i, found, rela, relacount, sec, j, count, result>>

-----------------------------------------------------------------------------
U64Add(a, b) == (a + b) % 2^W

(* Faulty variants, as a coding slip would write them: the walk without    *)
(* skip(1); the section length counted one too many.                       *)
FirstSymNoSkip == 1
SecCountPlusOne(s) == Len(s) + 1

(* syms.iter().skip(1): the walk starts after the reserved entry. *)
FirstSym == 2

(* count += relas.len() *)
SecCount(s) == Len(s)

(* The match of check_dynamic: the error a refused tag returns, "none"    *)
(* for RELA, DT_RELACOUNT and the ignored tags (PLTGOT among them).        *)
TagError(t) ==
    CASE t \in {"PLTRELSZ", "PLTREL", "JMPREL"} -> "DynEntryUnsupportedPLTGOT"
      [] t \in {"INIT", "INIT_ARRAY", "INIT_ARRAYSZ"} -> "DynEntryUnsupportedInitFunction"
      [] t \in {"FINI", "FINI_ARRAY", "FINI_ARRAYSZ"} -> "DynEntryUnsupportedFiniFunction"
      [] t \in {"REL", "RELSZ", "RELENT", "DT_RELCOUNT"} -> "DynEntryUnsupportedImplicitReloc"
      [] OTHER -> "none"

(* writable_ranges: vaddr..vaddr+memsz of each PT_LOAD header with PF_W. *)
WritableRanges == {[start |-> ph.vaddr, end |-> U64Add(ph.vaddr, ph.memsz)] :
                     ph \in {ph \in Range(elf.phdrs) : "W" \in ph.flags}}

(* offset>=r.start && (offset+8)<=r.end for some range *)
InRange(o) == \E r \in WritableRanges : o >= r.start /\ U64Add(o, 8) <= r.end

(* check_relocs's target: DT_RELACOUNT's value, or 0 *)
Target == IF relacount = 0 THEN 0 ELSE elf.dyns[relacount].val

Return(v) == phase' = "done" /\ result' = v

(* The variants of enum Error new can return, without their payloads. *)
Errors ==
    {"EnclaveSizeTooBig", "DynamicSymbolUndefined", "DynamicSymbolDuplicate",
     "DynamicSymbolMissing", "DynamicSymbolIncorrectSize",
     "DynamicSymbolTableNotInDynsymSection", "DynamicSymbolTableNotFound",
     "DynEntryUnsupportedPLTGOT", "DynEntryUnsupportedInitFunction",
     "DynEntryUnsupportedFiniFunction", "DynEntryUnsupportedImplicitReloc",
     "DynEntryDuplicateDtRela", "DynEntryDuplicateDtRelacount",
     "DynEntryFoundDtRelaButNotDtRelacount", "DynEntryFoundDtRelacountButNotDtRela",
     "DynamicSectionNotInPtDynamicSegment", "DynamicSectionNotFound",
     "RelocationInvalid", "RelocationOutsideWritableSegment",
     "RelocationInvalidCount", "ElfClassNot64", "NoLoadableSegments", "Sgxs"}

-----------------------------------------------------------------------------
Init ==
    /\ elf \in Inputs
    /\ phase = "class" /\ i = 0 /\ found = [n \in Required |-> 0]
    /\ rela = 0 /\ relacount = 0 /\ sec = 1 /\ j = 0 /\ count = 0
    /\ result = "running"

(* new, lines 256-258 *)
CheckClass ==
    /\ phase = "class"
    /\ IF elf.class64 THEN phase' = "dynsym" /\ UNCHANGED result
                      ELSE Return("ElfClassNot64")
    /\ UNCHANGED <<elf, i, found, rela, relacount, sec, j, count>>

(* check_symbols, lines 150-151 and 161-166 *)
FindDynsym ==
    /\ phase = "dynsym"
    /\ \/ elf.dynsym = "absent" /\ Return("DynamicSymbolTableNotFound") /\ UNCHANGED i
       \/ elf.dynsym = "other" /\ Return("DynamicSymbolTableNotInDynsymSection") /\ UNCHANGED i
       \/ elf.dynsym = "ok" /\ phase' = "symwalk" /\ i' = FirstSym /\ UNCHANGED result
    /\ UNCHANGED <<elf, found, rela, relacount, sec, j, count>>

(* One iteration of read_syms!'s loop, lines 117-126. *)
SymStep ==
    /\ phase = "symwalk" /\ i <= Len(elf.syms)
    /\ LET s == elf.syms[i] IN
       \/ ~s.defined /\ Return("DynamicSymbolUndefined") /\ UNCHANGED found
       \/ s.defined /\ s.name \in Required /\ found[s.name] # 0
          /\ Return("DynamicSymbolDuplicate") /\ UNCHANGED found
       \/ s.defined /\ s.name \in Required /\ found[s.name] = 0
          /\ found' = [found EXCEPT ![s.name] = i] /\ UNCHANGED <<phase, result>>
       \/ s.defined /\ s.name \notin Required /\ UNCHANGED <<phase, found, result>>
    /\ i' = i + 1
    /\ UNCHANGED <<elf, rela, relacount, sec, j, count>>

(* After the loop, lines 126-134: every name found, or DynamicSymbolMissing. *)
SymEnd ==
    /\ phase = "symwalk" /\ i > Len(elf.syms)
    /\ IF \A n \in Required : found[n] # 0 THEN phase' = "sizes" /\ UNCHANGED result
                                           ELSE Return("DynamicSymbolMissing")
    /\ UNCHANGED <<elf, i, found, rela, relacount, sec, j, count>>

(* The five check_size! of lines 154-158. *)
CheckSizes ==
    /\ phase = "sizes"
    /\ IF \E n \in Sized : elf.syms[found[n]].size # 8
          THEN Return("DynamicSymbolIncorrectSize")
          ELSE phase' = "dynamic" /\ UNCHANGED result
    /\ UNCHANGED <<elf, i, found, rela, relacount, sec, j, count>>

(* check_dynamic, lines 176-177 and 212-216 *)
FindDynamic ==
    /\ phase = "dynamic"
    /\ \/ elf.dynamic = "absent" /\ Return("DynamicSectionNotFound") /\ UNCHANGED i
       \/ elf.dynamic = "other" /\ Return("DynamicSectionNotInPtDynamicSegment") /\ UNCHANGED i
       \/ elf.dynamic = "ok" /\ phase' = "dynwalk" /\ i' = 1 /\ UNCHANGED result
    /\ UNCHANGED <<elf, found, rela, relacount, sec, j, count>>

(* One iteration of the loop over the dynamic entries, lines 181-198. *)
DynStep ==
    /\ phase = "dynwalk" /\ i <= Len(elf.dyns)
    /\ LET t == elf.dyns[i].tag IN
       \/ TagError(t) # "none" /\ Return(TagError(t)) /\ UNCHANGED <<rela, relacount>>
       \/ t = "RELA" /\ rela # 0 /\ Return("DynEntryDuplicateDtRela")
          /\ UNCHANGED <<rela, relacount>>
       \/ t = "RELA" /\ rela = 0 /\ rela' = i
          /\ UNCHANGED <<phase, result, relacount>>
       \/ t = "DT_RELACOUNT" /\ relacount # 0 /\ Return("DynEntryDuplicateDtRelacount")
          /\ UNCHANGED <<rela, relacount>>
       \/ t = "DT_RELACOUNT" /\ relacount = 0 /\ relacount' = i
          /\ UNCHANGED <<phase, result, rela>>
       \/ TagError(t) = "none" /\ t \notin {"RELA", "DT_RELACOUNT"}
          /\ UNCHANGED <<phase, result, rela, relacount>>
    /\ i' = i + 1
    /\ UNCHANGED <<elf, found, sec, j, count>>

(* The match on (rela, relacount) after the loop, lines 200-205. *)
DynEnd ==
    /\ phase = "dynwalk" /\ i > Len(elf.dyns)
    /\ \/ (rela = 0) = (relacount = 0) /\ phase' = "relocs" /\ UNCHANGED result
       \/ rela # 0 /\ relacount = 0 /\ Return("DynEntryFoundDtRelaButNotDtRelacount")
       \/ rela = 0 /\ relacount # 0 /\ Return("DynEntryFoundDtRelacountButNotDtRela")
    /\ UNCHANGED <<elf, i, found, rela, relacount, sec, j, count>>

(* check_relocs enters the next RELA section, line 235. *)
RelSection ==
    /\ phase = "relocs" /\ sec <= Len(elf.relasecs) /\ j = 0
    /\ count' = count + SecCount(elf.relasecs[sec])
    /\ j' = 1
    /\ UNCHANGED <<elf, phase, i, found, rela, relacount, sec, result>>

(* One relocation of the section, lines 237-245; past its last, the next. *)
RelEntry ==
    /\ phase = "relocs" /\ sec <= Len(elf.relasecs) /\ j >= 1
    /\ \/ j > Len(elf.relasecs[sec]) /\ sec' = sec + 1 /\ j' = 0
          /\ UNCHANGED <<phase, result>>
       \/ j <= Len(elf.relasecs[sec])
          /\ LET r == elf.relasecs[sec][j] IN
             \/ (r.sym # 0 \/ r.type # 8) /\ Return("RelocationInvalid")
             \/ r.sym = 0 /\ r.type = 8 /\ ~InRange(r.offset)
                /\ Return("RelocationOutsideWritableSegment")
             \/ r.sym = 0 /\ r.type = 8 /\ InRange(r.offset)
                /\ UNCHANGED <<phase, result>>
          /\ j' = j + 1 /\ UNCHANGED sec
    /\ UNCHANGED <<elf, i, found, rela, relacount, count>>

(* The count against DT_RELACOUNT, lines 248-253, and new's Ok. *)
RelCount ==
    /\ phase = "relocs" /\ sec > Len(elf.relasecs)
    /\ IF count # Target THEN Return("RelocationInvalidCount") ELSE Return("Ok")
    /\ UNCHANGED <<elf, i, found, rela, relacount, sec, j, count>>

Next == CheckClass \/ FindDynsym \/ SymStep \/ SymEnd \/ CheckSizes
        \/ FindDynamic \/ DynStep \/ DynEnd \/ RelSection \/ RelEntry \/ RelCount

(* new runs in one thread and never blocks: every enabled step is taken. *)
Spec == Init /\ [][Next]_vars /\ WF_vars(Next)

-----------------------------------------------------------------------------
TypeOK ==
    /\ phase \in {"class", "dynsym", "symwalk", "sizes", "dynamic", "dynwalk",
                  "relocs", "done"}
    /\ found \in [Required -> 0..Len(elf.syms)]
    /\ rela \in 0..Len(elf.dyns) /\ relacount \in 0..Len(elf.dyns)
    /\ count \in 0..Len(FlattenSeq(elf.relasecs))
    /\ result \in {"running", "Ok"} \cup Errors

(* The abstract view: new has answered once phase is "done". *)
Policy == INSTANCE ElfPolicy WITH verdict <- IF phase = "done" THEN result ELSE "pending"

(* The walks implement the one-step policy check: new always returns, it *)
(* returns Ok exactly for an ELF without violation, and every error it   *)
(* returns, however the walks order their early returns, names a         *)
(* violation the ELF has.                                                 *)
PolicySpec == Policy!Spec

=============================================================================
