----------------------------- MODULE ElfPolicy ------------------------------
(***************************************************************************)
(* What LayoutInfo::new promises (spec sections 3, 4.2 and 8.7): in one   *)
(* step it accepts an ELF that meets the symbol, dynamic-entry and        *)
(* relocation policy, and refuses any other with the kind of one of the   *)
(* violations the ELF really has.  Which one, when it has several, is     *)
(* left open.  The ELF is given in the shape ElfInspector reads it.       *)
(***************************************************************************)
EXTENDS Integers, SequencesExt

CONSTANTS
    Required,  \* the six required symbol names
    Sized,     \* those that must be 8 bytes (all but sgx_entry)
    Inputs     \* the ELF images the tool may be given

VARIABLES elf, verdict

(* The dynamic symbols after the reserved entry 0. *)
Syms(e) == [i \in 1..Len(e.syms) - 1 |-> e.syms[i + 1]]
Rels(e) == ToSet(FlattenSeq(e.relasecs))
NRels(e) == Len(FlattenSeq(e.relasecs))
Tagged(e, t) == {i \in DOMAIN e.dyns : e.dyns[i].tag = t}

(* The dynamic tags refused outright, by the error that refuses them. *)
Forbidden ==
    ("DynEntryUnsupportedPLTGOT" :> {"PLTRELSZ", "PLTREL", "JMPREL"}) @@
    ("DynEntryUnsupportedInitFunction" :> {"INIT", "INIT_ARRAY", "INIT_ARRAYSZ"}) @@
    ("DynEntryUnsupportedFiniFunction" :> {"FINI", "FINI_ARRAY", "FINI_ARRAYSZ"}) @@
    ("DynEntryUnsupportedImplicitReloc" :> {"REL", "RELSZ", "RELENT", "DT_RELCOUNT"})
Writable(e) == {k \in DOMAIN e.phdrs : "W" \in e.phdrs[k].flags}

(* The relocation count DT_RELACOUNT announces, 0 without the entry. *)
Announced(e) == IF Tagged(e, "DT_RELACOUNT") = {} THEN 0
                ELSE e.dyns[CHOOSE i \in Tagged(e, "DT_RELACOUNT") : TRUE].val

(* The 8 bytes at offset o lie inside a writable PT_LOAD segment. *)
InWritable(e, o) == \E k \in Writable(e) :
    e.phdrs[k].vaddr <= o /\ o + 8 <= e.phdrs[k].vaddr + e.phdrs[k].memsz

(* Every violation of the policy the ELF has, by the error kind naming it. *)
Violations(e) ==
    LET S == Syms(e) IN
    { v \in {"ElfClassNot64"} : ~e.class64 } \cup
    { v \in {"DynamicSymbolTableNotFound"} : e.dynsym = "absent" } \cup
    { v \in {"DynamicSymbolTableNotInDynsymSection"} : e.dynsym = "other" } \cup
    (IF e.dynsym # "ok" THEN {} ELSE
      { v \in {"DynamicSymbolUndefined"} : \E i \in DOMAIN S : ~S[i].defined } \cup
      { v \in {"DynamicSymbolDuplicate"} :
          \E i, j \in DOMAIN S : i < j /\ S[i].name = S[j].name /\ S[i].name \in Required } \cup
      { v \in {"DynamicSymbolMissing"} :
          \E n \in Required : \A i \in DOMAIN S : S[i].name # n } \cup
      { v \in {"DynamicSymbolIncorrectSize"} :
          \E i \in DOMAIN S : S[i].name \in Sized /\ S[i].size # 8 }) \cup
    { v \in {"DynamicSectionNotFound"} : e.dynamic = "absent" } \cup
    { v \in {"DynamicSectionNotInPtDynamicSegment"} : e.dynamic = "other" } \cup
    (IF e.dynamic # "ok" THEN {} ELSE
      { v \in DOMAIN Forbidden : \E i \in DOMAIN e.dyns : e.dyns[i].tag \in Forbidden[v] } \cup
      { v \in {"DynEntryDuplicateDtRela"} : Cardinality(Tagged(e, "RELA")) > 1 } \cup
      { v \in {"DynEntryDuplicateDtRelacount"} : Cardinality(Tagged(e, "DT_RELACOUNT")) > 1 } \cup
      { v \in {"DynEntryFoundDtRelaButNotDtRelacount"} :
          Tagged(e, "RELA") # {} /\ Tagged(e, "DT_RELACOUNT") = {} } \cup
      { v \in {"DynEntryFoundDtRelacountButNotDtRela"} :
          Tagged(e, "DT_RELACOUNT") # {} /\ Tagged(e, "RELA") = {} }) \cup
    { v \in {"RelocationInvalid"} : \E r \in Rels(e) : r.sym # 0 \/ r.type # 8 } \cup
    { v \in {"RelocationOutsideWritableSegment"} : \E r \in Rels(e) : ~InWritable(e, r.offset) } \cup
    { v \in {"RelocationInvalidCount"} : NRels(e) # Announced(e) }

(* The answers new may give: Ok exactly for a valid ELF. *)
Verdicts(e) == IF Violations(e) = {} THEN {"Ok"} ELSE Violations(e)

Init == elf \in Inputs /\ verdict = "pending"

Validate == verdict = "pending" /\ verdict' \in Verdicts(elf) /\ UNCHANGED elf

Spec == Init /\ [][Validate]_<<elf, verdict>> /\ WF_<<elf, verdict>>(Validate)

=============================================================================
