------------------------------- MODULE IoCopy -------------------------------
(***************************************************************************)
(* io::copy of libenclave's no_std io (util.rs) between the readers and   *)
(* writers of that crate: the reader is a &[u8] (impls.rs), Empty, or any *)
(* other Read, which may answer Interrupted, a short read or an error;    *)
(* the writer is a &mut [u8] of some capacity, a Vec<u8> or Sink.  Bytes  *)
(* are the positions 1..n of the source, so order and loss both show.     *)
(* BUF stands for DEFAULT_BUF_SIZE.                                        *)
(***************************************************************************)
EXTENDS Integers, SequencesExt

CONSTANTS
    BUF,        \* length of copy's buffer
    MaxLen,     \* longest source
    MaxCap      \* largest capacity of a &mut [u8] writer

ASSUME BUF > 0

VARIABLES
    rkind,      \* "slice", "empty" or "other": the reader
    wkind,      \* "slice", "vec" or "sink": the writer
    src,        \* bytes the reader has not yet handed out
    yielded,    \* bytes it has handed out, in order
    cap,        \* room left in a &mut [u8] writer
    dest,       \* bytes a slice or Vec writer holds
    buf,        \* buf[..len] of the last read, not yet written
    lastread,   \* the last answer of read: "data", "eof", "intr", "err"
    written,    \* copy's written
    pc,         \* "read", "write" or "done"
    result      \* "running", "ok", "ReadError" or "WriteZero"

vars == <<rkind, wkind, src, yielded, cap, dest, buf, lastread, written, pc, result>>

-----------------------------------------------------------------------------
(* Faulty variants, as a coding slip would write them: a slice read that  *)
(* keeps its last byte back; copy retrying on Ok(0) as on Interrupted; a  *)
(* slice write that ignores the room left.                                *)
SliceReadAmtShort(s) == Max({0, Min({BUF, Len(s) - 1})})
RetryOnEof(o) == o.kind \in {"intr", "eof"}
SliceWriteAmtUncapped(data, room) == Len(data)

(* <&[u8] as Read>::read: amt = min(buf.len(), self.len()) *)
SliceReadAmt(s) == Min({BUF, Len(s)})

(* copy's match arm Err(ref e) if e.kind() == Interrupted => continue *)
Retry(o) == o.kind = "intr"

(* <&mut [u8] as Write>::write: amt = min(data.len(), self.len()) *)
SliceWriteAmt(data, room) == Min({Len(data), room})

(* What one call of reader.read(&mut buf) may answer. *)
ReadAnswers ==
    CASE rkind = "slice" ->
           IF SliceReadAmt(src) = 0 THEN {[kind |-> "eof", n |-> 0]}
           ELSE {[kind |-> "data", n |-> SliceReadAmt(src)]}
      [] rkind = "empty" -> {[kind |-> "eof", n |-> 0]}
      [] rkind = "other" ->
           {[kind |-> "intr", n |-> 0], [kind |-> "err", n |-> 0]} \cup
           IF src = <<>> THEN {[kind |-> "eof", n |-> 0]}
           ELSE {[kind |-> "data", n |-> k] : k \in 1..Min({BUF, Len(src)})}

-----------------------------------------------------------------------------
Init ==
    /\ rkind \in {"slice", "empty", "other"}
    /\ wkind \in {"slice", "vec", "sink"}
    /\ \E n \in 0..MaxLen : src = [p \in 1..n |-> p]
    /\ rkind = "empty" => src = <<>>
    /\ cap \in IF wkind = "slice" THEN 0..MaxCap ELSE {0}
    /\ yielded = <<>> /\ dest = <<>> /\ buf = <<>>
    /\ lastread = "none" /\ written = 0 /\ pc = "read" /\ result = "running"

(* One read call and copy's match on its answer, util.rs lines 58-63. *)
Read(o) ==
    /\ pc = "read"
    /\ lastread' = o.kind
    /\ \/ Retry(o) /\ UNCHANGED <<src, yielded, buf, pc, result>>
       \/ ~Retry(o) /\ o.kind = "eof"
          /\ pc' = "done" /\ result' = "ok" /\ UNCHANGED <<src, yielded, buf>>
       \/ ~Retry(o) /\ o.kind = "err"
          /\ pc' = "done" /\ result' = "ReadError" /\ UNCHANGED <<src, yielded, buf>>
       \/ o.kind = "data"
          /\ buf' = SubSeq(src, 1, o.n) /\ src' = SubSeq(src, o.n + 1, Len(src))
          /\ yielded' = yielded \o SubSeq(src, 1, o.n)
          /\ pc' = "write" /\ UNCHANGED result
    /\ UNCHANGED <<rkind, wkind, cap, dest, written>>

ReadStep == \E o \in ReadAnswers : Read(o)

(* try!(writer.write_all(&buf[..len])); written += len, lines 64-65, with *)
(* the writer's write_all: impls.rs 194-199, 214-216, util.rs 143.        *)
WriteAll ==
    /\ pc = "write"
    /\ \/ wkind = "slice"
          /\ LET amt == SliceWriteAmt(buf, cap) IN
             /\ dest' = dest \o SubSeq(buf, 1, amt) /\ cap' = cap - amt
             /\ \/ amt = Len(buf) /\ written' = written + Len(buf)
                   /\ pc' = "read" /\ UNCHANGED result
                \/ amt # Len(buf) /\ pc' = "done" /\ result' = "WriteZero"
                   /\ UNCHANGED written
       \/ wkind = "vec" /\ dest' = dest \o buf /\ written' = written + Len(buf)
          /\ pc' = "read" /\ UNCHANGED <<cap, result>>
       \/ wkind = "sink" /\ written' = written + Len(buf)
          /\ pc' = "read" /\ UNCHANGED <<cap, dest, result>>
    /\ UNCHANGED <<rkind, wkind, src, yielded, buf, lastread>>

Next == ReadStep \/ WriteAll

(* copy is one thread; it is fair to assume of the reader only that,     *)
(* asked again and again, it eventually answers something other than     *)
(* Interrupted.                                                           *)
Answered == \E o \in ReadAnswers : o.kind # "intr" /\ Read(o)

Spec == Init /\ [][Next]_vars /\ WF_vars(WriteAll) /\ WF_vars(Answered)

-----------------------------------------------------------------------------
TypeOK ==
    /\ pc \in {"read", "write", "done"}
    /\ cap \in 0..MaxCap /\ Len(dest) <= MaxCap + MaxLen
    /\ written \in 0..MaxLen /\ Len(buf) <= BUF

(* When copy returns Ok(n), the reader has handed out its whole source,  *)
(* n is its length and a slice or Vec writer holds it in order; whatever *)
(* copy returns, such a writer holds a prefix of what was read, and on   *)
(* WriteZero at least the bytes counted in written (a partial write is   *)
(* kept but not counted).                                                *)
CopyFaithful ==
    /\ result = "ok" => /\ src = <<>> /\ written = Len(yielded)
                        /\ wkind # "sink" => dest = yielded
    /\ wkind # "sink" => IsPrefix(dest, yielded)
    /\ result = "WriteZero" => Len(dest) >= written

(* Under that fairness copy always returns: retrying on Interrupted never *)
(* keeps it from reaching Ok(0), an error or a full writer.               *)
Termination == <>(pc = "done")

=============================================================================
