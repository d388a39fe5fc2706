------------------------------ MODULE IoBuffers ------------------------------
(***************************************************************************)
(* The in-memory readers and writers of libenclave's no_std io: a client  *)
(* makes one call after another on a reader (&[u8] with read, read_exact, *)
(* fill_buf and consume; Empty; Repeat) and on a writer (&mut [u8], Vec   *)
(* and Sink with write, write_all and flush), as the client's own loop    *)
(* would: on Ok(n) of a write it moves n bytes further in its message,    *)
(* and it consumes at most what fill_buf handed it.  Bytes are positions  *)
(* 1..n of the source or of the message, so loss, order and repetition    *)
(* show; RB is the byte Repeat repeats.                                   *)
(***************************************************************************)
EXTENDS Integers, SequencesExt

CONSTANTS
    MaxLen,    \* longest source slice and client message
    MaxBuf,    \* longest buffer the client passes to one call
    MaxCap,    \* largest capacity of a &mut [u8] writer
    MaxCalls,  \* calls the client makes
    RB         \* the byte of repeat(byte)

VARIABLES
    rkind,     \* "slice", "empty" or "repeat"
    src,       \* the slice the reader was made from
    rest,      \* the &[u8] reader itself: what it has not handed out
    got,       \* bytes the client received, in order
    fill,      \* what the client holds of the last fill_buf, <<>> if none
    asked,     \* buffer length of the last read or read_exact
    rret,      \* answer of the last reader call: "none", "ok", "UnexpectedEof"
    ret,       \* n of its Ok(n)
    wkind,     \* "slice", "vec" or "sink"
    cap,       \* capacity of the &mut [u8] writer when made
    room,      \* the &mut [u8] writer itself: its length left
    out,       \* bytes the slice or Vec holds
    acked,     \* bytes of its message the client knows written
    wret,      \* answer of the last writer call: "none", "ok", "WriteZero"
    panicked,  \* a consume sliced past the end of the reader and panicked
    calls

vars == <<rkind, src, rest, got, fill, asked, rret, ret,
          wkind, cap, room, out, acked, wret, panicked, calls>>

(* The client's message: bytes 1..MaxLen. *)
Msg == [p \in 1..MaxLen |-> p]

-----------------------------------------------------------------------------
(* Faulty variants, as a coding slip would write them: consume that does  *)
(* not move the slice; a slice write that does not shrink the slice it    *)
(* fills; a slice write that ignores the room left.                       *)
ConsumeRestKept(s, amt) == s
RoomAfterKept(r, amt) == r
TakenUncapped(data) == Len(data)

(* consume: *self = &self[amt..] *)
ConsumeRest(s, amt) == SubSeq(s, amt + 1, Len(s))

(* read_exact: if buf.len() > self.len() { return Err(UnexpectedEof) } *)
ExactTooLong(k, s) == k > Len(s)

(* write on &mut [u8]: *self = b, the part past the amt bytes filled *)
RoomAfter(r, amt) == r - amt

-----------------------------------------------------------------------------
Init ==
    /\ rkind \in {"slice", "empty", "repeat"}
    /\ \E n \in 0..MaxLen : src = [p \in 1..n |-> p]
    /\ rkind # "slice" => src = <<>>
    /\ rest = src /\ got = <<>> /\ fill = <<>> /\ asked = 0
    /\ rret = "none" /\ ret = 0
    /\ wkind \in {"slice", "vec", "sink"}
    /\ cap \in IF wkind = "slice" THEN 0..MaxCap ELSE {0}
    /\ room = cap /\ out = <<>> /\ acked = 0 /\ wret = "none"
    /\ panicked = FALSE /\ calls = 0

(* One more call, unless a panic has ended the client. *)
Call == ~panicked /\ calls < MaxCalls /\ calls' = calls + 1
Wvars == <<wkind, cap, room, out, acked, wret>>
Rvars == <<rkind, src, rest, got, fill, asked, rret, ret, panicked>>

(* A read that hands over the bytes d and answers Ok(Len(d)); the client *)
(* no longer holds a fill_buf slice across it.                            *)
Hand(d, k) ==
    /\ got' = got \o d /\ fill' = <<>> /\ asked' = k
    /\ rret' = "ok" /\ ret' = Len(d)

(* <&[u8] as Read>::read, impls.rs 154-161 *)
SliceRead(k) ==
    /\ rkind = "slice" /\ Call
    /\ LET amt == Min({k, Len(rest)}) IN
       /\ Hand(SubSeq(rest, 1, amt), k)
       /\ rest' = SubSeq(rest, amt + 1, Len(rest))
    /\ UNCHANGED <<rkind, src, panicked>> /\ UNCHANGED Wvars

(* <&[u8] as Read>::read_exact, impls.rs 163-173 *)
SliceReadExact(k) ==
    /\ rkind = "slice" /\ Call
    /\ \/ ExactTooLong(k, rest)
          /\ rret' = "UnexpectedEof" /\ asked' = k /\ fill' = <<>>
          /\ UNCHANGED <<rest, got, ret>>
       \/ ~ExactTooLong(k, rest)
          /\ Hand(SubSeq(rest, 1, k), k) /\ rest' = SubSeq(rest, k + 1, Len(rest))
    /\ UNCHANGED <<rkind, src, panicked>> /\ UNCHANGED Wvars

(* fill_buf: Ok of the whole &[u8], impls.rs 177; Ok(&[]) for Empty, util.rs 101 *)
FillBuf ==
    /\ rkind \in {"slice", "empty"} /\ Call
    /\ fill' = IF rkind = "slice" THEN rest ELSE <<>>
    /\ rret' = "ok" /\ ret' = Len(fill')
    /\ UNCHANGED <<rkind, src, rest, got, asked, panicked>> /\ UNCHANGED Wvars

(* consume(amt) of bytes fill_buf handed out: impls.rs 180 for &[u8],    *)
(* where &self[amt..] panics if amt passes the slice's end; a no-op for  *)
(* Empty, util.rs 102.                                                    *)
Consume(amt) ==
    /\ rkind \in {"slice", "empty"} /\ Call /\ amt <= Len(fill)
    /\ got' = got \o SubSeq(fill, 1, amt)
    /\ fill' = SubSeq(fill, amt + 1, Len(fill))
    /\ panicked' = (rkind = "slice" /\ amt > Len(rest))
    /\ rest' = IF rkind = "slice" /\ ~panicked' THEN ConsumeRest(rest, amt) ELSE rest
    /\ UNCHANGED <<rkind, src, asked, rret, ret>> /\ UNCHANGED Wvars

(* Empty::read answers Ok(0), util.rs 98; Repeat::read fills the whole    *)
(* buffer with its byte and answers Ok(buf.len()), util.rs 120-125.       *)
OtherRead(k) ==
    /\ rkind \in {"empty", "repeat"} /\ Call
    /\ Hand(IF rkind = "repeat" THEN [p \in 1..k |-> RB] ELSE <<>>, k)
    /\ UNCHANGED <<rkind, src, rest, panicked>> /\ UNCHANGED Wvars

(* The next k bytes of the client's message. *)
Chunk(k) == SubSeq(Msg, acked + 1, Min({acked + k, MaxLen}))

(* write of data on the writer: &mut [u8] fills min(data.len(), len) and  *)
(* moves past it (impls.rs 185-191), Vec extends (208-211), Sink takes    *)
(* all (util.rs 143).  Stored(data) is out and room after it.             *)
Taken(data) == IF wkind = "slice" THEN Min({Len(data), room}) ELSE Len(data)
Stored(data) ==
    /\ out' = IF wkind = "sink" THEN out ELSE out \o SubSeq(data, 1, Taken(data))
    /\ room' = IF wkind = "slice" THEN RoomAfter(room, Taken(data)) ELSE room

(* write: the client moves on by the n of Ok(n). *)
Write(k) ==
    /\ Call /\ Stored(Chunk(k))
    /\ acked' = acked + Taken(Chunk(k)) /\ wret' = "ok"
    /\ UNCHANGED <<wkind, cap>> /\ UNCHANGED Rvars

(* write_all: &mut [u8] writes, then WriteZero unless all of data went   *)
(* (impls.rs 194-200); Vec extends (214-217); Sink through write_all's   *)
(* loop of write calls, each taking everything.  On an error the client  *)
(* does not move on.                                                      *)
WriteAll(k) ==
    /\ Call /\ Stored(Chunk(k))
    /\ \/ Taken(Chunk(k)) = Len(Chunk(k)) /\ wret' = "ok" /\ acked' = acked + Len(Chunk(k))
       \/ Taken(Chunk(k)) # Len(Chunk(k)) /\ wret' = "WriteZero" /\ UNCHANGED acked
    /\ UNCHANGED <<wkind, cap>> /\ UNCHANGED Rvars

(* flush is Ok(()) and does nothing on all three (impls.rs 203, 220, util.rs 144) *)
Flush ==
    /\ Call /\ wret' = "ok"
    /\ UNCHANGED <<wkind, cap, room, out, acked>> /\ UNCHANGED Rvars

Next ==
    \/ \E k \in 0..MaxBuf : SliceRead(k) \/ SliceReadExact(k) \/ OtherRead(k)
                            \/ Write(k) \/ WriteAll(k)
    \/ FillBuf
    \/ \E amt \in 0..MaxLen : Consume(amt)
    \/ Flush

Spec == Init /\ [][Next]_vars

-----------------------------------------------------------------------------
TypeOK ==
    /\ rret \in {"none", "ok", "UnexpectedEof"} /\ wret \in {"none", "ok", "WriteZero"}
    /\ room \in 0..MaxCap /\ acked \in 0..MaxLen /\ calls \in 0..MaxCalls
    /\ panicked \in BOOLEAN

(* Whatever sequence of read, read_exact, fill_buf and consume the client *)
(* makes, a &[u8] reader hands out its bytes once each, in order, and     *)
(* keeps exactly the rest; Empty hands out nothing and Repeat only its    *)
(* byte.                                                                   *)
ReaderIntact ==
    /\ rkind = "slice" => got \o rest = src
    /\ rkind = "empty" => got = <<>>
    /\ rkind = "repeat" => \A p \in DOMAIN got : got[p] = RB

(* Whatever mix of write and write_all the client makes, and however it   *)
(* goes on after a WriteZero, a &mut [u8] or Vec holds its message once   *)
(* and in order: the slice's bytes and its length left make up its        *)
(* capacity, and bytes the client does not know written (the part a       *)
(* failed write_all wrote) only exist once the slice is full, so no later *)
(* write can write them again.                                             *)
WriterIntact ==
    /\ wkind # "sink" => IsPrefix(out, Msg)
    /\ wkind = "slice" => /\ Len(out) + room = cap
                          /\ Len(out) > acked => room = 0
    /\ wkind = "vec" => Len(out) = acked

=============================================================================
