------------------------------- MODULE File --------------------------------
(***************************************************************************)
(* File_t (core/file.cpp, core/file_linux.cpp): files read and written     *)
(* through a pool of buffers that all File_t objects share.  One buffer    *)
(* serves a file for reading and for writing, is_writing says which.       *)
(*                                                                         *)
(* The contents of a buffer are the bytes that matter: all len of them     *)
(* while reading, the first offset of them while writing.                  *)
(*                                                                         *)
(* CarefulOpen, CarefulRead, CarefulWrite and CarefulSeek, below, are the  *)
(* calls after which File_t does what it promises.  The code does not      *)
(* check them, and a caller of write does not even see the state they      *)
(* depend on.                                                              *)
(***************************************************************************)
EXTENDS Integers, Sequences

CONSTANTS
  Files,         \* File_t objects, each with a path of its own
  BufferCount,   \* gc_max_buffer
  BufferSize,    \* gc_max_buffer_size
  InitialBytes,  \* what each path holds at first, in bytes nobody writes later
  OpenModes,     \* modes callers open files in
  ReadSizes,     \* sizes callers read
  WriteSizes,    \* sizes callers write
  Distances,     \* distances callers seek
  MaxBytes,      \* bound: the bytes written in all
  MaxPos,        \* bound: the positions callers seek
  MaxFailures,   \* bound: system calls that fail
  Careful        \* whether callers keep the obligations

ASSUME FileAssumption ==
  /\ BufferCount \in Nat
  /\ BufferSize \in Nat \ {0}
  /\ InitialBytes \in [Files -> Seq({k \in Int : k <= 0})]
  /\ OpenModes \subseteq {"read", "write", "append"}
  /\ ReadSizes \subseteq Nat \ {0} /\ WriteSizes \subseteq Nat \ {0}
  /\ Distances \subseteq Int
  /\ MaxBytes \in Nat /\ MaxPos \in Nat /\ MaxFailures \in Nat
  /\ Careful \in BOOLEAN

VARIABLES
  os,        \* per file: its bytes on disk, its mode, its position
  mine,      \* m_internal_buffer, 0 for NULL
  buffers,   \* g_buffers
  written,   \* the number of bytes callers have written so far
  last,      \* the last call and, if it was a read, what it delivered
  failures   \* the system calls that have failed

vars == <<os, mine, buffers, written, last, failures>>

NewBuffer == [data |-> <<>>, len |-> 0, offset |-> 0, used |-> FALSE, writing |-> FALSE]

Call(op, f, n, bytes) == [op |-> op, file |-> f, size |-> n, bytes |-> bytes]
NewBytes(n) == [k \in 1 .. n |-> written + k]

Stale == -1

MinOf(m, n) == IF m < n THEN m ELSE n
BytesLeft(b) == b.len - b.offset
IsOpen(f) == os[f].mode # "closed"
HasBuffer(f) == mine[f] # 0
Buffer(f) == IF HasBuffer(f) THEN buffers[mine[f]] ELSE NewBuffer
SetBuffer(f, b) == buffers' = [i \in 1 .. BufferCount |-> IF i = mine[f] THEN b ELSE buffers[i]]

-----------------------------------------------------------------------------
(* The system calls. *)

SysRead(file, n) ==
  SubSeq(file.disk, file.pos + 1, MinOf(file.pos + n, Len(file.disk)))

SysWrite(file, bytes) ==
  LET place == IF file.mode = "append" THEN Len(file.disk) ELSE file.pos
      end == place + Len(bytes)
  IN  [file EXCEPT
         !.pos = end,
         !.disk = [k \in 1 .. end + Len(@) - MinOf(end, Len(@)) |->
                     IF k \in place + 1 .. end THEN bytes[k - place]
                     ELSE IF k <= Len(@) THEN @[k] ELSE 0]]

SysSeek(file, from, d) ==
  LET target == d + CASE from = "begin" -> 0
                      [] from = "current" -> file.pos
                      [] from = "end" -> Len(file.disk)
  IN  IF target >= 0 THEN [file EXCEPT !.pos = target] ELSE file

-----------------------------------------------------------------------------
(* Obligations of the callers. *)

(* open takes another buffer and another handle for a file that is open,   *)
(* and nobody gives those it had back.                                     *)
CarefulOpen(f) == ~IsOpen(f)

(* read throws away what is still to be written: flush first. *)
CarefulRead(b) == ~b.writing

(* write overwrites a buffer that is exactly full, and keeps one it has    *)
(* written out when the rest is too big for it; it writes behind the bytes *)
(* that are buffered for reading.                                          *)
CarefulWrite(b, n) ==
  IF b.writing THEN BytesLeft(b) > 0 /\ n - BytesLeft(b) < BufferSize
               ELSE BytesLeft(b) = 0

(* seek does not drop what is buffered for reading, and takes it for what  *)
(* is before the position even when that is elsewhere; backwards it leaves *)
(* the buffer; inside a buffer for writing it clears the first bytes       *)
(* instead of the next ones.                                               *)
CarefulSeek(b, from, d) ==
  /\ from = "current" => d >= 0
  /\ IF b.writing THEN from = "current" => d = 0 \/ d >= BytesLeft(b)
     ELSE BytesLeft(b) > 0 => from = "current" /\ d < BytesLeft(b)

-----------------------------------------------------------------------------

Init ==
  /\ os = [f \in Files |-> [disk |-> InitialBytes[f], mode |-> "closed", pos |-> 0]]
  /\ mine = [f \in Files |-> 0]
  /\ buffers = [b \in 1 .. BufferCount |-> NewBuffer]
  /\ written = 0
  /\ last = Call("none", "none", 0, <<>>)
  /\ failures = 0

(* Mutant: takes the first buffer, whoever uses it. *)
OpenTakesFirst(f, m) ==
  /\ Careful => CarefulOpen(f)
  /\ os' = [os EXCEPT ![f].mode = m]
  /\ mine' = [mine EXCEPT ![f] = 1]
  /\ buffers' = [buffers EXCEPT ![1] = [NewBuffer EXCEPT !.used = TRUE]]
  /\ last' = Call("open", f, 0, <<>>)
  /\ UNCHANGED <<written, failures>>

(* Without a free buffer open leaves the file open and returns false, or   *)
(* true if it was open before: then it keeps the buffer that it had.       *)
Open(f, m) ==
  LET free == {b \in 1 .. BufferCount : ~buffers[b].used} IN
  /\ Careful => CarefulOpen(f)
  /\ os' = [os EXCEPT ![f] = [disk |-> IF m = "write" THEN <<>> ELSE @.disk,
                              mode |-> m, pos |-> 0]]
  /\ \/ /\ free = {}
        /\ UNCHANGED <<mine, buffers>>
     \/ \E b \in free :
          /\ \A c \in free : b <= c
          /\ mine' = [mine EXCEPT ![f] = b]
          /\ buffers' = [buffers EXCEPT ![b] = [NewBuffer EXCEPT !.used = TRUE]]
  /\ last' = Call("open", f, 0, <<>>)
  /\ UNCHANGED <<written, failures>>

(* read, from the buffer alone. *)
ReadBuffered(f, n) ==
  /\ HasBuffer(f)
  /\ ~Buffer(f).writing /\ BytesLeft(Buffer(f)) >= n
  /\ SetBuffer(f, [Buffer(f) EXCEPT !.offset = @ + n])
  /\ last' = Call("read", f, n,
                  SubSeq(Buffer(f).data, Buffer(f).offset + 1, Buffer(f).offset + n))
  /\ UNCHANGED <<os, mine, written, failures>>

(* read, what is left in the buffer and then from the system: straight to  *)
(* the caller, or a buffer full first.                                     *)
ReadMore(f, n) ==
  LET b == Buffer(f)
      rest == IF b.writing THEN <<>> ELSE SubSeq(b.data, b.offset + 1, b.len)
      size == n - Len(rest)
      direct == size >= BufferSize
      got == SysRead(os[f], IF direct THEN size ELSE BufferSize)
      used == IF b.writing THEN b ELSE [b EXCEPT !.offset = b.len]
  IN
  /\ HasBuffer(f)
  /\ Careful => CarefulRead(b)
  /\ b.writing \/ BytesLeft(b) < n
  /\ os' = [os EXCEPT ![f].pos = @ + Len(got)]
  /\ SetBuffer(f, IF direct \/ got = <<>> THEN used
                  ELSE [b EXCEPT !.data = got, !.len = Len(got), !.writing = FALSE,
                                 !.offset = MinOf(Len(got), size)])
  /\ last' = Call("read", f, n, rest \o SubSeq(got, 1, MinOf(Len(got), size)))
  /\ UNCHANGED <<mine, written, failures>>

CanWrite(f, n) ==
  /\ HasBuffer(f)
  /\ os[f].mode # "read"
  /\ Careful => CarefulWrite(Buffer(f), n)
  /\ written + n <= MaxBytes
  /\ written' = written + n
  /\ UNCHANGED mine

(* write, into the buffer alone. *)
WriteBuffered(f, n) ==
  LET b == Buffer(f) IN
  /\ CanWrite(f, n)
  /\ b.writing /\ BytesLeft(b) >= n
  /\ SetBuffer(f, [b EXCEPT !.data = @ \o NewBytes(n), !.offset = @ + n])
  /\ last' = Call("write", f, n, <<>>)
  /\ UNCHANGED <<os, failures>>

(* write, otherwise: a buffer that is partly full is filled and written    *)
(* out, then the rest goes to the system or into the buffer.               *)
WriteMore(f, n) ==
  LET b == Buffer(f)
      fills == b.writing /\ BytesLeft(b) > 0
      k == IF fills THEN BytesLeft(b) ELSE 0
      full == b.data \o SubSeq(NewBytes(n), 1, k)
      rest == SubSeq(NewBytes(n), k + 1, n)
      direct == Len(rest) >= BufferSize
      file == IF fills THEN SysWrite(os[f], full) ELSE os[f]
  IN
  /\ CanWrite(f, n)
  /\ ~b.writing \/ BytesLeft(b) < n
  /\ os' = [os EXCEPT ![f] = IF direct THEN SysWrite(file, rest) ELSE file]
  /\ SetBuffer(f, IF ~direct THEN [b EXCEPT !.data = rest, !.len = BufferSize,
                                            !.writing = TRUE, !.offset = Len(rest)]
                  ELSE IF fills THEN [b EXCEPT !.data = full, !.offset = b.len]
                  ELSE b)
  /\ last' = Call("write", f, n, <<>>)
  /\ UNCHANGED failures

(* write, when the system refuses to take the buffer that was filled: the  *)
(* part of the caller's bytes that is in the buffer stays there.           *)
WriteFails(f, n) ==
  LET b == Buffer(f) IN
  /\ CanWrite(f, n)
  /\ b.writing /\ 0 < BytesLeft(b) /\ BytesLeft(b) < n
  /\ failures < MaxFailures /\ failures' = failures + 1
  /\ SetBuffer(f, [b EXCEPT !.data = @ \o NewBytes(BytesLeft(b)), !.offset = b.len])
  /\ last' = Call("failed write", f, n, <<>>)
  /\ UNCHANGED os

(* write, when the system refuses what is too big for the buffer: a buffer *)
(* that was filled before is on the disk by then, and still counts as      *)
(* pending.  What the caller is told was written is not initialised.       *)
DirectWriteFails(f, n) ==
  LET b == Buffer(f)
      fills == b.writing /\ BytesLeft(b) > 0
      k == IF fills THEN BytesLeft(b) ELSE 0
      full == b.data \o SubSeq(NewBytes(n), 1, k)
  IN
  /\ CanWrite(f, n)
  /\ ~b.writing \/ BytesLeft(b) < n
  /\ n - k >= BufferSize
  /\ failures < MaxFailures /\ failures' = failures + 1
  /\ os' = [os EXCEPT ![f] = IF fills THEN SysWrite(@, full) ELSE @]
  /\ SetBuffer(f, IF fills THEN [b EXCEPT !.data = full, !.offset = b.len] ELSE b)
  /\ last' = Call("failed write", f, n, <<>>)

(* What flush makes of the file and of its buffer. *)
Pending(f) == Buffer(f).writing /\ Buffer(f).offset > 0
FlushedFile(f) == IF Pending(f) THEN SysWrite(os[f], Buffer(f).data) ELSE os[f]
(* Mutant: what was written out stays in the buffer. *)
FlushedBufferStays(f) == Buffer(f)
FlushedBuffer(f) == IF Pending(f) THEN [NewBuffer EXCEPT !.used = TRUE] ELSE Buffer(f)

Flush(f) ==
  /\ IsOpen(f)
  /\ os' = [os EXCEPT ![f] = FlushedFile(f)]
  /\ SetBuffer(f, FlushedBuffer(f))
  /\ last' = Call("flush", f, 0, <<>>)
  /\ UNCHANGED <<mine, written, failures>>

(* flush when the system refuses: nothing changes, it can be tried again. *)
FlushFails(f) ==
  /\ Pending(f)
  /\ failures < MaxFailures /\ failures' = failures + 1
  /\ last' = Call("flush", f, 0, <<>>)
  /\ UNCHANGED <<os, mine, buffers, written>>

(* seek.  Inside the buffer it only moves the offset: while reading to     *)
(* wherever it is told, before the buffer too, where nobody knows what is  *)
(* read; while writing over bytes of an earlier use, and not backwards,    *)
(* since memset does not return from a negative distance.                  *)
SeekInside(f, d) ==
  LET b == Buffer(f) IN
  /\ IsOpen(f) /\ HasBuffer(f)
  /\ d < BytesLeft(b)
  /\ b.writing => d >= 0
  /\ Careful => CarefulSeek(b, "current", d)
  /\ SetBuffer(f, [b EXCEPT
       !.offset = @ + d,
       !.data = IF ~b.writing THEN @
                ELSE [k \in 1 .. b.offset + d |->
                        IF k <= d THEN 0 ELSE IF k <= b.offset THEN @[k] ELSE Stale]])
  /\ last' = Call("current", f, d, <<>>)
  /\ UNCHANGED <<os, mine, written, failures>>

(* Mutant: seeks before it flushes. *)
SeekWithoutFlush(f, from, d) ==
  /\ IsOpen(f)
  /\ from = "current" /\ HasBuffer(f) => d >= BytesLeft(Buffer(f))
  /\ Careful => CarefulSeek(Buffer(f), from, d)
  /\ os' = [os EXCEPT ![f] = SysSeek(os[f], from, d)]
  /\ last' = Call(from, f, d, <<>>)
  /\ UNCHANGED <<mine, buffers, written, failures>>

SeekOutside(f, from, d) ==
  LET b == Buffer(f)
      file == FlushedFile(f)
      back == IF from = "current" /\ ~b.writing THEN BytesLeft(b) ELSE 0
  IN
  /\ IsOpen(f)
  /\ from = "current" /\ HasBuffer(f) => d >= BytesLeft(b)
  /\ Careful => CarefulSeek(b, from, d)
  /\ SysSeek(file, from, d - back).pos <= MaxPos
  /\ os' = [os EXCEPT ![f] = SysSeek(file, from, d - back)]
  /\ SetBuffer(f, FlushedBuffer(f))
  /\ last' = Call(from, f, d, <<>>)
  /\ UNCHANGED <<mine, written, failures>>

(* close: flush, close the handle, give the buffer back. *)
Closed(f, disk) ==
  /\ os' = [os EXCEPT ![f] = [disk |-> disk, mode |-> "closed", pos |-> 0]]
  /\ mine' = [mine EXCEPT ![f] = 0]
  /\ SetBuffer(f, NewBuffer)
  /\ UNCHANGED written

Close(f) ==
  /\ IsOpen(f)
  /\ Closed(f, FlushedFile(f).disk)
  /\ last' = Call("close", f, 0, <<>>)
  /\ UNCHANGED failures

(* close, when the system refuses the last bytes. *)
CloseLosing(f) ==
  /\ Pending(f)
  /\ failures < MaxFailures /\ failures' = failures + 1
  /\ Closed(f, os[f].disk)
  /\ last' = Call("failed close", f, 0, <<>>)

Next ==
  \E f \in Files :
    \/ \E m \in OpenModes : Open(f, m)
    \/ \E n \in ReadSizes : ReadBuffered(f, n) \/ ReadMore(f, n)
    \/ \E n \in WriteSizes : \/ WriteBuffered(f, n) \/ WriteMore(f, n)
                              \/ WriteFails(f, n) \/ DirectWriteFails(f, n)
    \/ \E d \in Distances : SeekInside(f, d)
    \/ \E from \in {"begin", "current", "end"}, d \in Distances : SeekOutside(f, from, d)
    \/ Flush(f)
    \/ FlushFails(f)
    \/ Close(f)
    \/ CloseLosing(f)

Spec == Init /\ [][Next]_vars

-----------------------------------------------------------------------------
(***************************************************************************)
(* Properties                                                              *)
(***************************************************************************)

BufferOK(b) ==
  /\ DOMAIN b = DOMAIN NewBuffer
  /\ b.used \in BOOLEAN /\ b.writing \in BOOLEAN
  /\ b.len \in 0 .. BufferSize /\ b.offset \in 0 .. b.len
  /\ Len(b.data) = IF b.writing THEN b.offset ELSE b.len

(* The offset of a buffer never leaves it, unless a seek backwards makes   *)
(* it, and offset and len delimit the bytes that are in it.                *)
TypeOK ==
  /\ \A f \in Files : os[f].mode \in OpenModes \cup {"closed"} /\ os[f].pos \in Nat
  /\ mine \in [Files -> 0 .. BufferCount]
  /\ \A b \in 1 .. BufferCount : BufferOK(buffers[b])
  /\ written \in 0 .. MaxBytes /\ failures \in 0 .. MaxFailures

(* Every buffer in use belongs to exactly one open file: no buffer is      *)
(* shared or leaks, whatever order files are opened and closed in, as long *)
(* as no file is opened twice.                                             *)
BuffersOwned ==
  /\ \A f \in Files : HasBuffer(f) => IsOpen(f) /\ Buffer(f).used
  /\ \A f, g \in Files : HasBuffer(f) /\ mine[f] = mine[g] => f = g
  /\ \A b \in 1 .. BufferCount : buffers[b].used => \E f \in Files : mine[f] = b

(* A byte that was written gets to one place of one file at most, however  *)
(* often its buffer is flushed and flushing is tried again.                *)
EachByteOnce ==
  \A f, g \in Files : \A i \in DOMAIN os[f].disk, j \in DOMAIN os[g].disk :
    os[f].disk[i] = os[g].disk[j] /\ os[f].disk[i] > 0 => f = g /\ i = j

(* The files and their buffers between two calls.                          *)
WellFormed == TypeOK /\ EachByteOnce

(* The buffers implement byte streams: what a user reads, and where, is    *)
(* what the disk with the bytes still buffered on top of it says, and no   *)
(* flush, refill or failed call changes that.                              *)
Streams == INSTANCE ByteStreams WITH
  Sizes <- ReadSizes \cup WriteSizes,
  content <- [f \in Files |-> FlushedFile(f).disk],
  mode <- [f \in Files |-> os[f].mode],
  at <- [f \in Files |-> IF Buffer(f).writing THEN FlushedFile(f).pos
                         ELSE os[f].pos - BytesLeft(Buffer(f))]
ImplementsStreams == Streams!Spec

(* file.cpp, on a write that does not fit: "Copy to the rest of the file   *)
(* buffer."  Once a file that was only appended to is closed, every byte   *)
(* written to it is in it.                                                 *)
WritesAreKept ==
  (\A f \in Files : ~IsOpen(f)) =>
    \A k \in 1 .. written : \E f \in Files : \E i \in DOMAIN os[f].disk : os[f].disk[i] = k
=============================================================================
