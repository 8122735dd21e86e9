---------------------------- MODULE ByteStreams ----------------------------
(***************************************************************************)
(* What File_t promises its users: every file is a sequence of bytes with  *)
(* a position, whatever is buffered inside.  Bytes are numbered in the     *)
(* order in which callers write them; 0 is the byte that fills the gap     *)
(* when a file is written beyond its end.                                  *)
(***************************************************************************)
EXTENDS Integers, Sequences

CONSTANTS Files, Sizes, Distances

Modes == {"read", "write", "append"}

VARIABLES
  content,  \* what is in each file for its user
  mode,     \* "closed" or one of Modes
  at,       \* the position of each open file
  written,  \* the number of bytes callers have written so far
  last      \* the last call and, if it was a read, what it delivered

svars == <<content, mode, at, written, last>>

Call(op, f, n, bytes) == [op |-> op, file |-> f, size |-> n, bytes |-> bytes]

Overlay(s, place, bytes) ==
  LET end == place + Len(bytes)
  IN  [k \in 1 .. IF end > Len(s) THEN end ELSE Len(s) |->
         IF k \in place + 1 .. end THEN bytes[k - place]
         ELSE IF k <= Len(s) THEN s[k] ELSE 0]

Part(s, place, n) ==
  SubSeq(s, place + 1, IF place + n < Len(s) THEN place + n ELSE Len(s))

NewBytes(n) == [k \in 1 .. n |-> written + k]

Init ==
  /\ content \in [Files -> Seq(Int)]
  /\ mode = [f \in Files |-> "closed"]
  /\ at = [f \in Files |-> 0]
  /\ written = 0
  /\ last = Call("none", "none", 0, <<>>)

Open(f, m) ==
  /\ mode[f] = "closed"
  /\ mode' = [mode EXCEPT ![f] = m]
  /\ content' = IF m = "write" THEN [content EXCEPT ![f] = <<>>] ELSE content
  /\ at' = [at EXCEPT ![f] = 0]
  /\ last' = Call("open", f, 0, <<>>)
  /\ UNCHANGED written

Read(f, n) ==
  LET bytes == Part(content[f], at[f], n) IN
  /\ mode[f] # "closed"
  /\ at' = [at EXCEPT ![f] = @ + Len(bytes)]
  /\ last' = Call("read", f, n, bytes)
  /\ UNCHANGED <<content, mode, written>>

(* The first k of n bytes are written; fewer than n, or none, only by a    *)
(* write that returns false.                                               *)
WritePart(f, op, n, k) ==
  LET place == IF mode[f] = "append" THEN Len(content[f]) ELSE at[f] IN
  /\ mode[f] \in {"write", "append"}
  /\ content' = [content EXCEPT ![f] = Overlay(@, place, NewBytes(k))]
  /\ at' = [at EXCEPT ![f] = place + k]
  /\ written' = written + n
  /\ last' = Call(op, f, n, <<>>)
  /\ UNCHANGED mode

Write(f, n) == WritePart(f, "write", n, n)
WriteFails(f, n) == \E k \in 1 .. n - 1 : WritePart(f, "failed write", n, k)

WriteRefused(f, n) ==
  /\ mode[f] \in {"write", "append"}
  /\ written' = written + n
  /\ last' = Call("failed write", f, n, <<>>)
  /\ UNCHANGED <<content, mode, at>>

Seek(f, from, d) ==
  LET target == CASE from = "begin" -> d
                  [] from = "current" -> at[f] + d
                  [] from = "end" -> Len(content[f]) + d
  IN
  /\ mode[f] # "closed"
  /\ at' = [at EXCEPT ![f] = IF target >= 0 THEN target ELSE @]
  /\ last' = Call(from, f, d, <<>>)
  /\ UNCHANGED <<content, mode, written>>

Flush(f) ==
  /\ mode[f] # "closed"
  /\ last' = Call("flush", f, 0, <<>>)
  /\ UNCHANGED <<content, mode, at, written>>

(* Closing keeps what was written unless the system refuses the last of it. *)
Close(f) ==
  /\ mode[f] # "closed"
  /\ mode' = [mode EXCEPT ![f] = "closed"]
  /\ at' = [at EXCEPT ![f] = 0]
  /\ \/ last' = Call("close", f, 0, <<>>) /\ UNCHANGED content
     \/ /\ last' = Call("failed close", f, 0, <<>>)
        /\ content' = [content EXCEPT ![f] = content'[f]]
  /\ UNCHANGED written

Next ==
  \E f \in Files :
    \/ \E m \in Modes : Open(f, m)
    \/ \E n \in Sizes : Read(f, n) \/ Write(f, n) \/ WriteFails(f, n) \/ WriteRefused(f, n)
    \/ \E from \in {"begin", "current", "end"}, d \in Distances : Seek(f, from, d)
    \/ Flush(f)
    \/ Close(f)

Spec == Init /\ [][Next]_svars
=============================================================================
