----------------------------- MODULE FileProofs -----------------------------
(***************************************************************************)
(* Proofs about File, for any number of files and buffers and any sizes.   *)
(*                                                                         *)
(* Whatever callers do, no two files share a buffer (Separate).  All else  *)
(* needs callers who keep the obligations (Careful).  Inv, the types and   *)
(* the ownership of the buffers, needs of them that they open no file      *)
(* twice and do not seek backwards out of a buffer.  Then every byte that  *)
(* was written is on one disk or still in one buffer (Places), and what is *)
(* left in a buffer for reading is what the disk has just before the       *)
(* position (ReadAhead).                                                   *)
(*                                                                         *)
(* A file and its buffer stand for the stream After and Where: the disk    *)
(* with the unwritten bytes put on it, and the position without the bytes  *)
(* read ahead.  Each call is shown to do to these two what the stream      *)
(* does; SysWriteTwice, writing twice is writing both at once, is what     *)
(* makes it irrelevant when a buffer is written out.                       *)
(***************************************************************************)
EXTENDS File, SequenceTheorems, TLAPS

-----------------------------------------------------------------------------
(* Sequences and the system calls. *)

LEMMA FunctionIsSequence ==
  ASSUME NEW S, NEW n \in Nat, NEW s \in [1 .. n -> S]
  PROVE  s \in Seq(S) /\ Len(s) = n
  BY SeqDef

LEMMA SequencesEqual ==
  ASSUME NEW s \in Seq(Int), NEW t \in Seq(Int), Len(s) = Len(t),
         \A k \in 1 .. Len(s) : s[k] = t[k]
  PROVE  s = t
  BY SeqEqual

LEMMA ConcatOfThree ==
  ASSUME NEW s \in Seq(Int), NEW t \in Seq(Int), NEW u \in Seq(Int)
  PROVE  (s \o t) \o u = s \o (t \o u)
<1> DEFINE S == Int
<1>1. s \in Seq(S) /\ t \in Seq(S) /\ u \in Seq(S)
  OBVIOUS
<1> HIDE DEF S
<1> QED
  BY <1>1, ConcatAssociative, SMTT(30)

FileSet == [disk : Seq(Int), mode : OpenModes \cup {"closed"}, pos : Nat]

LEMMA FilesEqual ==
  ASSUME NEW a \in FileSet, NEW b \in FileSet, a.disk = b.disk, a.mode = b.mode, a.pos = b.pos
  PROVE  a = b
<1>1. a = [disk |-> a.disk, mode |-> a.mode, pos |-> a.pos]
  BY DEF FileSet
<1>2. b = [disk |-> b.disk, mode |-> b.mode, pos |-> b.pos]
  BY DEF FileSet
<1> QED
  BY <1>1, <1>2

(* The next n bytes of a file, as far as there are any. *)
LEMMA SysReadIs ==
  ASSUME NEW file \in FileSet, NEW n \in Nat
  PROVE  /\ SysRead(file, n) \in Seq(Int)
         /\ Len(SysRead(file, n)) = IF file.pos < Len(file.disk)
                                    THEN MinOf(file.pos + n, Len(file.disk)) - file.pos ELSE 0
         /\ \A k \in 1 .. Len(SysRead(file, n)) :
              file.pos + k \in 1 .. Len(file.disk) /\ SysRead(file, n)[k] = file.disk[file.pos + k]
<1> DEFINE disk == file.disk
<1> DEFINE size == Len(disk)
<1> DEFINE p == file.pos
<1> DEFINE to == IF p + n < size THEN p + n ELSE size
<1> DEFINE s == SubSeq(disk, p + 1, to)
<1> DEFINE got == Len(s)
<1>1. disk \in Seq(Int) /\ size \in Nat /\ p \in Nat
  BY LenProperties DEF FileSet
<1>2. \A k \in 1 .. size : disk[k] \in Int
  BY <1>1, ElementOfSeq
<1>3. SysRead(file, n) = s
  BY DEF SysRead, MinOf
<1> HIDE DEF disk, size, p
<1>4. to \in Int /\ to <= size
  BY <1>1
<1>5. \A k \in p + 1 .. to : disk[k] \in Int
  BY <1>1, <1>2, <1>4
<1>6. /\ s \in Seq(Int) /\ got = IF p + 1 <= to THEN to - (p + 1) + 1 ELSE 0
      /\ \A k \in 1 .. to - (p + 1) + 1 : s[k] = disk[p + 1 + k - 1]
  <2> HIDE DEF to
  <2> QED
    BY <1>1, <1>4, <1>5, SubSeqProperties
<1> HIDE DEF s, got
<1>7. got = IF p < size THEN to - p ELSE 0
  BY <1>1, <1>6
<1>8. ASSUME NEW k \in 1 .. got
      PROVE  p + k \in 1 .. size /\ s[k] = disk[p + k]
  <2>1. k \in 1 .. to - p /\ p < size
    BY <1>1, <1>7, <1>8
  <2> HIDE DEF to
  <2>2. k \in 1 .. to - (p + 1) + 1 /\ p + 1 + k - 1 = p + k /\ p + k \in 1 .. size
    BY <1>1, <1>4, <2>1
  <2> QED
    BY <1>6, <2>2
<1> QED
  BY <1>3, <1>6, <1>7, <1>8 DEF disk, size, p, got, MinOf

Place(file) == IF file.mode = "append" THEN Len(file.disk) ELSE file.pos
MaxOf(m, n) == IF m < n THEN n ELSE m

(* The bytes from the place on, zeros up to it, and the rest as it was. *)
LEMMA SysWriteIs ==
  ASSUME NEW file \in FileSet, NEW s \in Seq(Int)
  PROVE  LET place == Place(file)
             after == SysWrite(file, s)
         IN  /\ after \in FileSet /\ after.mode = file.mode /\ after.pos = place + Len(s)
             /\ Len(after.disk) = MaxOf(place + Len(s), Len(file.disk))
             /\ after.disk = [k \in 1 .. MaxOf(place + Len(s), Len(file.disk)) |->
                                IF k \in place + 1 .. place + Len(s) THEN s[k - place]
                                ELSE IF k <= Len(file.disk) THEN file.disk[k] ELSE 0]
<1> DEFINE place == Place(file)
<1> DEFINE end == place + Len(s)
<1> DEFINE disk == file.disk
<1>1. /\ disk \in Seq(Int) /\ Len(disk) \in Nat /\ file.pos \in Nat
      /\ Len(s) \in Nat /\ place \in Nat /\ end \in Nat
  <2>1. disk \in Seq(Int) /\ file.pos \in Nat
    BY DEF FileSet
  <2>2. Len(disk) \in Nat /\ Len(s) \in Nat
    BY <2>1, LenProperties
  <2> QED
    BY <2>1, <2>2 DEF Place
<1>2. /\ \A k \in 1 .. Len(disk) : disk[k] \in Int
      /\ \A k \in 1 .. Len(s) : s[k] \in Int
  BY <1>1, ElementOfSeq
<1> DEFINE size == end + Len(disk) - MinOf(end, Len(disk))
<1>3. size \in Nat /\ size = MaxOf(end, Len(disk))
  BY <1>1 DEF MinOf, MaxOf
<1> DEFINE after == [k \in 1 .. size |->
                       IF k \in place + 1 .. end THEN s[k - place]
                       ELSE IF k <= Len(disk) THEN disk[k] ELSE 0]
<1>4. SysWrite(file, s) = [file EXCEPT !.pos = end, !.disk = after]
  BY DEF SysWrite, Place
<1> HIDE DEF end, size
<1>5. after \in [1 .. size -> Int]
  <2> SUFFICES ASSUME NEW k \in 1 .. size
               PROVE  (IF k \in place + 1 .. end THEN s[k - place]
                       ELSE IF k <= Len(disk) THEN disk[k] ELSE 0) \in Int
    OBVIOUS
  <2>1. CASE k \in place + 1 .. end
    <3>1. k - place \in 1 .. Len(s)
      BY <1>1, <2>1 DEF end
    <3> QED
      BY <1>2, <2>1, <3>1
  <2>2. CASE k \notin place + 1 .. end
    BY <1>1, <1>2, <1>3, <2>2
  <2> QED
    BY <2>1, <2>2
<1> DEFINE new == after
<1> HIDE DEF after
<1>6. new \in Seq(Int) /\ Len(new) = size
  BY <1>3, <1>5, FunctionIsSequence
<1>7. /\ SysWrite(file, s) \in FileSet /\ SysWrite(file, s).mode = file.mode
      /\ SysWrite(file, s).pos = end /\ SysWrite(file, s).disk = new
  BY <1>1, <1>4, <1>6 DEF FileSet
<1> QED
  BY <1>3, <1>6, <1>7 DEF after, end

Sought(file, from, d) ==
  d + (IF from = "begin" THEN 0 ELSE IF from = "current" THEN file.pos ELSE Len(file.disk))

LEMMA SysSeekIs ==
  ASSUME NEW file \in FileSet, NEW d \in Int, NEW from \in {"begin", "current", "end"}
  PROVE  /\ SysSeek(file, from, d) \in FileSet
         /\ SysSeek(file, from, d).disk = file.disk /\ SysSeek(file, from, d).mode = file.mode
         /\ Sought(file, from, d) \in Int
         /\ SysSeek(file, from, d).pos =
              IF Sought(file, from, d) >= 0 THEN Sought(file, from, d) ELSE file.pos
<1>1. file.pos \in Nat /\ Len(file.disk) \in Nat
  BY LenProperties DEF FileSet
<1>2. /\ from = "begin" => SysSeek(file, from, d) = IF d >= 0 THEN [file EXCEPT !.pos = d] ELSE file
      /\ from = "current" => SysSeek(file, from, d) = IF d + file.pos >= 0 THEN [file EXCEPT !.pos = d + file.pos] ELSE file
      /\ from = "end" => SysSeek(file, from, d) = IF d + Len(file.disk) >= 0 THEN [file EXCEPT !.pos = d + Len(file.disk)] ELSE file
  BY DEF SysSeek
<1> QED
  BY <1>1, <1>2 DEF FileSet, Sought

(* Writing twice is writing both at once. *)
LEMMA SysWriteTwice ==
  ASSUME NEW file \in FileSet, NEW s \in Seq(Int), NEW t \in Seq(Int)
  PROVE  SysWrite(SysWrite(file, s), t) = SysWrite(file, s \o t)
<1> DEFINE p == Place(file)
<1> DEFINE one == SysWrite(file, s)
<1> DEFINE two == SysWrite(one, t)
<1> DEFINE both == SysWrite(file, s \o t)
<1>1. /\ s \o t \in Seq(Int) /\ Len(s \o t) = Len(s) + Len(t)
      /\ \A k \in 1 .. Len(s) + Len(t) :
           (s \o t)[k] = IF k <= Len(s) THEN s[k] ELSE t[k - Len(s)]
  BY ConcatProperties
<1>2. p \in Nat /\ Len(s) \in Nat /\ Len(t) \in Nat /\ Len(file.disk) \in Nat
  BY LenProperties DEF Place, FileSet
<1>3. /\ one \in FileSet /\ one.mode = file.mode /\ one.pos = p + Len(s)
      /\ Len(one.disk) = MaxOf(p + Len(s), Len(file.disk))
      /\ one.disk = [k \in 1 .. MaxOf(p + Len(s), Len(file.disk)) |->
                       IF k \in p + 1 .. p + Len(s) THEN s[k - p]
                       ELSE IF k <= Len(file.disk) THEN file.disk[k] ELSE 0]
  BY SysWriteIs
<1> HIDE DEF one
<1>4. Place(one) = p + Len(s)
  BY <1>2, <1>3 DEF Place, MaxOf
<1> DEFINE q == p + Len(s)
<1>5. /\ two \in FileSet /\ two.mode = one.mode /\ two.pos = q + Len(t)
      /\ two.disk = [k \in 1 .. MaxOf(q + Len(t), Len(one.disk)) |->
                       IF k \in q + 1 .. q + Len(t) THEN t[k - q]
                       ELSE IF k <= Len(one.disk) THEN one.disk[k] ELSE 0]
  <2> DEFINE where == Place(one)
  <2>1. /\ two \in FileSet /\ two.mode = one.mode /\ two.pos = where + Len(t)
        /\ two.disk = [k \in 1 .. MaxOf(where + Len(t), Len(one.disk)) |->
                         IF k \in where + 1 .. where + Len(t) THEN t[k - where]
                         ELSE IF k <= Len(one.disk) THEN one.disk[k] ELSE 0]
    BY <1>3, SysWriteIs
  <2>2. where = q
    BY <1>4
  <2> HIDE DEF where, q, two
  <2> QED
    BY <2>1, <2>2
<1>6. /\ both \in FileSet /\ both.mode = file.mode /\ both.pos = p + Len(s \o t)
      /\ both.disk = [k \in 1 .. MaxOf(p + Len(s \o t), Len(file.disk)) |->
                       IF k \in p + 1 .. p + Len(s \o t) THEN (s \o t)[k - p]
                       ELSE IF k <= Len(file.disk) THEN file.disk[k] ELSE 0]
  BY <1>1, SysWriteIs
<1> HIDE DEF p, two, both
<1>7. MaxOf(q + Len(t), Len(one.disk)) = MaxOf(p + Len(s \o t), Len(file.disk))
  BY <1>1, <1>2, <1>3 DEF MaxOf
<1> DEFINE size == MaxOf(p + Len(s \o t), Len(file.disk))
<1>8. ASSUME NEW k \in 1 .. size
      PROVE  (IF k \in q + 1 .. q + Len(t) THEN t[k - q]
              ELSE IF k <= Len(one.disk) THEN one.disk[k] ELSE 0)
             = (IF k \in p + 1 .. p + Len(s \o t) THEN (s \o t)[k - p]
                ELSE IF k <= Len(file.disk) THEN file.disk[k] ELSE 0)
  <2>1. k \in Nat \ {0}
    BY <1>1, <1>2, <1>8 DEF MaxOf
  <2>2. CASE k \in q + 1 .. q + Len(t)
    <3>1. k - p \in 1 .. Len(s) + Len(t) /\ ~(k - p <= Len(s)) /\ (k - p) - Len(s) = k - q
      BY <1>2, <2>2
    <3> QED
      BY <1>1, <1>2, <2>2, <3>1
  <2>3. CASE k \in p + 1 .. q
    <3>1. k - p \in 1 .. Len(s) + Len(t) /\ k - p <= Len(s) /\ k <= Len(one.disk) /\ k \notin q + 1 .. q + Len(t)
      BY <1>2, <1>3, <2>3 DEF MaxOf
    <3>2. one.disk[k] = s[k - p]
      BY <1>2, <1>3, <2>1, <2>3, <3>1 DEF MaxOf
    <3> QED
      BY <1>1, <1>2, <2>3, <3>1, <3>2
  <2>4. CASE k \notin p + 1 .. q + Len(t)
    <3>1. k \notin p + 1 .. q /\ k \notin q + 1 .. q + Len(t) /\ k \notin p + 1 .. p + Len(s \o t)
      BY <1>1, <1>2, <2>4
    <3>2. k <= Len(one.disk) => one.disk[k] = IF k <= Len(file.disk) THEN file.disk[k] ELSE 0
      BY <1>2, <1>3, <2>1, <3>1
    <3>3. k <= Len(file.disk) => k <= Len(one.disk)
      BY <1>2, <1>3, <2>1 DEF MaxOf
    <3> QED
      BY <3>1, <3>2, <3>3
  <2> QED
    BY <1>2, <2>1, <2>2, <2>3, <2>4
<1>9. two.disk = both.disk
  BY <1>5, <1>6, <1>7, <1>8
<1>10. two.pos = both.pos
  BY <1>1, <1>2, <1>5, <1>6
<1>11. two = both
  <2>1. two.mode = both.mode
    BY <1>3, <1>5, <1>6
  <2> QED
    BY <1>5, <1>6, <1>9, <1>10, <2>1, FilesEqual
<1> QED
  BY <1>11 DEF two, both, one

-----------------------------------------------------------------------------
(* The bytes that callers write, each with its number. *)

Bytes(s) == {s[k] : k \in 1 .. Len(s)} \cap (Nat \ {0})
Once(s) == \A i, j \in 1 .. Len(s) : s[i] = s[j] /\ s[i] > 0 => i = j

LEMMA NothingOnce == Once(<<>>) /\ Bytes(<<>>) = {}
  BY DEF Once, Bytes

LEMMA NewBytesAre ==
  ASSUME written \in Nat, NEW n \in Nat, NEW a \in 1 .. n + 1, NEW b \in 0 .. n
  PROVE  LET s == SubSeq(NewBytes(n), a, b)
         IN  /\ s \in Seq(Int) /\ Len(s) = IF a <= b THEN b - a + 1 ELSE 0
             /\ \A k \in 1 .. b - a + 1 : s[k] = written + a + k - 1
             /\ Once(s) /\ Bytes(s) \subseteq written + a .. written + b
<1> DEFINE new == NewBytes(n)
<1> DEFINE s == SubSeq(new, a, b)
<1> DEFINE size == Len(s)
<1>1. \A k \in 1 .. n : new[k] = written + k /\ new[k] \in Int
  BY DEF NewBytes
<1> HIDE DEF new
<1>2. \A k \in a .. b : new[k] = written + k /\ new[k] \in Int
  BY <1>1
<1>3. /\ s \in Seq(Int) /\ size = IF a <= b THEN b - a + 1 ELSE 0
      /\ \A k \in 1 .. b - a + 1 : s[k] = new[a + k - 1]
  BY <1>2, SubSeqProperties
<1> HIDE DEF s, size
<1>4. \A k \in 1 .. b - a + 1 : s[k] = written + a + k - 1 /\ s[k] \in written + a .. written + b
  <2> TAKE k \in 1 .. b - a + 1
  <2>1. a + k - 1 \in a .. b
    OBVIOUS
  <2> QED
    BY <1>2, <1>3, <2>1
<1>5. \A k \in 1 .. size : k \in 1 .. b - a + 1
  BY <1>3
<1>6. Once(s)
  BY <1>4, <1>5 DEF Once, size
<1>7. Bytes(s) \subseteq written + a .. written + b
  BY <1>4, <1>5 DEF Bytes, size
<1> QED
  BY <1>3, <1>4, <1>6, <1>7 DEF s, size, new

LEMMA NewBytesAll ==
  ASSUME written \in Nat, NEW n \in Nat
  PROVE  NewBytes(n) \in Seq(Int) /\ Len(NewBytes(n)) = n /\ SubSeq(NewBytes(n), 1, n) = NewBytes(n)
<1>1. NewBytes(n) \in [1 .. n -> Int]
  BY DEF NewBytes
<1>2. NewBytes(n) \in Seq(Int) /\ Len(NewBytes(n)) = n
  BY <1>1, FunctionIsSequence
<1> QED
  BY <1>2, SubSeqFull

LEMMA ConcatOnce ==
  ASSUME NEW s \in Seq(Int), NEW t \in Seq(Int), Once(s), Once(t), Bytes(s) \cap Bytes(t) = {}
  PROVE  s \o t \in Seq(Int) /\ Once(s \o t) /\ Bytes(s \o t) \subseteq Bytes(s) \cup Bytes(t)
<1> DEFINE m == Len(s)
<1> DEFINE n == Len(t)
<1> DEFINE both == s \o t
<1>1. m \in Nat /\ n \in Nat
  BY LenProperties
<1>2. /\ both \in Seq(Int) /\ Len(both) = m + n
      /\ \A k \in 1 .. m + n : both[k] = IF k <= m THEN s[k] ELSE t[k - m]
  BY ConcatProperties
<1> HIDE DEF both
<1>3. \A k \in 1 .. m + n : both[k] \in Int
  BY <1>2, ElementOfSeq
<1>4. \A k \in 1 .. m : both[k] = s[k] /\ (both[k] > 0 => both[k] \in Bytes(s))
  <2> TAKE k \in 1 .. m
  <2>1. k \in 1 .. m + n /\ k <= m
    BY <1>1
  <2>2. both[k] = s[k] /\ both[k] \in Int
    BY <1>2, <1>3, <2>1
  <2> QED
    BY <2>2 DEF Bytes
<1>5. \A k \in m + 1 .. m + n : k - m \in 1 .. n /\ both[k] = t[k - m] /\ (both[k] > 0 => both[k] \in Bytes(t))
  <2> TAKE k \in m + 1 .. m + n
  <2>1. k \in 1 .. m + n /\ ~(k <= m) /\ k - m \in 1 .. n
    BY <1>1
  <2>2. both[k] = t[k - m] /\ both[k] \in Int
    BY <1>2, <1>3, <2>1
  <2> QED
    BY <2>1, <2>2 DEF Bytes
<1>6. \A k \in 1 .. m + n : k \in 1 .. m \/ k \in m + 1 .. m + n
  BY <1>1
<1>7. Once(both)
  <2> SUFFICES ASSUME NEW i \in 1 .. m + n, NEW j \in 1 .. m + n, both[i] = both[j], both[i] > 0
               PROVE  i = j
    BY <1>2 DEF Once
  <2>1. CASE i \in 1 .. m /\ j \in 1 .. m
    BY <1>4, <2>1 DEF Once
  <2>2. CASE i \in m + 1 .. m + n /\ j \in m + 1 .. m + n
    <3>1. i - m = j - m
      BY <1>5, <2>2 DEF Once
    <3> QED
      BY <1>1, <3>1
  <2> QED
    BY <1>4, <1>5, <1>6, <2>1, <2>2
<1>8. Bytes(both) \subseteq Bytes(s) \cup Bytes(t)
  <2> SUFFICES ASSUME NEW k \in 1 .. m + n, both[k] \in Nat \ {0}
               PROVE  both[k] \in Bytes(s) \cup Bytes(t)
    BY <1>2 DEF Bytes
  <2> QED
    BY <1>4, <1>5, <1>6
<1> QED
  BY <1>2, <1>7, <1>8 DEF both

(* Writing moves bytes and overwrites others. *)
LEMMA WriteOnce ==
  ASSUME NEW file \in FileSet, NEW s \in Seq(Int),
         Once(file.disk), Once(s), Bytes(file.disk) \cap Bytes(s) = {}
  PROVE  /\ Once(SysWrite(file, s).disk)
         /\ Bytes(SysWrite(file, s).disk) \subseteq Bytes(file.disk) \cup Bytes(s)
<1> DEFINE disk == file.disk
<1> DEFINE p == Place(file)
<1> DEFINE m == Len(disk)
<1> DEFINE n == Len(s)
<1> DEFINE new == SysWrite(file, s).disk
<1>1. disk \in Seq(Int) /\ m \in Nat /\ n \in Nat /\ p \in Nat
  BY LenProperties DEF FileSet, Place
<1> DEFINE size == MaxOf(p + n, m)
<1>2. /\ new \in Seq(Int) /\ Len(new) = size
      /\ new = [k \in 1 .. size |-> IF k \in p + 1 .. p + n THEN s[k - p]
                                    ELSE IF k <= m THEN disk[k] ELSE 0]
  BY SysWriteIs DEF FileSet
<1>3. \A k \in 1 .. size : new[k] = IF k \in p + 1 .. p + n THEN s[k - p]
                                    ELSE IF k <= m THEN disk[k] ELSE 0
  BY <1>2
<1>4. size \in Nat /\ \A k \in 1 .. size : new[k] \in Int
  <2>1. size \in Nat
    BY <1>1 DEF MaxOf
  <2> HIDE DEF size, new
  <2> QED
    BY <1>2, <2>1, ElementOfSeq
<1> HIDE DEF new, disk, p, m, n, size
<1>5. ASSUME NEW k \in 1 .. size, new[k] > 0
      PROVE  \/ k \in p + 1 .. p + n /\ k - p \in 1 .. n /\ new[k] = s[k - p] /\ new[k] \in Bytes(s)
             \/ k \in 1 .. m /\ new[k] = disk[k] /\ new[k] \in Bytes(disk)
  <2>1. CASE k \in p + 1 .. p + n
    <3>1. k - p \in 1 .. n /\ new[k] = s[k - p]
      BY <1>1, <1>3, <2>1
    <3> QED
      BY <1>4, <1>5, <2>1, <3>1 DEF Bytes, n
  <2>2. CASE k \notin p + 1 .. p + n
    <3>1. k <= m /\ new[k] = disk[k]
      BY <1>3, <1>5, <2>2
    <3>2. k \in 1 .. m
      BY <1>1, <1>4, <3>1
    <3> QED
      BY <1>4, <1>5, <3>1, <3>2 DEF Bytes, m
  <2> QED
    BY <2>1, <2>2
<1>6. Once(new)
  <2> SUFFICES ASSUME NEW i \in 1 .. size, NEW j \in 1 .. size, new[i] = new[j], new[i] > 0
               PROVE  i = j
    BY <1>2 DEF Once
  <2>1. CASE /\ i \in p + 1 .. p + n /\ i - p \in 1 .. n /\ new[i] = s[i - p]
             /\ j \in p + 1 .. p + n /\ j - p \in 1 .. n /\ new[j] = s[j - p]
    <3>1. i - p = j - p
      BY <2>1 DEF Once, n
    <3> QED
      BY <1>1, <3>1
  <2>2. CASE i \in 1 .. m /\ new[i] = disk[i] /\ j \in 1 .. m /\ new[j] = disk[j]
    BY <2>2 DEF Once, m, disk
  <2> QED
    BY <1>5, <2>1, <2>2 DEF disk
<1>7. Bytes(new) \subseteq Bytes(disk) \cup Bytes(s)
  <2> SUFFICES ASSUME NEW k \in 1 .. size, new[k] \in Nat \ {0}
               PROVE  new[k] \in Bytes(disk) \cup Bytes(s)
    BY <1>2 DEF Bytes
  <2> QED
    BY <1>5
<1> QED
  BY <1>6, <1>7 DEF new, disk

-----------------------------------------------------------------------------
(* The inductive invariant. *)

BufferSet ==
  {b \in [data : Seq(Int), len : 0 .. BufferSize, offset : 0 .. BufferSize,
          used : BOOLEAN, writing : BOOLEAN] :
     b.offset <= b.len /\ Len(b.data) = IF b.writing THEN b.offset ELSE b.len}

Types ==
  /\ os \in [Files -> FileSet]
  /\ mine \in [Files -> 0 .. BufferCount]
  /\ buffers \in [1 .. BufferCount -> BufferSet]
  /\ written \in 0 .. MaxBytes /\ failures \in 0 .. MaxFailures

Inv == Types /\ BuffersOwned

(* A byte that was written is on the disk or still to be flushed, in one   *)
(* place of one file.                                                      *)
Unwritten(b) == IF b.writing THEN b.data ELSE <<>>
Kept(file, b) == Bytes(file.disk) \cup Bytes(Unwritten(b))
KeptOnce(file, b) ==
  /\ Once(file.disk) /\ Once(Unwritten(b))
  /\ Bytes(file.disk) \cap Bytes(Unwritten(b)) = {}

Places ==
  /\ \A f \in Files : KeptOnce(os[f], Buffer(f)) /\ Kept(os[f], Buffer(f)) \subseteq 1 .. written
  /\ \A f, g \in Files : f # g => Kept(os[f], Buffer(f)) \cap Kept(os[g], Buffer(g)) = {}

(* What is left in a buffer for reading is what is before the position.    *)
ReadAhead(file, b) ==
  ~b.writing /\ BytesLeft(b) > 0 =>
    /\ b.len <= file.pos /\ file.pos <= Len(file.disk)
    /\ \A k \in 1 .. b.len : b.data[k] = file.disk[file.pos - b.len + k]

CarefulInv == Inv /\ Places /\ \A f \in Files : ReadAhead(os[f], Buffer(f))

LEMMA BufferUsed ==
  ASSUME NEW b \in BufferSet
  PROVE  /\ [b EXCEPT !.used = TRUE] \in BufferSet /\ [b EXCEPT !.used = TRUE].used
         /\ [b EXCEPT !.used = TRUE].writing = b.writing /\ [b EXCEPT !.used = TRUE].data = b.data
         /\ [b EXCEPT !.used = TRUE].len = b.len /\ [b EXCEPT !.used = TRUE].offset = b.offset
  BY DEF BufferSet

LEMMA NewBufferType == NewBuffer \in BufferSet /\ [NewBuffer EXCEPT !.used = TRUE] \in BufferSet
<1>1. <<>> \in Seq(Int) /\ Len(<<>>) = 0
  BY EmptySeq
<1>2. 0 \in 0 .. BufferSize
  BY FileAssumption
<1>3. NewBuffer = [data |-> <<>>, len |-> 0, offset |-> 0, used |-> FALSE, writing |-> FALSE]
  BY DEF NewBuffer
<1>4. NewBuffer \in BufferSet
  BY <1>1, <1>2, <1>3 DEF BufferSet
<1> QED
  BY <1>4, BufferUsed

LEMMA BufferFields ==
  ASSUME NEW b \in BufferSet
  PROVE  /\ b.data \in Seq(Int) /\ b.used \in BOOLEAN /\ b.writing \in BOOLEAN
         /\ b.len \in Nat /\ b.offset \in Nat /\ b.offset <= b.len /\ b.len <= BufferSize
         /\ BytesLeft(b) \in Nat /\ BytesLeft(b) = b.len - b.offset
         /\ Len(b.data) = IF b.writing THEN b.offset ELSE b.len
<1>1. /\ b.data \in Seq(Int) /\ b.used \in BOOLEAN /\ b.writing \in BOOLEAN
      /\ b.len \in 0 .. BufferSize /\ b.offset \in 0 .. BufferSize /\ b.offset <= b.len
      /\ Len(b.data) = IF b.writing THEN b.offset ELSE b.len
  BY DEF BufferSet
<1> QED
  BY <1>1, FileAssumption DEF BytesLeft

LEMMA TypesAre ==
  ASSUME Inv, NEW f \in Files
  PROVE  /\ os[f] \in FileSet /\ Buffer(f) \in BufferSet /\ mine[f] \in 0 .. BufferCount
         /\ HasBuffer(f) => Buffer(f) = buffers[mine[f]] /\ IsOpen(f) /\ Buffer(f).used
         /\ ~HasBuffer(f) => Buffer(f) = NewBuffer
         /\ written \in Nat /\ failures \in Nat
<1>1. /\ os[f] \in FileSet /\ mine[f] \in 0 .. BufferCount
      /\ \A c \in 1 .. BufferCount : buffers[c] \in BufferSet
      /\ written \in Nat /\ failures \in Nat
  BY FileAssumption DEF Inv, Types
<1>2. HasBuffer(f) => mine[f] \in 1 .. BufferCount
  BY <1>1, FileAssumption DEF HasBuffer
<1>3. Buffer(f) \in BufferSet
  BY <1>1, <1>2, NewBufferType DEF Buffer
<1>4. HasBuffer(f) => IsOpen(f) /\ Buffer(f).used
  BY DEF Inv, BuffersOwned
<1> QED
  BY <1>1, <1>3, <1>4 DEF Buffer

(* A call on f changes no other file. *)
Only(f) == \A g \in Files : g # f => os'[g] = os[g] /\ Buffer(g)' = Buffer(g)

(* A call on f makes x of the file and b of its buffer, if there is one.   *)
Becomes(f, x, b) ==
  /\ x \in FileSet /\ b \in BufferSet
  /\ HasBuffer(f) => b.used /\ x.mode # "closed"
  /\ os' = [os EXCEPT ![f] = x] /\ SetBuffer(f, b) /\ mine' = mine
  /\ written' \in 0 .. MaxBytes /\ failures' \in 0 .. MaxFailures

Its(f, b) == IF HasBuffer(f) THEN b ELSE NewBuffer

LEMMA Becoming ==
  ASSUME Inv, NEW f \in Files, NEW x, NEW b, Becomes(f, x, b)
  PROVE  Inv' /\ os'[f] = x /\ Buffer(f)' = Its(f, b) /\ Only(f)
<1>1. /\ x \in FileSet /\ b \in BufferSet /\ mine' = mine
      /\ os' = [os EXCEPT ![f] = x]
      /\ buffers' = [c \in 1 .. BufferCount |-> IF c = mine[f] THEN b ELSE buffers[c]]
  BY DEF Becomes, SetBuffer
<1>2. /\ os \in [Files -> FileSet] /\ mine \in [Files -> 0 .. BufferCount]
      /\ buffers \in [1 .. BufferCount -> BufferSet]
  BY DEF Inv, Types
<1>3. /\ os' \in [Files -> FileSet] /\ os'[f] = x
      /\ \A g \in Files : g # f => os'[g] = os[g]
  BY <1>1, <1>2
<1>4. \A c \in 1 .. BufferCount : buffers'[c] = IF c = mine[f] THEN b ELSE buffers[c]
  BY <1>1
<1>5. buffers' \in [1 .. BufferCount -> BufferSet]
  BY <1>1, <1>2
<1>6. Types'
  BY <1>1, <1>2, <1>3, <1>5 DEF Types, Becomes
<1>7. \A g \in Files : /\ HasBuffer(g) => mine[g] \in 1 .. BufferCount
                       /\ HasBuffer(g)' <=> HasBuffer(g)
  BY <1>1, <1>2, FileAssumption DEF HasBuffer
<1>8. Buffer(f)' = Its(f, b)
  BY <1>1, <1>4, <1>7 DEF Buffer, Its, HasBuffer
<1>9. ASSUME NEW g \in Files, g # f
      PROVE  Buffer(g)' = Buffer(g)
  <2>1. HasBuffer(g) => mine[g] # mine[f]
    BY <1>9 DEF Inv, BuffersOwned
  <2> QED
    BY <1>1, <1>4, <1>7, <2>1 DEF Buffer, HasBuffer
<1>10. BuffersOwned'
  <2>1. ASSUME NEW g \in Files, HasBuffer(g)
        PROVE  IsOpen(g)' /\ Buffer(g)'.used
    <3>1. CASE g = f
      BY <1>3, <1>8, <2>1, <3>1 DEF Becomes, Its, IsOpen
    <3>2. CASE g # f
      BY <1>3, <1>9, <2>1, <3>2, TypesAre DEF IsOpen
    <3> QED
      BY <3>1, <3>2
  <2>2. ASSUME NEW c \in 1 .. BufferCount, buffers'[c].used
        PROVE  \E g \in Files : mine[g] = c
    BY <1>4, <2>2 DEF Inv, BuffersOwned
  <2>3. \A g, h \in Files : HasBuffer(g) /\ mine[g] = mine[h] => g = h
    BY DEF Inv, BuffersOwned
  <2>4. \A g \in Files : HasBuffer(g)' => IsOpen(g)' /\ Buffer(g)'.used
    BY <1>7, <2>1
  <2>5. \A g, h \in Files : HasBuffer(g)' /\ mine'[g] = mine'[h] => g = h
    BY <1>1, <1>7, <2>3
  <2>6. \A c \in 1 .. BufferCount : buffers'[c].used => \E g \in Files : mine'[g] = c
    BY <1>1, <2>2
  <2> QED
    BY <2>4, <2>5, <2>6 DEF BuffersOwned
<1> QED
  BY <1>3, <1>6, <1>8, <1>9, <1>10 DEF Inv, Only

(* What a call may do to the file that it is for. *)
KeepsBytes(f, x, b) ==
  /\ KeptOnce(x, b) /\ written' >= written
  /\ Kept(x, b) \subseteq Kept(os[f], Buffer(f)) \cup written + 1 .. written'

LEMMA OnlyKeeps ==
  ASSUME CarefulInv, Inv', NEW f \in Files, Only(f),
         NEW x, NEW b, os'[f] = x, Buffer(f)' = b,
         KeepsBytes(f, x, b), ReadAhead(x, b)
  PROVE  CarefulInv'
<1>1. /\ Inv' /\ os'[f] = x /\ Buffer(f)' = b
      /\ \A g \in Files : g # f => os'[g] = os[g] /\ Buffer(g)' = Buffer(g)
  BY DEF Only
<1>2. written \in Nat /\ written' \in Nat /\ written' >= written
  BY <1>1, FileAssumption DEF CarefulInv, Inv, Types, KeepsBytes
<1>3. /\ KeptOnce(os'[f], Buffer(f)')
      /\ Kept(os'[f], Buffer(f)') \subseteq Kept(os[f], Buffer(f)) \cup written + 1 .. written'
  BY <1>1 DEF KeepsBytes
<1>4. /\ \A g \in Files : KeptOnce(os[g], Buffer(g)) /\ Kept(os[g], Buffer(g)) \subseteq 1 .. written
      /\ \A g, h \in Files : g # h => Kept(os[g], Buffer(g)) \cap Kept(os[h], Buffer(h)) = {}
  BY DEF CarefulInv, Places
<1>5. \A g \in Files : g # f => Kept(os'[g], Buffer(g)') = Kept(os[g], Buffer(g))
  BY <1>1
<1>6. \A g \in Files : KeptOnce(os'[g], Buffer(g)') /\ Kept(os'[g], Buffer(g)') \subseteq 1 .. written'
  <2> TAKE g \in Files
  <2>1. CASE g = f
    BY <1>2, <1>3, <1>4, <2>1
  <2>2. CASE g # f
    BY <1>1, <1>2, <1>4, <2>2
  <2> QED
    BY <2>1, <2>2
<1>7. \A g \in Files : g # f => Kept(os'[f], Buffer(f)') \cap Kept(os'[g], Buffer(g)') = {}
  <2> TAKE g \in Files
  <2>1. ASSUME g # f, NEW n \in Kept(os'[f], Buffer(f)'), n \in Kept(os[g], Buffer(g))
        PROVE  FALSE
    <3>1. n \in 1 .. written /\ n \notin Kept(os[f], Buffer(f))
      BY <1>4, <2>1
    <3> QED
      BY <1>2, <1>3, <2>1, <3>1
  <2> QED
    BY <1>5, <2>1
<1>8. \A g, h \in Files : g # h => Kept(os'[g], Buffer(g)') \cap Kept(os'[h], Buffer(h)') = {}
  BY <1>4, <1>5, <1>7
<1>9. \A g \in Files : ReadAhead(os'[g], Buffer(g)')
  BY <1>1 DEF CarefulInv
<1> QED
  BY <1>1, <1>6, <1>8, <1>9 DEF CarefulInv, Places

-----------------------------------------------------------------------------
(* The streams that the buffers implement. *)

After(file, b) == IF b.writing /\ b.offset > 0 THEN SysWrite(file, b.data) ELSE file
Where(file, b) == IF b.writing THEN After(file, b).pos ELSE file.pos - BytesLeft(b)

Content == [g \in Files |-> FlushedFile(g).disk]
Mode == [g \in Files |-> os[g].mode]
At == [g \in Files |-> IF Buffer(g).writing THEN FlushedFile(g).pos
                       ELSE os[g].pos - BytesLeft(Buffer(g))]

LEMMA StreamsAre ==
  ASSUME NEW f \in Files
  PROVE  /\ FlushedFile(f) = After(os[f], Buffer(f))
         /\ Content[f] = After(os[f], Buffer(f)).disk
         /\ At[f] = Where(os[f], Buffer(f)) /\ Mode[f] = os[f].mode
<1>1. FlushedFile(f) = After(os[f], Buffer(f))
  BY DEF FlushedFile, Pending, After
<1> QED
  BY <1>1 DEF Content, At, Mode, Where

LEMMA StreamsBecome ==
  ASSUME NEW f \in Files, Only(f), NEW x, NEW b, os'[f] = x, Buffer(f)' = b
  PROVE  /\ Content' = [Content EXCEPT ![f] = After(x, b).disk]
         /\ Mode' = [Mode EXCEPT ![f] = x.mode]
         /\ At' = [At EXCEPT ![f] = Where(x, b)]
<1>1. /\ os'[f] = x /\ Buffer(f)' = b
      /\ \A g \in Files : g # f => os'[g] = os[g] /\ Buffer(g)' = Buffer(g)
  BY DEF Only
<1>2. \A g \in Files : FlushedFile(g)' = After(os'[g], Buffer(g)')
  BY DEF FlushedFile, Pending, After
<1>3. \A g \in Files : FlushedFile(g) = After(os[g], Buffer(g))
  BY StreamsAre
<1>4. FlushedFile(f)' = After(x, b) /\ \A g \in Files : g # f => FlushedFile(g)' = FlushedFile(g)
  BY <1>1, <1>2, <1>3
<1>5. Content' = [Content EXCEPT ![f] = After(x, b).disk]
  BY <1>4 DEF Content
<1>6. Mode' = [Mode EXCEPT ![f] = x.mode]
  BY <1>1 DEF Mode
<1>7. At' = [g \in Files |-> IF g = f THEN Where(x, b) ELSE At[g]]
  <2>1. \A g \in Files : (IF Buffer(g)'.writing THEN FlushedFile(g)'.pos ELSE os'[g].pos - BytesLeft(Buffer(g)'))
                         = IF g = f THEN Where(x, b) ELSE At[g]
    BY <1>1, <1>4 DEF Where, At
  <2>2. At' = [g \in Files |-> IF Buffer(g)'.writing THEN FlushedFile(g)'.pos
                               ELSE os'[g].pos - BytesLeft(Buffer(g)')]
    BY DEF At, BytesLeft
  <2> QED
    BY <2>1, <2>2
<1>8. At' = [At EXCEPT ![f] = Where(x, b)]
  BY <1>7 DEF At
<1> QED
  BY <1>5, <1>6, <1>8

LEMMA AfterIsFile ==
  ASSUME NEW file \in FileSet, NEW b \in BufferSet
  PROVE  After(file, b) \in FileSet /\ After(file, b).mode = file.mode
  BY SysWriteIs, BufferFields DEF After

(* What a buffer holds for writing and what is written behind it reach the *)
(* disk together.                                                          *)
LEMMA AfterAppending ==
  ASSUME NEW file \in FileSet, NEW b \in BufferSet, b.writing, NEW s \in Seq(Int)
  PROVE  SysWrite(After(file, b), s) = SysWrite(file, b.data \o s)
<1>1. b.data \in Seq(Int) /\ b.offset \in Nat /\ Len(b.data) = b.offset
  BY BufferFields
<1>2. CASE b.offset > 0
  BY <1>1, <1>2, SysWriteTwice DEF After
<1>3. CASE b.offset = 0
  <2>1. b.data = <<>>
    BY <1>1, <1>3, EmptySeq
  <2>2. b.data \o s = s
    BY <2>1, ConcatEmptySeq
  <2> QED
    BY <1>3, <2>2 DEF After
<1> QED
  BY <1>1, <1>2, <1>3

(* The bytes k that are written at the position of the stream, or at its   *)
(* end, for a call with n bytes.                                           *)
LEMMA StreamsWrite ==
  ASSUME Inv, NEW f \in Files, Only(f), NEW x, NEW b, os'[f] = x, Buffer(f)' = b,
         NEW op, NEW n \in Nat, NEW k \in Nat,
         After(x, b) = SysWrite(After(os[f], Buffer(f)), NewBytes(k)),
         Where(x, b) = After(x, b).pos,
         Where(os[f], Buffer(f)) = After(os[f], Buffer(f)).pos,
         x.mode = os[f].mode, os[f].mode \in {"write", "append"},
         written' = written + n, last' = Call(op, f, n, <<>>)
  PROVE  Streams!WritePart(f, op, n, k)
<1> DEFINE file == After(os[f], Buffer(f))
<1>1. file \in FileSet /\ file.mode = os[f].mode
  BY TypesAre, AfterIsFile
<1>2. Content[f] = file.disk /\ At[f] = file.pos /\ Mode[f] = file.mode
  BY <1>1, StreamsAre
<1>3. NewBytes(k) \in Seq(Int) /\ Len(NewBytes(k)) = k
  BY TypesAre, NewBytesAll
<1> HIDE DEF file
<1> DEFINE place == Place(file)
<1>4. /\ After(x, b).pos = place + k
      /\ After(x, b).disk = [i \in 1 .. MaxOf(place + k, Len(file.disk)) |->
                               IF i \in place + 1 .. place + k THEN NewBytes(k)[i - place]
                               ELSE IF i <= Len(file.disk) THEN file.disk[i] ELSE 0]
  <2> DEFINE s == NewBytes(k)
  <2> HIDE DEF s
  <2>1. LET p == Place(file)
             after == SysWrite(file, s)
         IN  /\ after \in FileSet /\ after.mode = file.mode /\ after.pos = p + Len(s)
             /\ Len(after.disk) = MaxOf(p + Len(s), Len(file.disk))
             /\ after.disk = [i \in 1 .. MaxOf(p + Len(s), Len(file.disk)) |->
                                IF i \in p + 1 .. p + Len(s) THEN s[i - p]
                                ELSE IF i <= Len(file.disk) THEN file.disk[i] ELSE 0]
    BY <1>1, <1>3, SysWriteIs DEF s
  <2>2. After(x, b) = SysWrite(file, s) /\ Len(s) = k
    BY <1>3 DEF file, s
  <2> QED
    BY <2>1, <2>2 DEF s
<1>5. Streams!NewBytes(k) = NewBytes(k)
  BY DEF Streams!NewBytes, NewBytes
<1>6. place \in Nat /\ Len(file.disk) \in Nat
  BY <1>1, LenProperties DEF Place, FileSet
<1>7. MaxOf(place + k, Len(file.disk)) = IF place + k > Len(file.disk) THEN place + k ELSE Len(file.disk)
  BY <1>6 DEF MaxOf
<1>8. Streams!Overlay(Content[f], place, Streams!NewBytes(k)) = After(x, b).disk
  BY <1>2, <1>3, <1>4, <1>5, <1>7 DEF Streams!Overlay
<1>9. place = IF Mode[f] = "append" THEN Len(Content[f]) ELSE At[f]
  BY <1>2 DEF Place
<1>10. /\ Content' = [Content EXCEPT ![f] = Streams!Overlay(Content[f], place, Streams!NewBytes(k))]
       /\ At' = [At EXCEPT ![f] = place + k]
  BY <1>4, <1>8, StreamsBecome
<1>11. Mode' = Mode
  <2>1. Mode' = [Mode EXCEPT ![f] = Mode[f]]
    BY <1>1, <1>2, StreamsBecome
  <2> QED
    BY <2>1 DEF Mode
<1>12. Mode[f] \in {"write", "append"}
  BY <1>1, <1>2
<1>13. last' = Streams!Call(op, f, n, <<>>)
  BY DEF Call, Streams!Call
<1> HIDE DEF place
<1> QED
  BY <1>9, <1>10, <1>11, <1>12, <1>13 DEF Streams!WritePart, Content, At, Mode

LEMMA PartIs ==
  ASSUME NEW s \in Seq(Int), NEW p \in Nat, NEW n \in Nat
  PROVE  LET part == Streams!Part(s, p, n)
         IN  /\ part \in Seq(Int)
             /\ Len(part) = IF p < Len(s) THEN MinOf(p + n, Len(s)) - p ELSE 0
             /\ \A k \in 1 .. Len(part) : p + k \in 1 .. Len(s) /\ part[k] = s[p + k]
<1> DEFINE file == [disk |-> s, mode |-> "closed", pos |-> p]
<1>1. file \in FileSet /\ file.disk = s /\ file.pos = p
  BY DEF FileSet
<1>2. SysRead(file, n) = Streams!Part(s, p, n)
  BY <1>1 DEF SysRead, Streams!Part, MinOf
<1> DEFINE got == SysRead(file, n)
<1> HIDE DEF file
<1>3. /\ got \in Seq(Int)
      /\ Len(got) = IF file.pos < Len(file.disk) THEN MinOf(file.pos + n, Len(file.disk)) - file.pos ELSE 0
      /\ \A k \in 1 .. Len(got) : file.pos + k \in 1 .. Len(file.disk) /\ got[k] = file.disk[file.pos + k]
  BY <1>1, SysReadIs
<1> HIDE DEF got
<1>4. /\ got \in Seq(Int)
      /\ Len(got) = IF p < Len(s) THEN MinOf(p + n, Len(s)) - p ELSE 0
      /\ \A k \in 1 .. Len(got) : p + k \in 1 .. Len(s) /\ got[k] = s[p + k]
  BY <1>1, <1>3
<1> QED
  BY <1>2, <1>4 DEF got

(* What delivers the part of the stream at the position is a read of it.   *)
LEMMA StreamsRead ==
  ASSUME Inv, NEW f \in Files, Only(f), NEW x, NEW b, os'[f] = x, Buffer(f)' = b,
         ~b.writing, ~Buffer(f).writing, x.disk = os[f].disk, x.mode = os[f].mode, IsOpen(f),
         NEW n, NEW bytes,
         bytes = Streams!Part(os[f].disk, os[f].pos - BytesLeft(Buffer(f)), n),
         x.pos - BytesLeft(b) = (os[f].pos - BytesLeft(Buffer(f))) + Len(bytes),
         written' = written, last' = Call("read", f, n, bytes)
  PROVE  Streams!Read(f, n)
<1>1. /\ Content[f] = os[f].disk /\ At[f] = os[f].pos - BytesLeft(Buffer(f)) /\ Mode[f] = os[f].mode
  BY StreamsAre DEF After, Where
<1>2. After(x, b).disk = os[f].disk /\ Where(x, b) = x.pos - BytesLeft(b)
  BY DEF After, Where
<1>3. /\ Content' = [Content EXCEPT ![f] = Content[f]] /\ Mode' = [Mode EXCEPT ![f] = Mode[f]]
      /\ At' = [At EXCEPT ![f] = At[f] + Len(bytes)]
  BY <1>1, <1>2, StreamsBecome
<1>4. Content' = Content /\ Mode' = Mode
  BY <1>3 DEF Content, Mode
<1>5. bytes = Streams!Part(Content[f], At[f], n) /\ Mode[f] # "closed"
  BY <1>1 DEF IsOpen
<1>6. last' = Streams!Call("read", f, n, bytes)
  BY DEF Call, Streams!Call
<1> QED
  BY <1>3, <1>4, <1>5, <1>6 DEF Streams!Read, Content, Mode, At

LEMMA NoNewBytes ==
  ASSUME CarefulInv, NEW f \in Files, NEW x, NEW b,
         x.disk = os[f].disk, Unwritten(b) = Unwritten(Buffer(f)), written' = written
  PROVE  KeepsBytes(f, x, b)
<1>1. written \in Nat
  BY TypesAre DEF CarefulInv
<1> QED
  BY <1>1 DEF KeepsBytes, CarefulInv, Places, KeptOnce, Kept

-----------------------------------------------------------------------------
(* The calls, one by one. *)

LEMMA ReadBufferedKeeps ==
  ASSUME Inv, NEW f \in Files, NEW n \in ReadSizes, ReadBuffered(f, n)
  PROVE  Inv' /\ (CarefulInv => CarefulInv' /\ Streams!Read(f, n))
<1> DEFINE b == Buffer(f)
<1> DEFINE c == [b EXCEPT !.offset = @ + n]
<1> DEFINE bytes == SubSeq(b.data, b.offset + 1, b.offset + n)
<1>1. /\ HasBuffer(f) /\ ~b.writing /\ BytesLeft(b) >= n
      /\ SetBuffer(f, c) /\ last' = Call("read", f, n, bytes)
      /\ os' = os /\ mine' = mine /\ written' = written /\ failures' = failures
  BY DEF ReadBuffered
<1>2. b \in BufferSet /\ os[f] \in FileSet /\ b.used /\ IsOpen(f)
  BY <1>1, TypesAre
<1>3. n \in Nat \ {0}
  BY FileAssumption
<1>4. Its(f, c) = c
  BY <1>1 DEF Its
<1> HIDE DEF b
<1>5. /\ b.len \in Nat /\ b.offset \in Nat /\ b.offset <= b.len /\ b.len <= BufferSize
      /\ BytesLeft(b) = b.len - b.offset /\ b.data \in Seq(Int) /\ Len(b.data) = b.len
  BY <1>1, <1>2, BufferFields
<1>6. /\ c \in BufferSet /\ c.used /\ ~c.writing /\ c.data = b.data /\ c.len = b.len
      /\ c.offset = b.offset + n /\ BytesLeft(c) = BytesLeft(b) - n
  <2>1. b.offset + n \in 0 .. BufferSize /\ b.offset + n <= b.len
    <3>1. BufferSize \in Nat
      BY FileAssumption
    <3>2. PICK len : len = b.len
      OBVIOUS
    <3>3. PICK offset : offset = b.offset
      OBVIOUS
    <3>4. len \in Nat /\ offset \in Nat /\ len <= BufferSize /\ n <= len - offset
      BY <1>1, <1>5, <3>2, <3>3
    <3>5. offset + n \in 0 .. BufferSize /\ offset + n <= len
      BY <1>3, <3>1, <3>4
    <3> QED
      BY <3>2, <3>3, <3>5
  <2>2. /\ c \in BufferSet /\ c.used /\ ~c.writing /\ c.data = b.data /\ c.len = b.len
        /\ c.offset = b.offset + n
    BY <1>1, <1>2, <1>5, <2>1 DEF BufferSet
  <2> QED
    BY <1>3, <1>5, <2>2 DEF BytesLeft
<1> HIDE DEF c
<1>7. Becomes(f, os[f], c)
  <2>1. os' = [os EXCEPT ![f] = os[f]]
    BY <1>1 DEF Inv, Types
  <2>2. written' \in 0 .. MaxBytes /\ failures' \in 0 .. MaxFailures
    BY <1>1 DEF Inv, Types
  <2> QED
    BY <1>1, <1>2, <1>6, <2>1, <2>2 DEF Becomes, IsOpen
<1>8. Inv' /\ os'[f] = os[f] /\ Buffer(f)' = c /\ Only(f)
  BY <1>4, <1>7, Becoming
<1>9. ASSUME CarefulInv
      PROVE  CarefulInv' /\ Streams!Read(f, n)
  <2> DEFINE file == os[f]
  <2>1. /\ b.len <= file.pos /\ file.pos <= Len(file.disk)
        /\ \A k \in 1 .. b.len : b.data[k] = file.disk[file.pos - b.len + k]
    BY <1>1, <1>3, <1>5, <1>9 DEF CarefulInv, ReadAhead, b
  <2>2. ReadAhead(file, c)
    BY <1>6, <2>1 DEF ReadAhead
  <2>3. KeepsBytes(f, file, c)
    BY <1>1, <1>6, <1>9, NoNewBytes DEF Unwritten, b
  <2>4. CarefulInv'
    BY <1>8, <1>9, <2>2, <2>3, OnlyKeeps
  <2> DEFINE at == file.pos - BytesLeft(b)
  <2>5. file.disk \in Seq(Int) /\ Len(file.disk) \in Nat /\ file.pos \in Nat
    BY <1>2, LenProperties DEF FileSet
  <2> DEFINE pos == file.pos
  <2> DEFINE len == b.len
  <2> DEFINE off == b.offset
  <2> DEFINE left == BytesLeft(b)
  <2>fields. /\ pos \in Nat /\ len \in Nat /\ off \in Nat /\ left = len - off /\ len <= pos /\ off <= len
             /\ left >= n /\ pos <= Len(file.disk)
    BY <1>1, <1>5, <2>1, <2>5
  <2> HIDE DEF file, pos, len, off, left
  <2>6. at \in Nat /\ at + n <= pos /\ at = (pos - len) + off
    <3>1. at = pos - left
      BY DEF pos, left
    <3> HIDE DEF at
    <3> QED
      BY <1>3, <2>fields, <3>1
  <2>7. /\ bytes \in Seq(Int) /\ Len(bytes) = n
        /\ \A k \in 1 .. n : bytes[k] = b.data[b.offset + k]
    <3> DEFINE from == b.offset + 1
    <3> DEFINE to == b.offset + n
    <3>1. from \in Int /\ to \in Int /\ to - from + 1 = n /\ from <= to
      BY <1>3, <1>5
    <3>2. \A k \in from .. to : b.data[k] \in Int
      <4>1. ASSUME NEW k \in from .. to
            PROVE  k \in 1 .. b.len
        <5>1. n <= b.len - b.offset
          BY <1>1, <1>3, <1>5
        <5> QED
          BY <1>3, <1>5, <5>1
      <4> QED
        BY <1>5, <4>1, ElementOfSeq
    <3> HIDE DEF from, to
    <3>3. /\ SubSeq(b.data, from, to) \in Seq(Int) /\ Len(SubSeq(b.data, from, to)) = n
          /\ \A k \in 1 .. n : SubSeq(b.data, from, to)[k] = b.data[from + k - 1]
      BY <3>1, <3>2, SubSeqProperties
    <3>4. \A k \in 1 .. n : from + k - 1 = b.offset + k
      BY <1>5 DEF from
    <3> QED
      BY <3>3, <3>4 DEF from, to
  <2> DEFINE part == Streams!Part(file.disk, at, n)
  <2> HIDE DEF at, bytes
  <2>8. part \in Seq(Int) /\ Len(part) = n /\ \A k \in 1 .. n : part[k] = file.disk[at + k]
    <3>1. /\ part \in Seq(Int)
          /\ Len(part) = IF at < Len(file.disk) THEN MinOf(at + n, Len(file.disk)) - at ELSE 0
          /\ \A k \in 1 .. Len(part) : part[k] = file.disk[at + k]
      <4> HIDE DEF part
      <4>1. /\ Streams!Part(file.disk, at, n) \in Seq(Int)
            /\ Len(Streams!Part(file.disk, at, n))
               = IF at < Len(file.disk) THEN MinOf(at + n, Len(file.disk)) - at ELSE 0
            /\ \A k \in 1 .. Len(Streams!Part(file.disk, at, n)) :
                 /\ at + k \in 1 .. Len(file.disk)
                 /\ Streams!Part(file.disk, at, n)[k] = file.disk[at + k]
        BY <1>3, <2>5, <2>6, PartIs
      <4> QED
        BY <4>1 DEF part
    <3>2. at < Len(file.disk) /\ MinOf(at + n, Len(file.disk)) = at + n
      <4> DEFINE size == Len(file.disk)
      <4>1. size \in Nat /\ pos <= size
        BY <2>5, <2>fields
      <4> HIDE DEF size
      <4>2. at < size /\ MinOf(at + n, size) = at + n
        BY <1>3, <2>6, <2>fields, <4>1 DEF MinOf
      <4> QED
        BY <4>2 DEF size
    <3>3. Len(part) = n
      BY <1>3, <2>6, <3>1, <3>2
    <3> QED
      BY <3>1, <3>3
  <2>9. \A k \in 1 .. n : bytes[k] = part[k]
    <3> TAKE k \in 1 .. n
    <3>1. off + k \in 1 .. len /\ (pos - len) + (off + k) = at + k
      BY <1>3, <2>fields, <2>6
    <3>2. b.data[off + k] = file.disk[(pos - len) + (off + k)]
      BY <2>1, <3>1 DEF file, pos, len
    <3>3. b.data[b.offset + k] = file.disk[at + k]
      BY <3>1, <3>2 DEF off
    <3> QED
      BY <2>7, <2>8, <3>3
  <2>10. bytes = part
    BY <2>7, <2>8, <2>9, SequencesEqual
  <2>11. file.pos - BytesLeft(c) = at + Len(bytes)
    <3>1. at = pos - left /\ BytesLeft(c) = left - n
      BY <1>6 DEF at, pos, left
    <3> QED
      BY <1>3, <2>fields, <2>7, <3>1 DEF pos
  <2>12. /\ last' = Call("read", f, n, bytes) /\ bytes = Streams!Part(os[f].disk, os[f].pos - BytesLeft(Buffer(f)), n)
         /\ os[f].pos - BytesLeft(c) = (os[f].pos - BytesLeft(Buffer(f))) + Len(bytes)
    BY <1>1, <2>10, <2>11 DEF bytes, at, file, b
  <2>13. Streams!Read(f, n)
    BY <1>1, <1>2, <1>6, <1>8, <2>12, StreamsRead DEF b
  <2> QED
    BY <2>4, <2>13
<1> QED
  BY <1>8, <1>9

(* What is left in the buffer and what the system delivers after it make   *)
(* up the part of the stream that is read.                                 *)
LEMMA ReadMoreKeeps ==
  ASSUME Inv, NEW f \in Files, NEW n \in ReadSizes, ReadMore(f, n)
  PROVE  Inv' /\ (Careful /\ CarefulInv => CarefulInv' /\ Streams!Read(f, n))
<1> DEFINE file == os[f]
<1> DEFINE b == Buffer(f)
<1> DEFINE rest == IF b.writing THEN <<>> ELSE SubSeq(b.data, b.offset + 1, b.len)
<1> DEFINE size == n - Len(rest)
<1> DEFINE direct == size >= BufferSize
<1> DEFINE asked == IF direct THEN size ELSE BufferSize
<1> DEFINE got == SysRead(file, asked)
<1> DEFINE used == IF b.writing THEN b ELSE [b EXCEPT !.offset = b.len]
<1> DEFINE m == MinOf(Len(got), size)
<1> DEFINE refilled == [b EXCEPT !.data = got, !.len = Len(got), !.writing = FALSE, !.offset = m]
<1> DEFINE x == [file EXCEPT !.pos = @ + Len(got)]
<1> DEFINE c == IF direct \/ got = <<>> THEN used ELSE refilled
<1> DEFINE bytes == rest \o SubSeq(got, 1, m)
<1>1. /\ HasBuffer(f) /\ (Careful => ~b.writing) /\ (b.writing \/ BytesLeft(b) < n)
      /\ os' = [os EXCEPT ![f] = x] /\ SetBuffer(f, c) /\ last' = Call("read", f, n, bytes)
      /\ mine' = mine /\ written' = written /\ failures' = failures
  <2>1. os' = [os EXCEPT ![f].pos = @ + Len(got)]
    BY DEF ReadMore
  <2>2. os' = [os EXCEPT ![f] = x]
    BY <2>1 DEF Inv, Types
  <2> QED
    BY <2>2 DEF ReadMore, CarefulRead
<1>2. b \in BufferSet /\ file \in FileSet /\ b.used /\ IsOpen(f)
  BY <1>1, TypesAre
<1>3. n \in Nat \ {0}
  BY FileAssumption
<1>4. Its(f, c) = c
  BY <1>1 DEF Its
<1> DEFINE left == BytesLeft(b)
<1> DEFINE len == b.len
<1> DEFINE off == b.offset
<1> DEFINE pos == file.pos
<1> DEFINE most == Len(file.disk)
<1> HIDE DEF c, used, refilled, x, bytes
<1>5. /\ len \in Nat /\ off \in Nat /\ off <= len /\ len <= BufferSize /\ left = len - off
      /\ left \in Nat /\ b.data \in Seq(Int) /\ (~b.writing => Len(b.data) = len)
      /\ b.writing \in BOOLEAN
      /\ pos \in Nat /\ most \in Nat /\ file.disk \in Seq(Int) /\ BufferSize \in Nat \ {0}
  BY <1>2, BufferFields, LenProperties, FileAssumption DEF FileSet
<1>6. /\ rest \in Seq(Int) /\ Len(rest) = IF b.writing THEN 0 ELSE left
      /\ ~b.writing => \A k \in 1 .. left : rest[k] = b.data[off + k]
  <2>1. CASE b.writing
    BY <2>1, EmptySeq
  <2>2. CASE ~b.writing
    <3> DEFINE from == off + 1
    <3>1. from \in Int /\ len - from + 1 = left /\ (from <= len <=> left > 0)
      BY <1>5
    <3>2. \A k \in from .. len : b.data[k] \in Int
      BY <1>5, <2>2, ElementOfSeq
    <3> DEFINE s == SubSeq(b.data, from, len)
    <3>3. rest = s
      BY <2>2
    <3> HIDE DEF from, len, rest
    <3>4. s \in Seq(Int) /\ Len(s) = (IF from <= len THEN len - from + 1 ELSE 0)
          /\ \A k \in 1 .. len - from + 1 : s[k] = b.data[from + k - 1]
      BY <1>5, <3>1, <3>2, SubSeqProperties
    <3> HIDE DEF s, left
    <3>5. Len(s) = left /\ \A k \in 1 .. left : s[k] = b.data[off + k]
      <4>1. Len(s) = left
        BY <1>5, <3>1, <3>4
      <4>2. \A k \in 1 .. left : k \in 1 .. len - from + 1 /\ from + k - 1 = off + k
        BY <1>5, <3>1 DEF from
      <4> QED
        BY <3>4, <4>1, <4>2
    <3> QED
      BY <2>2, <3>3, <3>4, <3>5
  <2> QED
    BY <1>5, <2>1, <2>2
<1> HIDE DEF rest, left, len, off, pos, most
<1>7. size \in Nat /\ size > 0 /\ (~b.writing => size + left = n)
  <2>1. CASE b.writing
    BY <1>3, <1>6, <2>1
  <2>2. CASE ~b.writing
    BY <1>1, <1>3, <1>5, <1>6, <2>2 DEF left
  <2> QED
    BY <1>5, <2>1, <2>2
<1> HIDE DEF size
<1>8. asked \in Nat /\ asked >= size /\ (direct => asked = size) /\ (~direct => asked = BufferSize)
  BY <1>5, <1>7
<1> HIDE DEF asked, direct
<1> DEFINE g == Len(got)
<1>9. /\ got \in Seq(Int) /\ g \in Nat
      /\ g = IF pos < most THEN MinOf(pos + asked, most) - pos ELSE 0
      /\ \A k \in 1 .. g : got[k] = file.disk[pos + k]
  BY <1>2, <1>8, SysReadIs, LenProperties DEF pos, most
<1> HIDE DEF got, g
<1>10. m = MinOf(g, size)
  BY DEF g
<1> HIDE DEF m
<1>11. m \in 0 .. g /\ m <= size /\ g <= asked /\ (g > 0 => pos + g <= most)
  BY <1>5, <1>7, <1>8, <1>9, <1>10 DEF MinOf
<1>12. used \in BufferSet /\ used.used /\ (~b.writing => ~used.writing /\ BytesLeft(used) = 0)
  <2>1. CASE b.writing
    BY <1>2, <2>1 DEF used
  <2>2. CASE ~b.writing
    <3>1. used = [b EXCEPT !.offset = b.len]
      BY <2>2 DEF used
    <3>2. b.len \in 0 .. BufferSize /\ b.len <= b.len
      BY <1>2, <1>5 DEF BufferSet, len
    <3>3. used \in BufferSet /\ used.used /\ ~used.writing /\ used.offset = b.len /\ used.len = b.len
      BY <1>2, <2>2, <3>1, <3>2 DEF BufferSet
    <3> QED
      BY <1>5, <3>3 DEF BytesLeft, len
  <2> QED
    BY <1>5, <2>1, <2>2
<1>13. ASSUME ~direct
       PROVE  /\ refilled \in BufferSet /\ refilled.used /\ ~refilled.writing
              /\ refilled.data = got /\ refilled.len = g /\ BytesLeft(refilled) = g - m
  <2>1. g \in 0 .. BufferSize /\ m \in 0 .. BufferSize /\ m <= g
    BY <1>5, <1>8, <1>9, <1>11, <1>13
  <2>2. /\ refilled = [b EXCEPT !.data = got, !.len = g, !.writing = FALSE, !.offset = m]
    BY DEF refilled, g
  <2>3. Len(got) = g
    BY DEF g
  <2>4. /\ refilled \in BufferSet /\ refilled.used /\ ~refilled.writing
        /\ refilled.data = got /\ refilled.len = g /\ refilled.offset = m
    BY <1>2, <1>9, <2>1, <2>2, <2>3 DEF BufferSet
  <2> QED
    BY <2>4 DEF BytesLeft
<1>14. x \in FileSet /\ x.disk = file.disk /\ x.mode = file.mode /\ x.pos = pos + g
  <2>1. pos + g \in Nat
    BY <1>5, <1>9
  <2>2. x = [file EXCEPT !.pos = pos + g]
    BY DEF x, pos, g
  <2> QED
    BY <1>2, <2>1, <2>2 DEF FileSet
<1>15. c \in BufferSet /\ c.used
  BY <1>12, <1>13 DEF c
<1>16. Becomes(f, x, c)
  <2>1. written' \in 0 .. MaxBytes /\ failures' \in 0 .. MaxFailures
    BY <1>1 DEF Inv, Types
  <2> QED
    BY <1>1, <1>2, <1>14, <1>15, <2>1 DEF Becomes, IsOpen
<1>17. Inv' /\ os'[f] = x /\ Buffer(f)' = c /\ Only(f)
  BY <1>4, <1>16, Becoming
<1>18. ASSUME Careful, CarefulInv
       PROVE  CarefulInv' /\ Streams!Read(f, n)
  <2>1. ~b.writing
    BY <1>1, <1>18
  <2>2. left > 0 => /\ len <= pos /\ pos <= most
                    /\ \A k \in 1 .. len : b.data[k] = file.disk[(pos - len) + k]
    BY <1>18, <2>1 DEF CarefulInv, ReadAhead, left, len, pos, most
  <2>3. left <= pos
    BY <1>5, <2>2
  <2>4. \/ c = used /\ m = g
        \/ c = refilled /\ ~direct /\ got # <<>>
    <3>1. direct => m = g
      BY <1>7, <1>8, <1>9, <1>10, <1>11 DEF MinOf
    <3>2. got = <<>> => m = g
      <4>1. got = <<>> => g = 0
        BY EmptySeq DEF g
      <4> QED
        BY <1>11, <4>1
    <3> QED
      BY <3>1, <3>2 DEF c
  <2>5. ~c.writing
    BY <1>12, <1>13, <2>1, <2>4
  <2>6. ReadAhead(x, c)
    <3>1. CASE c = used /\ m = g
      BY <1>12, <2>1, <3>1 DEF ReadAhead
    <3>2. CASE c = refilled /\ ~direct /\ got # <<>>
      <4>1. g > 0
        <5>1. Len(got) \in Nat \ {0}
          BY <1>9, <3>2, EmptySeq
        <5> QED
          BY <5>1 DEF g
      <4>2. g <= pos + g /\ pos + g <= most /\ (pos + g) - g = pos
        BY <1>5, <1>9, <1>11, <4>1
      <4>3. c.len = g /\ c.data = got
        BY <1>13, <3>2
      <4>4. \A k \in 1 .. c.len : c.data[k] = x.disk[x.pos - c.len + k]
        BY <1>9, <1>14, <4>2, <4>3
      <4> QED
        BY <1>14, <4>2, <4>3, <4>4 DEF ReadAhead, most
    <3> QED
      BY <2>4, <3>1, <3>2
  <2>7. KeepsBytes(f, x, c)
    BY <1>1, <1>14, <1>18, <2>1, <2>5, NoNewBytes DEF Unwritten
  <2>8. CarefulInv'
    BY <1>17, <1>18, <2>6, <2>7, OnlyKeeps
  <2> DEFINE at == pos - left
  <2> DEFINE part == Streams!Part(file.disk, at, n)
  <2> DEFINE tail == SubSeq(got, 1, m)
  <2>9. at \in Nat /\ at + left = pos
    BY <1>5, <2>3
  <2> HIDE DEF at
  <2>10. /\ part \in Seq(Int)
         /\ Len(part) = IF at < most THEN MinOf(at + n, most) - at ELSE 0
         /\ \A k \in 1 .. Len(part) : part[k] = file.disk[at + k]
    <3>1. /\ Streams!Part(file.disk, at, n) \in Seq(Int)
          /\ Len(Streams!Part(file.disk, at, n))
             = IF at < Len(file.disk) THEN MinOf(at + n, Len(file.disk)) - at ELSE 0
          /\ \A k \in 1 .. Len(Streams!Part(file.disk, at, n)) :
               /\ at + k \in 1 .. Len(file.disk)
               /\ Streams!Part(file.disk, at, n)[k] = file.disk[at + k]
      <4>1. file.disk \in Seq(Int) /\ at \in Nat /\ n \in Nat
        BY <1>3, <1>5, <2>9
      <4> HIDE DEF file, part
      <4> QED
        BY <4>1, PartIs
    <3> QED
      BY <3>1 DEF most
  <2> HIDE DEF part
  <2>11. Len(part) = left + m
    <3>1. left > 0 => pos <= most
      BY <2>2
    <3>2. left + m = IF at < most THEN MinOf(at + n, most) - at ELSE 0
      <4>1. /\ pos \in Nat /\ left \in Nat /\ n \in Nat /\ size \in Nat /\ most \in Nat
            /\ asked \in Nat /\ g \in Nat /\ size + left = n /\ size > 0 /\ asked >= size
            /\ g = IF pos < most THEN MinOf(pos + asked, most) - pos ELSE 0
        BY <1>3, <1>5, <1>7, <1>8, <1>9, <2>1
      <4>2. left + MinOf(g, size)
            = IF pos - left < most THEN MinOf((pos - left) + n, most) - (pos - left) ELSE 0
        BY <2>3, <3>1, <4>1 DEF MinOf
      <4> QED
        BY <1>10, <4>2 DEF at
    <3> QED
      BY <2>10, <3>2
  <2>12. /\ tail \in Seq(Int) /\ Len(tail) = m
         /\ \A k \in 1 .. m : tail[k] = got[k]
    <3>1. m \in Int /\ m - 1 + 1 = m /\ (1 <= m <=> m # 0)
      BY <1>9, <1>11
    <3>2. \A k \in 1 .. m : got[k] \in Int
      BY <1>9, <1>11, ElementOfSeq DEF g
    <3>3. /\ tail \in Seq(Int) /\ Len(tail) = (IF 1 <= m THEN m - 1 + 1 ELSE 0)
          /\ \A k \in 1 .. m - 1 + 1 : tail[k] = got[1 + k - 1]
      BY <3>1, <3>2, SubSeqProperties
    <3> HIDE DEF tail
    <3> QED
      BY <3>1, <3>3
  <2> HIDE DEF tail
  <2>13. /\ bytes \in Seq(Int) /\ Len(bytes) = left + m
         /\ \A k \in 1 .. left + m : bytes[k] = IF k <= left THEN rest[k] ELSE tail[k - left]
    <3>1. bytes = rest \o tail
      BY DEF bytes, tail
    <3>2. Len(rest) = left /\ rest \in Seq(Int)
      BY <1>6, <2>1
    <3>3. /\ rest \o tail \in Seq(Int) /\ Len(rest \o tail) = Len(rest) + Len(tail)
          /\ \A k \in 1 .. Len(rest) + Len(tail) :
               (rest \o tail)[k] = IF k <= Len(rest) THEN rest[k] ELSE tail[k - Len(rest)]
      BY <2>12, <3>2, ConcatProperties
    <3> HIDE DEF bytes
    <3> QED
      BY <2>12, <3>1, <3>2, <3>3
  <2>14. \A k \in 1 .. left + m : bytes[k] = part[k]
    <3> TAKE k \in 1 .. left + m
    <3>1. part[k] = file.disk[at + k]
      BY <2>10, <2>11
    <3>2. CASE k <= left
      <4>1. k \in 1 .. left /\ left > 0
        BY <1>5, <1>9, <1>11, <3>2
      <4>2. off + k \in 1 .. len /\ (pos - len) + (off + k) = at + k
        BY <1>5, <2>9, <4>1
      <4>3. b.data[off + k] = file.disk[(pos - len) + (off + k)]
        BY <2>2, <4>1, <4>2
      <4> QED
        BY <1>6, <2>1, <2>13, <3>1, <3>2, <4>1, <4>2, <4>3
    <3>3. CASE ~(k <= left)
      <4>1. k - left \in 1 .. m /\ k - left \in 1 .. g /\ pos + (k - left) = at + k
        BY <1>5, <1>9, <1>11, <2>9, <3>3
      <4> QED
        BY <1>9, <2>12, <2>13, <3>1, <3>3, <4>1
    <3> QED
      BY <3>2, <3>3
  <2>15. bytes = part
    <3>1. Len(bytes) = Len(part) /\ \A k \in 1 .. Len(bytes) : bytes[k] = part[k]
      BY <2>11, <2>13, <2>14
    <3> QED
      BY <2>10, <2>13, <3>1, SequencesEqual
  <2>16. x.pos - BytesLeft(c) = at + Len(bytes)
    <3>1. BytesLeft(c) = g - m
      BY <1>9, <1>12, <1>13, <2>1, <2>4
    <3> QED
      <4>1. (pos + g) - (g - m) = at + (left + m)
        <5>1. pos \in Int /\ g \in Int /\ left \in Int /\ at \in Int /\ m \in Int /\ at + left = pos
          BY <1>5, <1>9, <1>11, <2>9
        <5> QED
          BY <5>1
      <4> QED
        BY <1>14, <2>13, <3>1, <4>1
  <2>17. Streams!Read(f, n)
    <3>1. bytes = Streams!Part(os[f].disk, os[f].pos - BytesLeft(Buffer(f)), n)
      BY <2>15 DEF part, at, pos, left, file
    <3>2. x.pos - BytesLeft(c) = (os[f].pos - BytesLeft(Buffer(f))) + Len(bytes)
      BY <2>16 DEF at, pos, left, file
    <3> QED
      BY <1>1, <1>2, <1>14, <1>17, <2>1, <2>5, <3>1, <3>2, StreamsRead
  <2> QED
    BY <2>8, <2>17
<1> QED
  BY <1>17, <1>18

LEMMA NewBytesOnce ==
  ASSUME written \in Nat, NEW n \in Nat
  PROVE  Once(NewBytes(n)) /\ Bytes(NewBytes(n)) \subseteq written + 1 .. written + n
<1>1. 1 \in 1 .. n + 1 /\ n \in 0 .. n
  OBVIOUS
<1>2. LET s == SubSeq(NewBytes(n), 1, n)
      IN  Once(s) /\ Bytes(s) \subseteq written + 1 .. written + n
  BY <1>1, NewBytesAre
<1> QED
  BY <1>2, NewBytesAll

LEMMA Writable ==
  ASSUME Inv, NEW f \in Files, IsOpen(f), os[f].mode # "read"
  PROVE  os[f].mode \in {"write", "append"}
  BY TypesAre, FileAssumption DEF FileSet, IsOpen

(* A buffer for writing takes k more bytes. *)
LEMMA BufferTakes ==
  ASSUME Inv, NEW f \in Files, HasBuffer(f), Buffer(f).writing,
         NEW k \in Nat, k > 0, k <= BytesLeft(Buffer(f)),
         NEW c, c = [Buffer(f) EXCEPT !.data = @ \o NewBytes(k), !.offset = @ + k]
  PROVE  /\ c \in BufferSet /\ c.used /\ c.writing
         /\ After(os[f], c) = SysWrite(After(os[f], Buffer(f)), NewBytes(k))
         /\ CarefulInv /\ written' \in Nat /\ written' >= written + k => KeepsBytes(f, os[f], c)
<1> DEFINE b == Buffer(f)
<1> DEFINE new == NewBytes(k)
<1> DEFINE both == b.data \o new
<1> DEFINE off == b.offset
<1> DEFINE len == b.len
<1>1. b \in BufferSet /\ b.used /\ b.writing /\ os[f] \in FileSet /\ written \in Nat
  BY TypesAre
<1>2. /\ off \in Nat /\ len \in Nat /\ off <= len /\ len <= BufferSize /\ BytesLeft(b) = len - off
      /\ b.data \in Seq(Int) /\ Len(b.data) = off /\ BufferSize \in Nat
  BY <1>1, BufferFields, FileAssumption
<1>3. new \in Seq(Int) /\ Len(new) = k /\ Once(new) /\ Bytes(new) \subseteq written + 1 .. written + k
  BY <1>1, NewBytesAll, NewBytesOnce
<1>4. c = [b EXCEPT !.data = both, !.offset = off + k]
  OBVIOUS
<1>5. k <= len - off
  BY <1>2
<1> HIDE DEF b, new, off, len
<1>6. both \in Seq(Int) /\ Len(both) = off + k
  <2>1. Len(both) = Len(b.data) + Len(new) /\ both \in Seq(Int)
    BY <1>2, <1>3, ConcatProperties
  <2> QED
    BY <1>2, <1>3, <2>1
<1> HIDE DEF both
<1>7. off + k \in 0 .. BufferSize /\ off + k <= len /\ off + k > 0
  BY <1>2, <1>5
<1>8. /\ c \in BufferSet /\ c.used /\ c.writing /\ c.data = both /\ c.offset = off + k
  BY <1>1, <1>4, <1>6, <1>7 DEF BufferSet, len
<1>9. After(os[f], c) = SysWrite(os[f], both)
  BY <1>7, <1>8 DEF After
<1>10. SysWrite(os[f], both) = SysWrite(After(os[f], b), new)
  BY <1>1, <1>3, AfterAppending DEF both
<1>11. ASSUME CarefulInv, written' \in Nat, written' >= written + k
       PROVE  KeepsBytes(f, os[f], c)
  <2>1. /\ KeptOnce(os[f], b) /\ Kept(os[f], b) \subseteq 1 .. written
    BY <1>11 DEF CarefulInv, Places, b
  <2>2. Unwritten(b) = b.data /\ Unwritten(c) = both
    BY <1>1, <1>8 DEF Unwritten
  <2>3. /\ Once(os[f].disk) /\ Once(b.data) /\ Bytes(os[f].disk) \cap Bytes(b.data) = {}
        /\ Bytes(os[f].disk) \subseteq 1 .. written /\ Bytes(b.data) \subseteq 1 .. written
    BY <2>1, <2>2 DEF KeptOnce, Kept
  <2>4. \A i \in 1 .. written : i \notin Bytes(new)
    BY <1>1, <1>3
  <2>5. Once(both) /\ Bytes(both) \subseteq Bytes(b.data) \cup Bytes(new)
    BY <1>2, <1>3, <2>3, <2>4, ConcatOnce DEF both
  <2>6. Bytes(new) \subseteq written + 1 .. written'
    BY <1>1, <1>3, <1>11
  <2>7. written' >= written
    BY <1>1, <1>11
  <2> QED
    BY <2>2, <2>3, <2>4, <2>5, <2>6, <2>7 DEF KeepsBytes, KeptOnce, Kept, b
<1> QED
  BY <1>8, <1>9, <1>10, <1>11 DEF b, new

LEMMA WriteBufferedKeeps ==
  ASSUME Inv, NEW f \in Files, NEW n \in WriteSizes, WriteBuffered(f, n)
  PROVE  Inv' /\ (CarefulInv => CarefulInv' /\ Streams!Write(f, n))
<1> DEFINE b == Buffer(f)
<1> DEFINE c == [b EXCEPT !.data = @ \o NewBytes(n), !.offset = @ + n]
<1>1. /\ HasBuffer(f) /\ os[f].mode # "read" /\ b.writing /\ BytesLeft(b) >= n
      /\ written' = written + n /\ written + n <= MaxBytes
      /\ os' = os /\ mine' = mine /\ failures' = failures
      /\ SetBuffer(f, c) /\ last' = Call("write", f, n, <<>>)
  BY DEF WriteBuffered, CanWrite
<1>2. n \in Nat /\ n > 0 /\ MaxBytes \in Nat
  BY FileAssumption
<1>3. IsOpen(f) /\ written \in Nat /\ b \in BufferSet /\ os[f] \in FileSet
  BY <1>1, TypesAre
<1>4. n <= BytesLeft(b)
  <2>1. BytesLeft(b) \in Nat
    BY <1>3, BufferFields
  <2> QED
    BY <1>1, <1>2, <2>1
<1>5. written' \in Nat /\ written' >= written + n /\ written' \in 0 .. MaxBytes
  BY <1>1, <1>2, <1>3
<1>6. /\ c \in BufferSet /\ c.used /\ c.writing
      /\ After(os[f], c) = SysWrite(After(os[f], b), NewBytes(n))
      /\ CarefulInv => KeepsBytes(f, os[f], c)
  BY <1>1, <1>2, <1>4, <1>5, BufferTakes
<1> HIDE DEF c
<1>7. Becomes(f, os[f], c)
  <2>1. os' = [os EXCEPT ![f] = os[f]]
    BY <1>1 DEF Inv, Types
  <2>2. failures' \in 0 .. MaxFailures
    BY <1>1 DEF Inv, Types
  <2> QED
    BY <1>1, <1>3, <1>5, <1>6, <2>1, <2>2 DEF Becomes, IsOpen
<1>8. Inv' /\ os'[f] = os[f] /\ Buffer(f)' = c /\ Only(f)
  BY <1>1, <1>7, Becoming DEF Its
<1>9. ASSUME CarefulInv
      PROVE  CarefulInv'
  BY <1>6, <1>8, <1>9, OnlyKeeps DEF ReadAhead
<1>10. Streams!WritePart(f, "write", n, n)
  <2>1. Where(os[f], c) = After(os[f], c).pos /\ Where(os[f], b) = After(os[f], b).pos
    BY <1>1, <1>6 DEF Where
  <2>2. os[f].mode \in {"write", "append"}
    BY <1>1, <1>3, Writable
  <2> QED
    BY <1>1, <1>2, <1>6, <1>8, <2>1, <2>2, StreamsWrite
<1> QED
  BY <1>8, <1>9, <1>10 DEF Streams!Write

LEMMA WriteFailsKeeps ==
  ASSUME Inv, NEW f \in Files, NEW n \in WriteSizes, WriteFails(f, n)
  PROVE  Inv' /\ (CarefulInv => CarefulInv' /\ Streams!WriteFails(f, n))
<1> DEFINE b == Buffer(f)
<1>k. PICK k : k = BytesLeft(b)
  OBVIOUS
<1> DEFINE c == [b EXCEPT !.data = @ \o NewBytes(k), !.offset = b.len]
<1>1. /\ HasBuffer(f) /\ os[f].mode # "read" /\ b.writing /\ 0 < k /\ k < n
      /\ written' = written + n /\ written + n <= MaxBytes
      /\ os' = os /\ mine' = mine /\ failures < MaxFailures /\ failures' = failures + 1
      /\ SetBuffer(f, c)
  BY <1>k, Zenon DEF WriteFails, CanWrite
<1> DEFINE op == "failed write"
<1>call. last' = Call(op, f, n, <<>>)
  BY Zenon DEF WriteFails
<1> HIDE DEF op
<1>2. n \in Nat /\ n > 0 /\ MaxBytes \in Nat /\ MaxFailures \in Nat
  BY FileAssumption
<1>3. IsOpen(f) /\ written \in Nat /\ failures \in Nat /\ b \in BufferSet /\ os[f] \in FileSet
  BY <1>1, TypesAre
<1>4. k \in Nat /\ b.offset \in Nat /\ b.len \in Nat /\ b.offset + k = b.len
  BY <1>k, <1>3, BufferFields
<1>5. written' \in Nat /\ written' >= written + k /\ written' \in 0 .. MaxBytes
  BY <1>1, <1>2, <1>3, <1>4
<1>6. c = [b EXCEPT !.data = @ \o NewBytes(k), !.offset = @ + k]
  BY <1>4
<1> HIDE DEF c
<1>7. /\ c \in BufferSet /\ c.used /\ c.writing
      /\ After(os[f], c) = SysWrite(After(os[f], b), NewBytes(k))
      /\ CarefulInv => KeepsBytes(f, os[f], c)
  <2>1. k > 0 /\ k <= BytesLeft(b)
    BY <1>k, <1>1, <1>4
  <2> QED
    BY <1>1, <1>4, <1>5, <1>6, <2>1, BufferTakes
<1>8. Becomes(f, os[f], c)
  <2>1. os' = [os EXCEPT ![f] = os[f]]
    BY <1>1 DEF Inv, Types
  <2>2. failures' \in 0 .. MaxFailures
    BY <1>1, <1>2, <1>3
  <2> QED
    BY <1>1, <1>3, <1>5, <1>7, <2>1, <2>2 DEF Becomes, IsOpen
<1>9. Inv' /\ os'[f] = os[f] /\ Buffer(f)' = c /\ Only(f)
  BY <1>1, <1>8, Becoming DEF Its
<1>10. ASSUME CarefulInv
       PROVE  CarefulInv'
  BY <1>7, <1>9, <1>10, OnlyKeeps DEF ReadAhead
<1>11. Streams!WritePart(f, op, n, k)
  <2>1. Where(os[f], c) = After(os[f], c).pos /\ Where(os[f], b) = After(os[f], b).pos
    BY <1>1, <1>7 DEF Where
  <2>2. os[f].mode \in {"write", "append"}
    BY <1>1, <1>3, Writable
  <2> QED
    <3>1. /\ Only(f) /\ os'[f] = os[f] /\ Buffer(f)' = c /\ n \in Nat /\ k \in Nat
          /\ After(os[f], c) = SysWrite(After(os[f], b), NewBytes(k))
          /\ written' = written + n
      BY <1>1, <1>2, <1>4, <1>7, <1>9
    <3> QED
      BY <1>call, <2>1, <2>2, <3>1, StreamsWrite
<1>12. k \in 1 .. n - 1
  BY <1>1, <1>2, <1>4
<1> QED
  <2>1. \E j \in 1 .. n - 1 : Streams!WritePart(f, op, n, j)
    BY <1>11, <1>12
  <2>2. Streams!WriteFails(f, n)
    BY <2>1, Zenon DEF Streams!WriteFails, op
  <2> QED
    BY <1>9, <1>10, <2>2

(* The first k of n new bytes and the rest of them are all of them. *)
LEMMA NewBytesSplit ==
  ASSUME written \in Nat, NEW n \in Nat, NEW k \in 0 .. n
  PROVE  LET first == SubSeq(NewBytes(n), 1, k)
             rest == SubSeq(NewBytes(n), k + 1, n)
         IN  /\ first \in Seq(Int) /\ Len(first) = k /\ Once(first)
             /\ Bytes(first) \subseteq written + 1 .. written + k
             /\ rest \in Seq(Int) /\ Len(rest) = n - k /\ Once(rest)
             /\ Bytes(rest) \subseteq written + k + 1 .. written + n
             /\ first \o rest = NewBytes(n)
<1> DEFINE new == NewBytes(n)
<1> DEFINE first == SubSeq(new, 1, k)
<1> DEFINE rest == SubSeq(new, k + 1, n)
<1>1. /\ first \in Seq(Int) /\ Len(first) = (IF 1 <= k THEN k - 1 + 1 ELSE 0)
      /\ \A i \in 1 .. k - 1 + 1 : first[i] = written + 1 + i - 1
      /\ Once(first) /\ Bytes(first) \subseteq written + 1 .. written + k
  <2>1. 1 \in 1 .. n + 1 /\ k \in 0 .. n
    OBVIOUS
  <2> QED
    BY <2>1, NewBytesAre
<1>2. /\ rest \in Seq(Int) /\ Len(rest) = (IF k + 1 <= n THEN n - (k + 1) + 1 ELSE 0)
      /\ \A i \in 1 .. n - (k + 1) + 1 : rest[i] = written + (k + 1) + i - 1
      /\ Once(rest) /\ Bytes(rest) \subseteq written + (k + 1) .. written + n
  <2> DEFINE a == k + 1
  <2>1. a \in 1 .. n + 1 /\ n \in 0 .. n
    OBVIOUS
  <2>2. /\ SubSeq(new, a, n) \in Seq(Int) /\ Len(SubSeq(new, a, n)) = (IF a <= n THEN n - a + 1 ELSE 0)
        /\ \A i \in 1 .. n - a + 1 : SubSeq(new, a, n)[i] = written + a + i - 1
        /\ Once(SubSeq(new, a, n)) /\ Bytes(SubSeq(new, a, n)) \subseteq written + a .. written + n
    <3> HIDE DEF a
    <3> QED
      BY <2>1, NewBytesAre
  <2> QED
    BY <2>2
<1>3. new \in Seq(Int) /\ Len(new) = n /\ \A i \in 1 .. n : new[i] = written + i
  BY NewBytesAll DEF NewBytes
<1> HIDE DEF new, first, rest
<1>4. Len(first) = k /\ Len(rest) = n - k
  <2>1. (IF 1 <= k THEN k - 1 + 1 ELSE 0) = k /\ (IF k + 1 <= n THEN n - (k + 1) + 1 ELSE 0) = n - k
    OBVIOUS
  <2> QED
    BY <1>1, <1>2, <2>1
<1>5. /\ first \o rest \in Seq(Int) /\ Len(first \o rest) = n
      /\ \A i \in 1 .. n : (first \o rest)[i] = IF i <= k THEN first[i] ELSE rest[i - k]
  <2>1. /\ first \o rest \in Seq(Int) /\ Len(first \o rest) = Len(first) + Len(rest)
        /\ \A i \in 1 .. Len(first) + Len(rest) :
             (first \o rest)[i] = IF i <= Len(first) THEN first[i] ELSE rest[i - Len(first)]
    BY <1>1, <1>2, ConcatProperties
  <2>2. k + (n - k) = n
    OBVIOUS
  <2> QED
    BY <1>4, <2>1, <2>2
<1>6. \A i \in 1 .. n : (first \o rest)[i] = new[i]
  <2> TAKE i \in 1 .. n
  <2>1. CASE i <= k
    <3>1. i \in 1 .. k - 1 + 1 /\ written + 1 + i - 1 = written + i
      BY <2>1
    <3> QED
      BY <1>1, <1>3, <1>5, <2>1, <3>1
  <2>2. CASE ~(i <= k)
    <3>1. i - k \in 1 .. n - (k + 1) + 1 /\ written + (k + 1) + (i - k) - 1 = written + i
      BY <2>2
    <3> QED
      BY <1>2, <1>3, <1>5, <2>2, <3>1
  <2> QED
    BY <2>1, <2>2
<1>7. first \o rest = new
  BY <1>3, <1>5, <1>6, SequencesEqual
<1>8. written + (k + 1) = written + k + 1
  OBVIOUS
<1> QED
  BY <1>1, <1>2, <1>4, <1>7, <1>8 DEF new, first, rest

LEMMA WriteMoreKeeps ==
  ASSUME Inv, NEW f \in Files, NEW n \in WriteSizes, WriteMore(f, n)
  PROVE  Inv' /\ (Careful /\ CarefulInv => CarefulInv' /\ Streams!Write(f, n))
<1> DEFINE old == os[f]
<1> DEFINE b == Buffer(f)
<1> DEFINE left == BytesLeft(b)
<1> DEFINE fills == b.writing /\ left > 0
<1> DEFINE k == IF fills THEN left ELSE 0
<1> DEFINE first == SubSeq(NewBytes(n), 1, k)
<1> DEFINE rest == SubSeq(NewBytes(n), k + 1, n)
<1> DEFINE full == b.data \o first
<1> DEFINE direct == Len(rest) >= BufferSize
<1> DEFINE file == IF fills THEN SysWrite(old, full) ELSE old
<1> DEFINE x == IF direct THEN SysWrite(file, rest) ELSE file
<1> DEFINE holds == [b EXCEPT !.data = rest, !.len = BufferSize, !.writing = TRUE, !.offset = Len(rest)]
<1> DEFINE stays == [b EXCEPT !.data = full, !.offset = b.len]
<1> DEFINE c == IF ~direct THEN holds ELSE IF fills THEN stays ELSE b
<1>1. /\ HasBuffer(f) /\ old.mode # "read" /\ (Careful => CarefulWrite(b, n))
      /\ (~b.writing \/ left < n)
      /\ written' = written + n /\ written + n <= MaxBytes
      /\ os' = [os EXCEPT ![f] = x] /\ mine' = mine /\ failures' = failures
      /\ SetBuffer(f, c) /\ last' = Call("write", f, n, <<>>)
  BY DEF WriteMore, CanWrite
<1>2. n \in Nat /\ n > 0 /\ MaxBytes \in Nat /\ BufferSize \in Nat /\ BufferSize > 0
  BY FileAssumption
<1>3. IsOpen(f) /\ written \in Nat /\ b \in BufferSet /\ b.used /\ old \in FileSet
  BY <1>1, TypesAre
<1> DEFINE off == b.offset
<1> DEFINE len == b.len
<1>4. /\ off \in Nat /\ len \in Nat /\ off <= len /\ len <= BufferSize /\ left = len - off
      /\ left \in Nat /\ b.data \in Seq(Int) /\ b.writing \in BOOLEAN
      /\ b.writing => Len(b.data) = off
  BY <1>3, BufferFields
<1> HIDE DEF old, b, left, off, len, c, holds, stays, x, file
<1>5. k \in 0 .. n /\ (fills => k = left) /\ (~fills => k = 0)
  BY <1>1, <1>2, <1>4
<1> HIDE DEF k
<1>6. /\ first \in Seq(Int) /\ Len(first) = k /\ Once(first)
      /\ Bytes(first) \subseteq written + 1 .. written + k
      /\ rest \in Seq(Int) /\ Len(rest) = n - k /\ Once(rest)
      /\ Bytes(rest) \subseteq written + k + 1 .. written + n
      /\ first \o rest = NewBytes(n)
  BY <1>2, <1>3, <1>5, NewBytesSplit
<1> HIDE DEF first, rest
<1>7. direct <=> n - k >= BufferSize
  BY <1>6
<1> HIDE DEF direct
<1>8. full \in Seq(Int) /\ (fills => Len(full) = len)
  <2>1. full \in Seq(Int) /\ Len(full) = Len(b.data) + Len(first)
    BY <1>4, <1>6, ConcatProperties
  <2>2. fills => off + k = len
    BY <1>4, <1>5
  <2> QED
    BY <1>4, <1>6, <2>1, <2>2
<1> HIDE DEF full
<1>9. file \in FileSet /\ file.mode = old.mode
  BY <1>3, <1>8, SysWriteIs DEF file
<1>10. x \in FileSet /\ x.mode = old.mode
  BY <1>6, <1>9, SysWriteIs DEF x
<1>11. ASSUME ~direct
       PROVE  /\ holds \in BufferSet /\ holds.used /\ holds.writing /\ holds.data = rest
              /\ holds.offset = n - k
  <2>1. n - k \in 0 .. BufferSize /\ n - k <= BufferSize /\ BufferSize \in 0 .. BufferSize
    BY <1>2, <1>5, <1>7, <1>11
  <2>2. holds = [b EXCEPT !.data = rest, !.len = BufferSize, !.writing = TRUE, !.offset = n - k]
    BY <1>6 DEF holds
  <2> QED
    BY <1>3, <1>6, <2>1, <2>2 DEF BufferSet
<1>12. ASSUME fills
       PROVE  stays \in BufferSet /\ stays.used
  <2>1. stays = [b EXCEPT !.data = full, !.offset = b.len]
    BY DEF stays
  <2>2. b.len \in 0 .. BufferSize /\ b.len <= b.len /\ Len(full) = b.len /\ b.writing
    BY <1>2, <1>4, <1>8, <1>12 DEF len
  <2> QED
    BY <1>3, <1>8, <2>1, <2>2 DEF BufferSet
<1>13. c \in BufferSet /\ c.used
  BY <1>3, <1>11, <1>12 DEF c
<1>14. Becomes(f, x, c)
  <2>1. written' \in 0 .. MaxBytes /\ failures' \in 0 .. MaxFailures
    <3>1. written + n \in 0 .. MaxBytes
      BY <1>1, <1>2, <1>3
    <3> QED
      BY <1>1, <3>1 DEF Inv, Types
  <2>2. x.mode # "closed"
    BY <1>3, <1>10 DEF IsOpen, old
  <2> QED
    BY <1>1, <1>10, <1>13, <2>1, <2>2 DEF Becomes
<1>15. Inv' /\ os'[f] = x /\ Buffer(f)' = c /\ Only(f)
  BY <1>1, <1>14, Becoming DEF Its
<1>16. written' >= written /\ written' = written + n
  BY <1>1, <1>2, <1>3
<1>17. old.mode \in {"write", "append"}
  BY <1>1, <1>3, Writable DEF old
<1>18. SUFFICES ASSUME Careful, CarefulInv
                PROVE  CarefulInv' /\ Streams!Write(f, n)
  BY <1>15
<1>19. /\ Once(old.disk) /\ Once(Unwritten(b)) /\ Bytes(old.disk) \cap Bytes(Unwritten(b)) = {}
       /\ Bytes(old.disk) \subseteq 1 .. written /\ Bytes(Unwritten(b)) \subseteq 1 .. written
  BY <1>18 DEF CarefulInv, Places, KeptOnce, Kept, old, b
<1>20. old.disk \in Seq(Int) /\ Bytes(old.disk) \subseteq Kept(old, b) /\ Bytes(Unwritten(b)) \subseteq Kept(old, b)
  BY <1>3 DEF Kept, FileSet
<1> DEFINE new == NewBytes(n)
<1>21. new \in Seq(Int) /\ Len(new) = n /\ Once(new) /\ Bytes(new) \subseteq written + 1 .. written + n
  BY <1>2, <1>3, NewBytesAll, NewBytesOnce
<1> HIDE DEF new
<1>22. Bytes(old.disk) \cap Bytes(new) = {}
  BY <1>3, <1>19, <1>21
(* Nothing is buffered. *)
<1>23. CASE ~b.writing
  <2>1. left = 0 /\ ~fills /\ k = 0 /\ file = old
    BY <1>1, <1>5, <1>18, <1>23 DEF CarefulWrite, left, file
  <2>2. rest = new
    <3>1. rest = SubSeq(NewBytes(n), 1, n)
      BY <2>1 DEF rest
    <3> QED
      BY <1>2, <1>3, <3>1, NewBytesAll DEF new
  <2>3. Unwritten(b) = <<>> /\ After(old, b) = old /\ Where(old, b) = old.pos
    <3>1. old.pos - 0 = old.pos
      BY <1>3 DEF FileSet
    <3> QED
      BY <1>23, <2>1, <3>1 DEF Unwritten, After, Where, left
  <2>4. CASE direct
    <3>1. c = b /\ x = SysWrite(old, new)
      BY <1>23, <2>1, <2>2, <2>4 DEF c, x
    <3>2. Once(x.disk) /\ Bytes(x.disk) \subseteq Bytes(old.disk) \cup Bytes(new)
      BY <1>3, <1>19, <1>21, <1>22, <3>1, WriteOnce
    <3>3. KeepsBytes(f, x, c)
      BY <1>16, <1>19, <1>20, <1>21, <2>3, <3>1, <3>2, NothingOnce
      DEF KeepsBytes, KeptOnce, Kept, old, b
    <3>4. ReadAhead(x, c)
      BY <2>1, <3>1 DEF ReadAhead, left
    <3>5. CarefulInv'
      BY <1>15, <1>18, <3>3, <3>4, OnlyKeeps
    <3>6. After(x, c) = x /\ Where(x, c) = x.pos
      <4>1. x.pos - 0 = x.pos
        BY <1>10 DEF FileSet
      <4> QED
        BY <1>23, <2>1, <3>1, <4>1 DEF After, Where, left
    <3>7. Streams!WritePart(f, "write", n, n)
      BY <1>1, <1>2, <1>10, <1>15, <1>17, <2>3, <3>1, <3>6, StreamsWrite DEF old, b, new
    <3> QED
      BY <3>5, <3>7 DEF Streams!Write
  <2>5. CASE ~direct
    <3>1. c = holds /\ x = old /\ c.writing /\ c.data = new /\ c.offset > 0
      <4>1. n - k > 0
        BY <1>2, <2>1
      <4> QED
        BY <1>11, <2>1, <2>2, <2>5, <4>1 DEF c, x
    <3>2. KeepsBytes(f, x, c)
      BY <1>16, <1>19, <1>20, <1>21, <1>22, <2>3, <3>1
      DEF KeepsBytes, KeptOnce, Kept, Unwritten, old, b
    <3>3. CarefulInv'
      BY <1>15, <1>18, <3>1, <3>2, OnlyKeeps DEF ReadAhead
    <3>4. After(x, c) = SysWrite(old, new) /\ Where(x, c) = After(x, c).pos
      BY <3>1 DEF After, Where
    <3>5. Streams!WritePart(f, "write", n, n)
      BY <1>1, <1>2, <1>10, <1>15, <1>17, <2>3, <3>4, StreamsWrite DEF old, b, new
    <3> QED
      BY <3>3, <3>5 DEF Streams!Write
  <2> QED
    BY <2>4, <2>5
(* The buffer is filled and written out, and takes the rest. *)
<1>24. CASE b.writing
  <2>1. fills /\ k = left /\ ~direct /\ n - k > 0
    <3>1. left > 0 /\ n - left < BufferSize
      BY <1>1, <1>18, <1>24 DEF CarefulWrite, left
    <3>2. fills /\ k = left
      BY <1>5, <1>24, <3>1
    <3> QED
      BY <1>1, <1>2, <1>4, <1>5, <1>7, <1>24, <3>1, <3>2
  <2>2. c = holds /\ x = SysWrite(old, full) /\ c.writing /\ c.data = rest /\ c.offset > 0
    BY <1>11, <2>1 DEF c, x, file
  <2>3. Unwritten(b) = b.data /\ Unwritten(c) = rest
    BY <1>24, <2>2 DEF Unwritten
  <2>4. /\ Bytes(b.data) \cap Bytes(first) = {} /\ Bytes(old.disk) \cap Bytes(first) = {}
        /\ Bytes(b.data) \cap Bytes(rest) = {} /\ Bytes(old.disk) \cap Bytes(rest) = {}
        /\ Bytes(first) \cap Bytes(rest) = {}
        /\ Bytes(first) \subseteq written + 1 .. written + n /\ Bytes(rest) \subseteq written + 1 .. written + n
    <3>1. \A i \in 1 .. written : i \notin written + 1 .. written + k /\ i \notin written + k + 1 .. written + n
      BY <1>2, <1>3, <1>5
    <3>2. \A i \in written + 1 .. written + k : i \notin written + k + 1 .. written + n
      BY <1>2, <1>3, <1>5
    <3>3. /\ written + 1 .. written + k \subseteq written + 1 .. written + n
          /\ written + k + 1 .. written + n \subseteq written + 1 .. written + n
      BY <1>2, <1>3, <1>5
    <3> QED
      BY <1>6, <1>19, <2>3, <3>1, <3>2, <3>3
  <2>5. full \in Seq(Int) /\ Once(full) /\ Bytes(full) \subseteq Bytes(b.data) \cup Bytes(first)
    BY <1>4, <1>6, <1>19, <2>3, <2>4, ConcatOnce DEF full
  <2>6. /\ Once(x.disk) /\ Bytes(x.disk) \subseteq Bytes(old.disk) \cup Bytes(full)
    BY <1>3, <1>19, <2>2, <2>3, <2>4, <2>5, WriteOnce
  <2>7. KeepsBytes(f, x, c)
    <3>1. KeptOnce(x, c)
      BY <1>6, <2>3, <2>4, <2>5, <2>6 DEF KeptOnce
    <3>2. Kept(x, c) \subseteq Kept(old, b) \cup written + 1 .. written + n
      BY <2>3, <2>4, <2>5, <2>6 DEF Kept
    <3> QED
      BY <1>16, <3>1, <3>2 DEF KeepsBytes, old, b
  <2>8. CarefulInv'
    BY <1>15, <1>18, <2>2, <2>7, OnlyKeeps DEF ReadAhead
  <2>9. After(x, c) = SysWrite(After(old, b), new)
    <3>1. After(x, c) = SysWrite(SysWrite(old, full), rest)
      BY <2>2 DEF After
    <3>2. SysWrite(SysWrite(old, full), rest) = SysWrite(old, full \o rest)
      BY <1>3, <1>6, <2>5, SysWriteTwice
    <3>3. full \o rest = b.data \o new
      <4>1. (b.data \o first) \o rest = b.data \o (first \o rest)
        <5> DEFINE d == b.data
        <5>1. d \in Seq(Int) /\ first \in Seq(Int) /\ rest \in Seq(Int)
          BY <1>4, <1>6
        <5> HIDE DEF d
        <5>2. (d \o first) \o rest = d \o (first \o rest)
          BY <5>1, ConcatOfThree
        <5> QED
          BY <5>2 DEF d
      <4> QED
        BY <1>6, <4>1, Zenon DEF full, new
    <3>4. SysWrite(After(old, b), new) = SysWrite(old, b.data \o new)
      BY <1>3, <1>21, <1>24, AfterAppending
    <3> QED
      BY <3>1, <3>2, <3>3, <3>4
  <2>10. Where(x, c) = After(x, c).pos /\ Where(old, b) = After(old, b).pos
    BY <1>24, <2>2 DEF Where
  <2>11. Streams!WritePart(f, "write", n, n)
    BY <1>1, <1>2, <1>10, <1>15, <1>17, <2>9, <2>10, StreamsWrite DEF old, b, new
  <2> QED
    BY <2>8, <2>11 DEF Streams!Write
<1> QED
  BY <1>4, <1>23, <1>24

(* Flushing moves bytes to the disk and changes nothing else.              *)
LEMMA FlushedIs ==
  ASSUME Inv, NEW f \in Files
  PROVE  LET x == FlushedFile(f)
             c == FlushedBuffer(f)
         IN  /\ x \in FileSet /\ x.mode = os[f].mode /\ c \in BufferSet
             /\ HasBuffer(f) => c.used
             /\ ~HasBuffer(f) => c = NewBuffer
             /\ After(x, c) = x /\ x = After(os[f], Buffer(f))
             /\ Where(x, c) = Where(os[f], Buffer(f))
             /\ c.writing => Buffer(f).writing /\ c.offset = 0
             /\ ~c.writing => BytesLeft(c) = IF Buffer(f).writing THEN 0 ELSE BytesLeft(Buffer(f))
             /\ Unwritten(c) = <<>>
             /\ CarefulInv => /\ Once(x.disk) /\ Bytes(x.disk) \subseteq Kept(os[f], Buffer(f))
                              /\ ReadAhead(x, c)
<1> DEFINE old == os[f]
<1> DEFINE b == Buffer(f)
<1> DEFINE x == FlushedFile(f)
<1> DEFINE c == FlushedBuffer(f)
<1>1. /\ old \in FileSet /\ b \in BufferSet /\ (HasBuffer(f) => b.used)
      /\ (~HasBuffer(f) => b = NewBuffer)
  BY TypesAre
<1>2. b.data \in Seq(Int) /\ b.offset \in Nat /\ (b.writing => Len(b.data) = b.offset)
  BY <1>1, BufferFields
<1>3. x = After(old, b) /\ x \in FileSet /\ x.mode = old.mode
  BY <1>1, StreamsAre, AfterIsFile
<1>4. CASE Pending(f)
  <2>1. b.writing /\ b.offset > 0 /\ x = SysWrite(old, b.data) /\ c = [NewBuffer EXCEPT !.used = TRUE]
    BY <1>4 DEF Pending, FlushedFile, FlushedBuffer
  <2>2. HasBuffer(f)
    BY <1>1, <2>1 DEF NewBuffer
  <2>3. c \in BufferSet /\ c.used /\ ~c.writing /\ BytesLeft(c) = 0
    <3>1. c \in BufferSet
      BY <2>1, NewBufferType
    <3>2. c.used /\ ~c.writing /\ c.len = 0 /\ c.offset = 0
      BY <2>1 DEF NewBuffer
    <3> QED
      BY <3>1, <3>2 DEF BytesLeft
  <2> HIDE DEF c
  <2>4. After(x, c) = x /\ Unwritten(c) = <<>> /\ ReadAhead(x, c)
    BY <2>3 DEF After, Unwritten, ReadAhead
  <2>5. Where(x, c) = Where(old, b)
    <3>1. x.pos \in Nat
      BY <1>3 DEF FileSet
    <3>2. x.pos - 0 = x.pos
      BY <3>1
    <3> QED
      BY <1>3, <2>1, <2>3, <3>2 DEF Where
  <2>6. ASSUME CarefulInv
        PROVE  Once(x.disk) /\ Bytes(x.disk) \subseteq Kept(old, b)
    <3>1. /\ Once(old.disk) /\ Once(b.data) /\ Bytes(old.disk) \cap Bytes(b.data) = {}
          /\ Kept(old, b) = Bytes(old.disk) \cup Bytes(b.data)
      BY <2>1, <2>6 DEF CarefulInv, Places, KeptOnce, Kept, Unwritten
    <3> QED
      BY <1>1, <1>2, <2>1, <3>1, WriteOnce
  <2> QED
    BY <1>3, <2>1, <2>2, <2>3, <2>4, <2>5, <2>6 DEF c
<1>5. CASE ~Pending(f)
  <2>1. x = old /\ c = b /\ ~(b.writing /\ b.offset > 0)
    BY <1>5 DEF Pending, FlushedFile, FlushedBuffer
  <2>2. Unwritten(c) = <<>>
    BY <1>2, <2>1, EmptySeq DEF Unwritten
  <2>3. CarefulInv => /\ Once(x.disk) /\ Bytes(x.disk) \subseteq Kept(old, b)
                      /\ ReadAhead(x, c)
    BY <2>1 DEF CarefulInv, Places, KeptOnce, Kept
  <2>4. c.writing => b.writing /\ c.offset = 0
    BY <1>2, <2>1
  <2>5. ~c.writing => BytesLeft(c) = IF b.writing THEN 0 ELSE BytesLeft(b)
    BY <2>1
  <2>6. After(x, c) = x /\ Where(x, c) = Where(old, b)
    BY <1>3, <2>1
  <2> HIDE DEF x, c
  <2> QED
    BY <1>1, <1>3, <2>1, <2>2, <2>3, <2>4, <2>5, <2>6 DEF x, c
<1> QED
  BY <1>4, <1>5

LEMMA StreamsSame ==
  ASSUME NEW f \in Files, Only(f), NEW x, NEW b, os'[f] = x, Buffer(f)' = b,
         After(x, b).disk = After(os[f], Buffer(f)).disk, x.mode = os[f].mode
  PROVE  Content' = Content /\ Mode' = Mode /\ At' = [At EXCEPT ![f] = Where(x, b)]
<1>1. Content[f] = After(x, b).disk /\ Mode[f] = x.mode
  BY StreamsAre
<1>2. /\ Content' = [Content EXCEPT ![f] = Content[f]] /\ Mode' = [Mode EXCEPT ![f] = Mode[f]]
      /\ At' = [At EXCEPT ![f] = Where(x, b)]
  BY <1>1, StreamsBecome
<1> QED
  BY <1>2 DEF Content, Mode

LEMMA FlushKeeps ==
  ASSUME Inv, NEW f \in Files, Flush(f)
  PROVE  Inv' /\ (CarefulInv => CarefulInv' /\ Streams!Flush(f))
<1> DEFINE x == FlushedFile(f)
<1> DEFINE c == FlushedBuffer(f)
<1>1. /\ IsOpen(f) /\ os' = [os EXCEPT ![f] = x] /\ SetBuffer(f, c)
      /\ last' = Call("flush", f, 0, <<>>)
      /\ mine' = mine /\ written' = written /\ failures' = failures
  BY DEF Flush
<1>2. /\ x \in FileSet /\ x.mode = os[f].mode /\ c \in BufferSet
      /\ (HasBuffer(f) => c.used) /\ (~HasBuffer(f) => c = NewBuffer)
      /\ After(x, c) = x /\ x = After(os[f], Buffer(f))
      /\ Where(x, c) = Where(os[f], Buffer(f)) /\ Unwritten(c) = <<>>
      /\ CarefulInv => /\ Once(x.disk) /\ Bytes(x.disk) \subseteq Kept(os[f], Buffer(f))
                       /\ ReadAhead(x, c)
  BY FlushedIs
<1> HIDE DEF x, c
<1>3. Becomes(f, x, c)
  BY <1>1, <1>2 DEF Becomes, IsOpen, Inv, Types
<1>4. Inv' /\ os'[f] = x /\ Buffer(f)' = c /\ Only(f)
  BY <1>2, <1>3, Becoming DEF Its
<1>5. ASSUME CarefulInv
      PROVE  CarefulInv'
  <2>1. written \in Nat /\ written' >= written
    BY <1>1, TypesAre
  <2>2. KeepsBytes(f, x, c)
    BY <1>2, <1>5, <2>1, NothingOnce DEF KeepsBytes, KeptOnce, Kept
  <2> QED
    BY <1>2, <1>4, <1>5, <2>2, OnlyKeeps
<1>6. Streams!Flush(f)
  <2>1. Content' = Content /\ Mode' = Mode /\ At' = [At EXCEPT ![f] = At[f]]
    BY <1>2, <1>4, StreamsSame, StreamsAre
  <2>2. At' = At
    BY <2>1 DEF At
  <2>3. Mode[f] # "closed"
    BY <1>1, StreamsAre DEF IsOpen
  <2>4. last' = Streams!Call("flush", f, 0, <<>>)
    BY <1>1 DEF Call, Streams!Call
  <2> QED
    BY <1>1, <2>1, <2>2, <2>3, <2>4 DEF Streams!Flush, Content, Mode, At
<1> QED
  BY <1>4, <1>5, <1>6

(* What is the same for every property that does not mention the last call *)
(* and the failures.                                                       *)
LEMMA NothingChanges ==
  ASSUME Inv, UNCHANGED <<os, mine, buffers, written>>, failures' \in 0 .. MaxFailures
  PROVE  /\ Inv' /\ (CarefulInv => CarefulInv')
         /\ Content' = Content /\ Mode' = Mode /\ At' = At
<1>1. os' = os /\ mine' = mine /\ buffers' = buffers /\ written' = written
  OBVIOUS
<1>2. Inv'
  BY <1>1 DEF Inv, Types, BuffersOwned, HasBuffer, IsOpen, Buffer
<1>3. \A f \in Files : Buffer(f)' = Buffer(f) /\ FlushedFile(f)' = FlushedFile(f)
  BY <1>1 DEF Buffer, HasBuffer, FlushedFile, Pending
<1>4. CarefulInv => CarefulInv'
  BY <1>1, <1>2, <1>3 DEF CarefulInv, Places
<1>5. Content' = Content /\ Mode' = Mode
  BY <1>1, <1>3 DEF Content, Mode
<1>6. At' = At
  BY <1>1, <1>3 DEF At, BytesLeft
<1> QED
  BY <1>2, <1>4, <1>5, <1>6

(* A careful caller only writes past the buffer when nothing is in it.     *)
LEMMA DirectWriteFailsKeeps ==
  ASSUME Inv, Careful, NEW f \in Files, NEW n \in WriteSizes, DirectWriteFails(f, n)
  PROVE  Inv' /\ (CarefulInv => CarefulInv' /\ Streams!WriteRefused(f, n))
<1> DEFINE b == Buffer(f)
<1> DEFINE fills == b.writing /\ BytesLeft(b) > 0
<1> DEFINE k == IF fills THEN BytesLeft(b) ELSE 0
<1> DEFINE full == b.data \o SubSeq(NewBytes(n), 1, k)
<1> DEFINE op == "failed write"
<1>1. /\ HasBuffer(f) /\ os[f].mode # "read" /\ CarefulWrite(b, n)
      /\ written' = written + n /\ written + n <= MaxBytes /\ mine' = mine
      /\ n - k >= BufferSize
      /\ failures < MaxFailures /\ failures' = failures + 1
      /\ os' = [os EXCEPT ![f] = IF fills THEN SysWrite(@, full) ELSE @]
      /\ SetBuffer(f, IF fills THEN [b EXCEPT !.data = full, !.offset = b.len] ELSE b)
      /\ last' = Call(op, f, n, <<>>)
  BY Zenon DEF DirectWriteFails, CanWrite
<1> HIDE DEF op
<1>2. ~fills
  <2>1. n \in Nat /\ BufferSize \in Nat /\ BytesLeft(b) \in Nat
    BY TypesAre, BufferFields, FileAssumption
  <2>2. n - k >= BufferSize
    BY <1>1
  <2>3. ASSUME fills
        PROVE  n - BytesLeft(b) < BufferSize
    BY <1>1, <2>3 DEF CarefulWrite
  <2> HIDE DEF b
  <2> QED
    BY <2>1, <2>2, <2>3
<1>3. /\ n \in Nat /\ MaxBytes \in Nat /\ MaxFailures \in Nat
      /\ written \in Nat /\ failures \in Nat /\ b \in BufferSet /\ os[f] \in FileSet
      /\ b.used /\ IsOpen(f)
  BY <1>1, TypesAre, FileAssumption
<1>4. written' \in 0 .. MaxBytes /\ failures' \in 0 .. MaxFailures /\ written' >= written
  BY <1>1, <1>3
<1>5. os' = [os EXCEPT ![f] = os[f]] /\ SetBuffer(f, b)
  BY <1>1, <1>2
<1>6. Becomes(f, os[f], b)
  BY <1>1, <1>3, <1>4, <1>5 DEF Becomes, IsOpen
<1>7. Inv' /\ os'[f] = os[f] /\ Buffer(f)' = b /\ Only(f)
  BY <1>1, <1>6, Becoming DEF Its
<1>8. ASSUME CarefulInv
      PROVE  CarefulInv'
  <2>1. KeepsBytes(f, os[f], b) /\ ReadAhead(os[f], b)
    BY <1>4, <1>8 DEF KeepsBytes, CarefulInv, Places
  <2> QED
    BY <1>7, <1>8, <2>1, OnlyKeeps
<1>9. Content' = Content /\ Mode' = Mode /\ At' = [At EXCEPT ![f] = At[f]]
  BY <1>7, StreamsSame, StreamsAre
<1>10. At' = At
  BY <1>9 DEF At
<1>11. Mode[f] \in {"write", "append"}
  BY <1>1, <1>3, Writable, StreamsAre
<1>12. last' = Streams!Call(op, f, n, <<>>)
  BY <1>1 DEF Call, Streams!Call
<1>13. Streams!WriteRefused(f, n)
  BY <1>1, <1>9, <1>10, <1>11, <1>12 DEF Streams!WriteRefused, Content, Mode, At, op
<1> QED
  BY <1>7, <1>8, <1>13

LEMMA FlushFailsKeeps ==
  ASSUME Inv, NEW f \in Files, FlushFails(f)
  PROVE  Inv' /\ (CarefulInv => CarefulInv' /\ Streams!Flush(f))
<1>1. /\ Pending(f) /\ last' = Call("flush", f, 0, <<>>)
      /\ UNCHANGED <<os, mine, buffers, written>>
  BY DEF FlushFails
<1>2. failures' \in 0 .. MaxFailures
  <2>1. failures \in Nat /\ MaxFailures \in Nat /\ failures < MaxFailures /\ failures' = failures + 1
    BY TypesAre, FileAssumption DEF FlushFails
  <2> QED
    BY <2>1
<1>3. IsOpen(f)
  BY <1>1, TypesAre DEF Pending, NewBuffer
<1>4. last' = Streams!Call("flush", f, 0, <<>>)
  BY <1>1 DEF Call, Streams!Call
<1>5. Mode[f] # "closed"
  BY <1>3, StreamsAre DEF IsOpen
<1>6. /\ Inv' /\ (CarefulInv => CarefulInv')
      /\ Content' = Content /\ Mode' = Mode /\ At' = At
  BY <1>1, <1>2, NothingChanges
<1> QED
  BY <1>1, <1>4, <1>5, <1>6 DEF Streams!Flush, Content, Mode, At

LEMMA StreamsSeek ==
  ASSUME NEW f \in Files, Only(f), NEW x, NEW b, os'[f] = x, Buffer(f)' = b,
         After(x, b).disk = After(os[f], Buffer(f)).disk, x.mode = os[f].mode, IsOpen(f),
         NEW from \in {"begin", "current", "end"}, NEW d, NEW target,
         from = "begin" => target = d,
         from = "current" => target = Where(os[f], Buffer(f)) + d,
         from = "end" => target = Len(After(os[f], Buffer(f)).disk) + d,
         Where(x, b) = IF target >= 0 THEN target ELSE Where(os[f], Buffer(f)),
         written' = written, last' = Call(from, f, d, <<>>)
  PROVE  Streams!Seek(f, from, d)
<1>1. /\ Content[f] = After(os[f], Buffer(f)).disk /\ Mode[f] # "closed"
      /\ At[f] = Where(os[f], Buffer(f))
  BY StreamsAre DEF IsOpen
<1>2. Content' = Content /\ Mode' = Mode /\ At' = [At EXCEPT ![f] = Where(x, b)]
  BY StreamsSame
<1>3. target = CASE from = "begin" -> d
                 [] from = "current" -> At[f] + d
                 [] from = "end" -> Len(Content[f]) + d
  BY <1>1
<1>4. At' = [At EXCEPT ![f] = IF target >= 0 THEN target ELSE @]
  BY <1>1, <1>2 DEF At
<1>5. last' = Streams!Call(from, f, d, <<>>)
  BY DEF Call, Streams!Call
<1> QED
  BY <1>1, <1>2, <1>3, <1>4, <1>5 DEF Streams!Seek, Content, Mode, At

(* In a buffer for reading the position of the stream moves with the       *)
(* offset; in one for writing careful callers only seek to where they are. *)
LEMMA SeekInsideKeeps ==
  ASSUME Inv, Careful, NEW f \in Files, NEW d \in Distances, SeekInside(f, d)
  PROVE  Inv' /\ (CarefulInv => CarefulInv' /\ Streams!Seek(f, "current", d))
<1> DEFINE old == os[f]
<1> DEFINE b == Buffer(f)
<1> DEFINE moved == [k \in 1 .. b.offset + d |->
                       IF k <= d THEN 0 ELSE IF k <= b.offset THEN b.data[k] ELSE Stale]
<1> DEFINE data == IF ~b.writing THEN b.data ELSE moved
<1> DEFINE c == [b EXCEPT !.offset = @ + d, !.data = data]
<1>1. /\ IsOpen(f) /\ HasBuffer(f) /\ d < BytesLeft(b)
      /\ CarefulSeek(b, "current", d)
      /\ SetBuffer(f, c) /\ last' = Call("current", f, d, <<>>)
      /\ os' = os /\ mine' = mine /\ written' = written /\ failures' = failures
  <2>1. SetBuffer(f, [b EXCEPT
          !.offset = @ + d,
          !.data = IF ~b.writing THEN @
                   ELSE [k \in 1 .. b.offset + d |->
                           IF k <= d THEN 0 ELSE IF k <= b.offset THEN @[k] ELSE Stale]])
    BY DEF SeekInside
  <2>2. SetBuffer(f, c)
    BY <2>1
  <2> QED
    BY <2>2 DEF SeekInside
<1>2. b \in BufferSet /\ b.used /\ old \in FileSet
  BY <1>1, TypesAre
<1> DEFINE len == b.len
<1> DEFINE off == b.offset
<1> DEFINE left == BytesLeft(b)
<1>3. /\ len \in Nat /\ off \in Nat /\ off <= len /\ len <= BufferSize /\ left = len - off
      /\ left \in Nat /\ b.data \in Seq(Int) /\ b.writing \in BOOLEAN
      /\ Len(b.data) = (IF b.writing THEN off ELSE len) /\ d \in Int /\ BufferSize \in Nat
  BY <1>2, BufferFields, FileAssumption
<1>4. off + d \in 0 .. len /\ left - d = len - (off + d)
  <2>1. d >= 0
    BY <1>1, <1>3 DEF CarefulSeek
  <2>2. d < left
    BY <1>1
  <2> HIDE DEF len, off, left
  <2> QED
    BY <1>3, <2>1, <2>2
<1>5. data \in Seq(Int) /\ Len(data) = (IF b.writing THEN off + d ELSE len)
  <2>1. CASE b.writing
    <3>1. moved \in [1 .. off + d -> Int]
      <4>1. \A k \in 1 .. off : b.data[k] \in Int
        BY <1>3, <2>1, ElementOfSeq
      <4> QED
        BY <1>3, <1>4, <4>1 DEF Stale
    <3> DEFINE s == moved
    <3> DEFINE to == off + d
    <3>2. s \in [1 .. to -> Int] /\ to \in Nat
      BY <1>4, <3>1
    <3> HIDE DEF s, to
    <3>3. s \in Seq(Int) /\ Len(s) = to
      BY <3>2, FunctionIsSequence
    <3> QED
      BY <2>1, <3>3 DEF s, to
  <2> QED
    BY <1>3, <2>1
<1> DEFINE to == off + d
<1> HIDE DEF data
<1>6. c = [b EXCEPT !.offset = to, !.data = data]
  OBVIOUS
<1> HIDE DEF c
<1>7. to \in 0 .. BufferSize /\ to <= b.len /\ Len(data) = IF b.writing THEN to ELSE b.len
  <2>1. to \in 0 .. len /\ Len(data) = IF b.writing THEN to ELSE len
    BY <1>4, <1>5
  <2>2. len \in Nat /\ BufferSize \in Nat /\ len <= BufferSize
    BY <1>3
  <2> HIDE DEF to
  <2>3. to \in 0 .. len => to \in 0 .. BufferSize /\ to <= len
    <3> HIDE DEF len
    <3> QED
      BY <2>2
  <2> QED
    BY <2>1, <2>3
<1> HIDE DEF to
<1>8. /\ c \in BufferSet /\ c.used /\ c.writing = b.writing /\ c.len = b.len /\ c.offset = to
      /\ c.data = data
  BY <1>2, <1>5, <1>6, <1>7 DEF BufferSet
<1>9. BytesLeft(c) = left - d
  BY <1>4, <1>8 DEF BytesLeft, to
<1>10. Becomes(f, old, c)
  <2>1. os' = [os EXCEPT ![f] = old]
    BY <1>1 DEF Inv, Types
  <2> QED
    BY <1>1, <1>2, <1>8, <2>1 DEF Becomes, IsOpen, Inv, Types
<1>11. Inv' /\ os'[f] = old /\ Buffer(f)' = c /\ Only(f)
  BY <1>1, <1>10, Becoming DEF Its
<1> HIDE DEF b, old, left
<1>12. SUFFICES ASSUME CarefulInv
                PROVE  CarefulInv' /\ Streams!Seek(f, "current", d)
  BY <1>11
<1>13. d >= 0 /\ left > 0 /\ (b.writing => d = 0)
  <2>1. d < left /\ CarefulSeek(b, "current", d)
    BY <1>1, <1>12 DEF left
  <2>2. d >= 0 /\ (b.writing => d = 0 \/ d >= left)
    BY <2>1 DEF CarefulSeek, left
  <2> QED
    BY <1>3, <2>1, <2>2
<1>14. CASE b.writing
  <2>1. to = off /\ d = 0
    BY <1>3, <1>13, <1>14 DEF to
  <2>2. data = b.data
    <3>1. \A k \in 1 .. off : moved[k] = b.data[k]
      BY <1>3, <1>13, <1>14
    <3>2. data = moved
      BY <1>14 DEF data
    <3> HIDE DEF moved
    <3>3. Len(data) = off /\ Len(b.data) = off
      BY <1>5, <1>3, <1>14, <2>1 DEF to
    <3> QED
      BY <1>3, <1>5, <3>1, <3>2, <3>3, SequencesEqual
  <2>3. After(old, c) = After(old, b) /\ Unwritten(c) = Unwritten(b) /\ Where(old, c) = Where(old, b)
    BY <1>8, <1>14, <2>1, <2>2 DEF After, Unwritten, Where, off
  <2>4. KeepsBytes(f, old, c)
    BY <1>1, <1>12, <2>3, NoNewBytes DEF b, old
  <2>5. CarefulInv'
    BY <1>8, <1>11, <1>12, <1>14, <2>4, OnlyKeeps DEF ReadAhead
  <2>6. Where(old, b) \in Nat
    BY <1>2, <1>14, AfterIsFile DEF Where, FileSet
  <2> DEFINE at == Where(old, b)
  <2>7. at \in Nat /\ at + d = at /\ at >= 0
    BY <2>1, <2>6
  <2>8. Where(old, c) = IF at + d >= 0 THEN at + d ELSE at
    BY <2>3, <2>7
  <2>9. Streams!Seek(f, "current", d)
    <3>1. After(old, c).disk = After(os[f], Buffer(f)).disk /\ at = Where(os[f], Buffer(f))
      BY <2>3 DEF old, b
    <3> HIDE DEF at
    <3> DEFINE target == at + d
    <3>2. Where(old, c) = IF target >= 0 THEN target ELSE at
      BY <2>8
    <3>3. target = Where(os[f], Buffer(f)) + d
      BY <3>1
    <3> HIDE DEF target
    <3> QED
      BY <1>1, <1>11, <3>1, <3>2, <3>3, StreamsSeek DEF old
  <2> QED
    BY <2>5, <2>9
<1>15. CASE ~b.writing
  <2>1. data = b.data
    BY <1>15 DEF data
  <2> DEFINE pos == old.pos
  <2>2. /\ len <= pos /\ pos <= Len(old.disk)
        /\ \A k \in 1 .. len : b.data[k] = old.disk[pos - len + k]
    BY <1>12, <1>13, <1>15 DEF CarefulInv, ReadAhead, b, old, left
  <2>3. ReadAhead(old, c)
    BY <1>8, <2>1, <2>2 DEF ReadAhead
  <2>4. KeepsBytes(f, old, c)
    BY <1>1, <1>8, <1>12, <1>15, NoNewBytes DEF Unwritten, b, old
  <2>5. CarefulInv'
    BY <1>11, <1>12, <2>3, <2>4, OnlyKeeps
  <2>6. pos \in Nat
    BY <1>2 DEF FileSet
  <2> DEFINE at == pos - left
  <2>7. at = Where(old, b) /\ Where(old, c) = pos - (left - d) /\ After(old, c) = After(old, b)
    BY <1>8, <1>9, <1>15 DEF Where, left, After
  <2> HIDE DEF pos, len, off
  <2> DEFINE target == at + d
  <2>8. target >= 0 /\ pos - (left - d) = target
    BY <1>3, <1>13, <2>2, <2>6
  <2>9. Where(old, c) = IF target >= 0 THEN target ELSE Where(os[f], Buffer(f))
    BY <2>7, <2>8
  <2>10. target = Where(os[f], Buffer(f)) + d /\ After(old, c).disk = After(os[f], Buffer(f)).disk
    BY <2>7 DEF old, b
  <2> HIDE DEF target
  <2>11. Streams!Seek(f, "current", d)
    BY <1>1, <1>11, <2>9, <2>10, StreamsSeek DEF old
  <2> QED
    BY <2>5, <2>11
<1> QED
  BY <1>3, <1>14, <1>15

(* Careful callers have nothing left to read when they leave the buffer,   *)
(* so the position of the system is the one of the stream.                 *)
LEMMA SeekOutsideKeeps ==
  ASSUME Inv, NEW f \in Files, NEW from \in {"begin", "current", "end"}, NEW d \in Distances,
         SeekOutside(f, from, d)
  PROVE  Inv' /\ (Careful /\ CarefulInv => CarefulInv' /\ Streams!Seek(f, from, d))
<1> DEFINE old == os[f]
<1> DEFINE b == Buffer(f)
<1> DEFINE file == FlushedFile(f)
<1> DEFINE c == FlushedBuffer(f)
<1> DEFINE back == IF from = "current" /\ ~b.writing THEN BytesLeft(b) ELSE 0
<1> DEFINE by == d - back
<1> DEFINE x == SysSeek(file, from, by)
<1>1. /\ IsOpen(f) /\ (from = "current" /\ HasBuffer(f) => d >= BytesLeft(b))
      /\ (Careful => CarefulSeek(b, from, d))
      /\ os' = [os EXCEPT ![f] = x] /\ SetBuffer(f, c)
      /\ last' = Call(from, f, d, <<>>)
      /\ mine' = mine /\ written' = written /\ failures' = failures
  BY DEF SeekOutside
<1>2. /\ file \in FileSet /\ file.mode = old.mode /\ c \in BufferSet
      /\ (HasBuffer(f) => c.used) /\ (~HasBuffer(f) => c = NewBuffer)
      /\ After(file, c) = file /\ file = After(old, b)
      /\ Where(file, c) = Where(old, b)
      /\ (c.writing => b.writing /\ c.offset = 0)
      /\ (~c.writing => BytesLeft(c) = IF b.writing THEN 0 ELSE BytesLeft(b))
      /\ Unwritten(c) = <<>>
      /\ CarefulInv => Once(file.disk) /\ Bytes(file.disk) \subseteq Kept(old, b)
  BY FlushedIs
<1>3. b \in BufferSet /\ BytesLeft(b) \in Nat /\ b.writing \in BOOLEAN /\ (~HasBuffer(f) => b = NewBuffer)
  BY TypesAre, BufferFields
<1>4. by \in Int /\ d \in Int
  BY <1>3, FileAssumption
<1> HIDE DEF file, c, b, old, by
<1>5. /\ x \in FileSet /\ x.disk = file.disk /\ x.mode = file.mode
      /\ Sought(file, from, by) \in Int
      /\ x.pos = IF Sought(file, from, by) >= 0 THEN Sought(file, from, by) ELSE file.pos
  <2>1. file \in FileSet
    BY <1>2
  <2> QED
    BY <1>4, <2>1, SysSeekIs
<1> HIDE DEF x
<1>6. Becomes(f, x, c)
  BY <1>1, <1>2, <1>5 DEF Becomes, IsOpen, Inv, Types, old
<1>7. Inv' /\ os'[f] = x /\ Buffer(f)' = c /\ Only(f)
  BY <1>2, <1>6, Becoming DEF Its
<1>8. SUFFICES ASSUME Careful, CarefulInv
                PROVE  CarefulInv' /\ Streams!Seek(f, from, d)
  BY <1>7
<1>9. ~b.writing => BytesLeft(b) = 0
  <2> SUFFICES ASSUME ~b.writing, BytesLeft(b) > 0
               PROVE  FALSE
    BY <1>3
  <2> DEFINE left == BytesLeft(b)
  <2>1. from = "current" /\ d < left
    BY <1>1, <1>8 DEF CarefulSeek
  <2>2. HasBuffer(f)
    BY <1>3 DEF NewBuffer, BytesLeft
  <2>3. d >= left /\ left \in Int
    BY <1>1, <1>3, <2>1, <2>2
  <2> HIDE DEF left
  <2> QED
    BY <1>4, <2>1, <2>3
<1>10. by = d
  BY <1>4, <1>9 DEF by
<1>11. ~c.writing => BytesLeft(c) = 0
  BY <1>2, <1>9
<1>12. CarefulInv'
  <2>1. ReadAhead(x, c)
    BY <1>11 DEF ReadAhead
  <2>2. written \in Nat /\ written' >= written
    BY <1>1, TypesAre
  <2>3. KeepsBytes(f, x, c)
    BY <1>2, <1>5, <1>8, <2>2, NothingOnce DEF KeepsBytes, KeptOnce, Kept, old, b
  <2> QED
    BY <1>7, <1>8, <2>1, <2>3, OnlyKeeps
<1>13. After(x, c) = x /\ Where(x, c) = x.pos /\ Where(file, c) = file.pos
  <2>1. After(x, c) = x /\ After(file, c) = file
    BY <1>2 DEF After
  <2>2. x.pos \in Nat /\ file.pos \in Nat
    BY <1>2, <1>5 DEF FileSet
  <2>3. x.pos - 0 = x.pos /\ file.pos - 0 = file.pos
    BY <2>2
  <2> QED
    BY <1>11, <2>1, <2>3 DEF Where
<1> DEFINE target == d + (IF from = "begin" THEN 0
                          ELSE IF from = "current" THEN file.pos ELSE Len(file.disk))
<1>14. x.pos = IF target >= 0 THEN target ELSE file.pos
  BY <1>5, <1>10 DEF Sought
<1>15. /\ from = "begin" => target = d
       /\ from = "current" => target = file.pos + d
       /\ from = "end" => target = Len(file.disk) + d
  <2> DEFINE pos == file.pos
  <2> DEFINE size == Len(file.disk)
  <2>1. pos \in Int /\ size \in Int
    BY <1>2, LenProperties DEF FileSet
  <2> HIDE DEF pos, size
  <2>2. d + pos = pos + d /\ d + size = size + d /\ d + 0 = d
    BY <1>4, <2>1
  <2> QED
    BY <2>2 DEF pos, size
<1> HIDE DEF target
<1>16. Streams!Seek(f, from, d)
  <2>1. file.pos = Where(os[f], Buffer(f)) /\ file = After(os[f], Buffer(f))
    BY <1>2, <1>13 DEF old, b
  <2>2. After(x, c).disk = After(os[f], Buffer(f)).disk /\ x.mode = os[f].mode
    BY <1>2, <1>5, <1>13, <2>1 DEF old
  <2>3. Where(x, c) = IF target >= 0 THEN target ELSE Where(os[f], Buffer(f))
    BY <1>13, <1>14, <2>1
  <2>4. /\ from = "begin" => target = d
        /\ from = "current" => target = Where(os[f], Buffer(f)) + d
        /\ from = "end" => target = Len(After(os[f], Buffer(f)).disk) + d
    BY <1>15, <2>1
  <2> QED
    BY <1>1, <1>7, <2>2, <2>3, <2>4, StreamsSeek
<1> QED
  BY <1>12, <1>16

(* What closing f makes of the files and buffers.                          *)
LEMMA Closing ==
  ASSUME Inv, NEW f \in Files, NEW disk \in Seq(Int), Closed(f, disk),
         failures' \in 0 .. MaxFailures
  PROVE  /\ Inv' /\ Only(f) /\ Buffer(f)' = NewBuffer
         /\ os'[f] = [disk |-> disk, mode |-> "closed", pos |-> 0]
<1> DEFINE x == [disk |-> disk, mode |-> "closed", pos |-> 0]
<1>1. /\ os' = [os EXCEPT ![f] = x] /\ mine' = [mine EXCEPT ![f] = 0] /\ written' = written
      /\ buffers' = [c \in 1 .. BufferCount |-> IF c = mine[f] THEN NewBuffer ELSE buffers[c]]
  BY DEF Closed, SetBuffer
<1>2. /\ os \in [Files -> FileSet] /\ mine \in [Files -> 0 .. BufferCount]
      /\ buffers \in [1 .. BufferCount -> BufferSet] /\ written \in 0 .. MaxBytes
  BY DEF Inv, Types
<1>3. x \in FileSet
  BY DEF FileSet
<1> HIDE DEF x
<1>4. /\ os' \in [Files -> FileSet] /\ os'[f] = x
      /\ \A g \in Files : g # f => os'[g] = os[g]
  BY <1>1, <1>2, <1>3
<1>5. /\ mine' \in [Files -> 0 .. BufferCount] /\ mine'[f] = 0
      /\ \A g \in Files : g # f => mine'[g] = mine[g]
  BY <1>1, <1>2, FileAssumption
<1>6. /\ buffers' \in [1 .. BufferCount -> BufferSet]
      /\ \A c \in 1 .. BufferCount : buffers'[c] = IF c = mine[f] THEN NewBuffer ELSE buffers[c]
  BY <1>1, <1>2, NewBufferType
<1>7. Types'
  BY <1>1, <1>2, <1>4, <1>5, <1>6 DEF Types
<1>8. ~HasBuffer(f)' /\ Buffer(f)' = NewBuffer
  BY <1>5 DEF HasBuffer, Buffer
<1>9. ASSUME NEW g \in Files, g # f
      PROVE  /\ HasBuffer(g)' <=> HasBuffer(g)
             /\ Buffer(g)' = Buffer(g)
  <2>1. HasBuffer(g) => mine[g] # mine[f] /\ mine[g] \in 1 .. BufferCount
    BY <1>2, <1>9, FileAssumption DEF Inv, BuffersOwned, HasBuffer
  <2> QED
    BY <1>5, <1>6, <1>9, <2>1 DEF HasBuffer, Buffer
<1>10. BuffersOwned'
  <2>1. \A g \in Files : HasBuffer(g)' => IsOpen(g)' /\ Buffer(g)'.used
    <3> TAKE g \in Files
    <3>1. g # f /\ HasBuffer(g) => IsOpen(g)' /\ Buffer(g)'.used
      BY <1>4, <1>9, TypesAre DEF IsOpen
    <3> QED
      BY <1>8, <1>9, <3>1
  <2>2. \A g, h \in Files : HasBuffer(g)' /\ mine'[g] = mine'[h] => g = h
    <3> TAKE g, h \in Files
    <3> HAVE HasBuffer(g)' /\ mine'[g] = mine'[h]
    <3>1. g # f /\ HasBuffer(g) /\ mine'[h] # 0
      BY <1>8, <1>9 DEF HasBuffer
    <3>2. h # f
      BY <1>5, <3>1
    <3>3. mine[g] = mine[h]
      BY <1>5, <3>1, <3>2
    <3> QED
      BY <3>1, <3>3 DEF Inv, BuffersOwned
  <2>3. \A c \in 1 .. BufferCount : buffers'[c].used => \E g \in Files : mine'[g] = c
    <3> TAKE c \in 1 .. BufferCount
    <3> HAVE buffers'[c].used
    <3>1. c # mine[f] /\ buffers[c].used
      BY <1>6 DEF NewBuffer
    <3>2. PICK g \in Files : mine[g] = c
      BY <3>1 DEF Inv, BuffersOwned
    <3>3. mine'[g] = c
      BY <1>5, <3>1, <3>2
    <3> QED
      BY <3>3
  <2> QED
    BY <2>1, <2>2, <2>3 DEF BuffersOwned
<1> QED
  BY <1>4, <1>7, <1>8, <1>9, <1>10 DEF Inv, Only, x

(* The same for both ways of closing: nothing is left in the buffer.       *)
LEMMA ClosedKeeps ==
  ASSUME Inv, NEW f \in Files, NEW disk \in Seq(Int), Closed(f, disk),
         failures' \in 0 .. MaxFailures
  PROVE  /\ Inv'
         /\ Content' = [Content EXCEPT ![f] = disk]
         /\ Mode' = [Mode EXCEPT ![f] = "closed"] /\ At' = [At EXCEPT ![f] = 0]
         /\ CarefulInv /\ Once(disk) /\ Bytes(disk) \subseteq Kept(os[f], Buffer(f)) => CarefulInv'
<1> DEFINE x == [disk |-> disk, mode |-> "closed", pos |-> 0]
<1>1. Inv' /\ Only(f) /\ Buffer(f)' = NewBuffer /\ os'[f] = x
  BY Closing
<1>2. x.disk = disk /\ x.mode = "closed" /\ x.pos = 0
  OBVIOUS
<1>3. ~NewBuffer.writing /\ BytesLeft(NewBuffer) = 0
  BY DEF NewBuffer, BytesLeft
<1> HIDE DEF x
<1>4. After(x, NewBuffer) = x /\ Where(x, NewBuffer) = 0 /\ Unwritten(NewBuffer) = <<>>
  <2>1. Where(x, NewBuffer) = 0 - 0
    BY <1>2, <1>3 DEF Where
  <2> QED
    BY <1>3, <2>1 DEF After, Unwritten
<1>5. /\ Content' = [Content EXCEPT ![f] = disk]
      /\ Mode' = [Mode EXCEPT ![f] = "closed"] /\ At' = [At EXCEPT ![f] = 0]
  BY <1>1, <1>2, <1>4, StreamsBecome
<1>6. ASSUME CarefulInv, Once(disk), Bytes(disk) \subseteq Kept(os[f], Buffer(f))
      PROVE  CarefulInv'
  <2>1. written \in Nat /\ written' >= written
    BY TypesAre DEF Closed
  <2>2. KeepsBytes(f, x, NewBuffer)
    BY <1>2, <1>4, <1>6, <2>1, NothingOnce DEF KeepsBytes, KeptOnce, Kept
  <2>3. ReadAhead(x, NewBuffer)
    BY <1>3 DEF ReadAhead
  <2> QED
    BY <1>1, <1>6, <2>2, <2>3, OnlyKeeps
<1> QED
  BY <1>1, <1>5, <1>6

LEMMA CloseKeeps ==
  ASSUME Inv, NEW f \in Files, Close(f)
  PROVE  Inv' /\ (CarefulInv => CarefulInv' /\ Streams!Close(f))
<1> DEFINE file == FlushedFile(f)
<1>1. /\ file \in FileSet /\ file = After(os[f], Buffer(f))
      /\ CarefulInv => Once(file.disk) /\ Bytes(file.disk) \subseteq Kept(os[f], Buffer(f))
  BY FlushedIs
<1>2. IsOpen(f) /\ Closed(f, file.disk) /\ last' = Call("close", f, 0, <<>>) /\ failures' = failures
  BY DEF Close
<1> HIDE DEF file
<1>3. file.disk \in Seq(Int) /\ failures' \in 0 .. MaxFailures
  BY <1>1, <1>2 DEF FileSet, Inv, Types
<1>4. /\ Inv' /\ Content' = [Content EXCEPT ![f] = file.disk]
      /\ Mode' = [Mode EXCEPT ![f] = "closed"] /\ At' = [At EXCEPT ![f] = 0]
      /\ CarefulInv => CarefulInv'
  BY <1>1, <1>2, <1>3, ClosedKeeps
<1>5. Content' = Content
  <2>1. Content[f] = file.disk
    BY <1>1, StreamsAre
  <2> QED
    BY <1>4, <2>1 DEF Content
<1>6. Mode[f] # "closed"
  BY <1>2, StreamsAre DEF IsOpen
<1>7. last' = Streams!Call("close", f, 0, <<>>) /\ written' = written
  BY <1>2 DEF Call, Streams!Call, Closed
<1>8. Streams!Close(f)
  BY <1>4, <1>5, <1>6, <1>7 DEF Streams!Close, Content, Mode, At
<1> QED
  BY <1>4, <1>8

LEMMA CloseLosingKeeps ==
  ASSUME Inv, NEW f \in Files, CloseLosing(f)
  PROVE  Inv' /\ (CarefulInv => CarefulInv' /\ Streams!Close(f))
<1> DEFINE op == "failed close"
<1> DEFINE disk == os[f].disk
<1>1. /\ Pending(f) /\ Closed(f, disk) /\ failures < MaxFailures /\ failures' = failures + 1
  BY DEF CloseLosing
<1>2. last' = Call(op, f, 0, <<>>)
  BY Zenon DEF CloseLosing, op
<1> HIDE DEF op
<1>3. disk \in Seq(Int) /\ failures' \in 0 .. MaxFailures
  <2>1. failures \in Nat /\ MaxFailures \in Nat
    BY TypesAre, FileAssumption
  <2>2. failures' \in 0 .. MaxFailures
    BY <1>1, <2>1
  <2> QED
    BY <2>2, TypesAre DEF FileSet
<1>4. IsOpen(f)
  BY <1>1, TypesAre DEF Pending, NewBuffer
<1>5. CarefulInv => Once(disk) /\ Bytes(disk) \subseteq Kept(os[f], Buffer(f))
  BY DEF CarefulInv, Places, KeptOnce, Kept
<1> HIDE DEF disk
<1>6. /\ Inv' /\ Content' = [Content EXCEPT ![f] = disk]
      /\ Mode' = [Mode EXCEPT ![f] = "closed"] /\ At' = [At EXCEPT ![f] = 0]
      /\ CarefulInv => CarefulInv'
  BY <1>1, <1>3, <1>5, ClosedKeeps
<1>7. Content'[f] = disk
  BY <1>6 DEF Content
<1>8. Mode[f] # "closed"
  BY <1>4, StreamsAre DEF IsOpen
<1>9. last' = Streams!Call(op, f, 0, <<>>) /\ written' = written
  BY <1>1, <1>2 DEF Call, Streams!Call, Closed
<1>10. Content' = [Content EXCEPT ![f] = Content'[f]]
  BY <1>6, <1>7
<1>11. last' = Streams!Call("failed close", f, 0, <<>>)
  BY <1>9, Zenon DEF op
<1>12. Streams!Close(f)
  BY <1>6, <1>8, <1>9, <1>10, <1>11, Zenon DEF Streams!Close, Content, Mode, At
<1> QED
  BY <1>6, <1>12

(* Who opens a file takes a buffer that nobody has, or none.               *)
LEMMA Opening ==
  ASSUME Inv, Careful, NEW f \in Files, NEW m \in OpenModes, Open(f, m)
  PROVE  /\ Inv' /\ Only(f) /\ ~HasBuffer(f)
         /\ os'[f] = [disk |-> IF m = "write" THEN <<>> ELSE os[f].disk, mode |-> m, pos |-> 0]
         /\ Buffer(f)' \in {NewBuffer, [NewBuffer EXCEPT !.used = TRUE]}
<1> DEFINE x == [disk |-> IF m = "write" THEN <<>> ELSE os[f].disk, mode |-> m, pos |-> 0]
<1> DEFINE taken == [NewBuffer EXCEPT !.used = TRUE]
<1> DEFINE free == {b \in 1 .. BufferCount : ~buffers[b].used}
<1>1. /\ os \in [Files -> FileSet] /\ mine \in [Files -> 0 .. BufferCount]
      /\ buffers \in [1 .. BufferCount -> BufferSet]
      /\ written \in 0 .. MaxBytes /\ failures \in 0 .. MaxFailures
  BY DEF Inv, Types
<1>2. /\ ~IsOpen(f) /\ os' = [os EXCEPT ![f] = x] /\ written' = written /\ failures' = failures
      /\ \/ free = {} /\ mine' = mine /\ buffers' = buffers
         \/ \E b \in free : /\ mine' = [mine EXCEPT ![f] = b]
                            /\ buffers' = [buffers EXCEPT ![b] = taken]
  BY <1>1 DEF Open, CarefulOpen
<1>3. ~HasBuffer(f) /\ mine[f] = 0
  BY <1>2 DEF Inv, BuffersOwned, HasBuffer
<1>4. x \in FileSet /\ x.mode # "closed"
  <2>1. m \in {"read", "write", "append"}
    BY FileAssumption
  <2>2. os[f].disk \in Seq(Int) /\ <<>> \in Seq(Int)
    BY <1>1, EmptySeq DEF FileSet
  <2> QED
    BY <2>1, <2>2 DEF FileSet
<1>5. taken \in BufferSet /\ taken.used
  BY NewBufferType DEF NewBuffer
<1> HIDE DEF x, taken
<1>6. /\ os' \in [Files -> FileSet] /\ os'[f] = x /\ IsOpen(f)'
      /\ \A g \in Files : g # f => os'[g] = os[g]
  BY <1>1, <1>2, <1>4 DEF IsOpen
<1>7. \A g \in Files : HasBuffer(g) => mine[g] \in 1 .. BufferCount /\ buffers[mine[g]].used /\ IsOpen(g)
  BY <1>1, FileAssumption DEF Inv, BuffersOwned, HasBuffer, Buffer
<1>8. \A g, h \in Files : HasBuffer(g) /\ mine[g] = mine[h] => g = h
  BY DEF Inv, BuffersOwned
<1>9. CASE mine' = mine /\ buffers' = buffers
  <2>1. \A g \in Files : (HasBuffer(g)' <=> HasBuffer(g)) /\ Buffer(g)' = Buffer(g)
    BY <1>9 DEF HasBuffer, Buffer
  <2>2. BuffersOwned'
    <3>1. \A g \in Files : HasBuffer(g)' => IsOpen(g)' /\ Buffer(g)'.used
      <4> TAKE g \in Files
      <4>1. HasBuffer(g) => IsOpen(g)' /\ Buffer(g)'.used
        BY <1>3, <1>6, <2>1, TypesAre DEF IsOpen
      <4> QED
        BY <2>1, <4>1
    <3>2. \A g, h \in Files : HasBuffer(g)' /\ mine'[g] = mine'[h] => g = h
      BY <1>8, <1>9, <2>1
    <3>3. \A c \in 1 .. BufferCount : buffers'[c].used => \E g \in Files : mine'[g] = c
      BY <1>9 DEF Inv, BuffersOwned
    <3> QED
      BY <3>1, <3>2, <3>3 DEF BuffersOwned
  <2>3. Types'
    BY <1>1, <1>2, <1>6, <1>9 DEF Types
  <2>4. Buffer(f)' = NewBuffer
    BY <1>3, <2>1 DEF Buffer
  <2> QED
    BY <1>3, <1>6, <2>1, <2>2, <2>3, <2>4 DEF Inv, Only, x
<1>10. ASSUME NEW b \in free, mine' = [mine EXCEPT ![f] = b], buffers' = [buffers EXCEPT ![b] = taken]
       PROVE  Inv' /\ Only(f) /\ Buffer(f)' = taken
  <2>1. b \in 1 .. BufferCount /\ ~buffers[b].used /\ b # 0
    BY FileAssumption
  <2>2. /\ mine' \in [Files -> 0 .. BufferCount] /\ mine'[f] = b
        /\ \A g \in Files : g # f => mine'[g] = mine[g]
    BY <1>1, <1>10, <2>1, FileAssumption
  <2>3. /\ buffers' \in [1 .. BufferCount -> BufferSet] /\ buffers'[b] = taken
        /\ \A c \in 1 .. BufferCount : c # b => buffers'[c] = buffers[c]
    BY <1>1, <1>5, <1>10, <2>1
  <2>4. HasBuffer(f)' /\ Buffer(f)' = taken
    BY <2>1, <2>2, <2>3 DEF HasBuffer, Buffer
  <2>5. \A g \in Files : g # f => (HasBuffer(g)' <=> HasBuffer(g)) /\ Buffer(g)' = Buffer(g)
    <3> TAKE g \in Files
    <3>1. HasBuffer(g) => mine[g] # b
      BY <1>7, <2>1
    <3> QED
      BY <1>7, <2>2, <2>3, <3>1 DEF HasBuffer, Buffer
  <2>6. BuffersOwned'
    <3>1. \A g \in Files : HasBuffer(g)' => IsOpen(g)' /\ Buffer(g)'.used
      <4> TAKE g \in Files
      <4>1. g # f /\ HasBuffer(g) => IsOpen(g)' /\ Buffer(g)'.used
        BY <1>6, <2>5, TypesAre DEF IsOpen
      <4> QED
        BY <1>5, <1>6, <2>4, <2>5, <4>1
    <3>2. \A g, h \in Files : HasBuffer(g)' /\ mine'[g] = mine'[h] => g = h
      <4> TAKE g, h \in Files
      <4> HAVE HasBuffer(g)' /\ mine'[g] = mine'[h]
      <4>1. CASE g # f /\ h # f
        BY <1>8, <2>2, <2>5, <4>1
      <4>2. CASE g = f /\ h # f
        <5>1. mine[h] = b
          BY <2>2, <4>2
        <5> QED
          BY <1>7, <2>1, <5>1 DEF HasBuffer
      <4>3. CASE g # f /\ h = f
        <5>1. mine[g] = b
          BY <2>2, <4>3
        <5> QED
          BY <1>7, <2>1, <5>1 DEF HasBuffer
      <4> QED
        BY <4>1, <4>2, <4>3
    <3>3. \A c \in 1 .. BufferCount : buffers'[c].used => \E g \in Files : mine'[g] = c
      <4> TAKE c \in 1 .. BufferCount
      <4> HAVE buffers'[c].used
      <4>1. CASE c = b
        BY <2>2, <4>1
      <4>2. CASE c # b
        <5>1. PICK g \in Files : mine[g] = c
          BY <2>3, <4>2 DEF Inv, BuffersOwned
        <5>2. g # f
          BY <1>3, <5>1, FileAssumption
        <5> QED
          BY <2>2, <5>1, <5>2
      <4> QED
        BY <4>1, <4>2
    <3> QED
      BY <3>1, <3>2, <3>3 DEF BuffersOwned
  <2>7. Types'
    BY <1>1, <1>2, <1>6, <2>2, <2>3 DEF Types
  <2> QED
    BY <1>6, <2>4, <2>5, <2>6, <2>7 DEF Inv, Only
<1> QED
  BY <1>2, <1>3, <1>6, <1>9, <1>10 DEF x, taken

LEMMA OpenKeeps ==
  ASSUME Inv, Careful, NEW f \in Files, NEW m \in OpenModes, Open(f, m)
  PROVE  Inv' /\ (CarefulInv => CarefulInv' /\ Streams!Open(f, m))
<1> DEFINE x == [disk |-> IF m = "write" THEN <<>> ELSE os[f].disk, mode |-> m, pos |-> 0]
<1>1. PICK c : c = Buffer(f)'
  OBVIOUS
<1>2. /\ Inv' /\ Only(f) /\ ~HasBuffer(f) /\ os'[f] = x
      /\ c \in {NewBuffer, [NewBuffer EXCEPT !.used = TRUE]}
  BY <1>1, Opening
<1>3. ~c.writing /\ BytesLeft(c) = 0
  BY <1>2 DEF NewBuffer, BytesLeft
<1>4. ~IsOpen(f) /\ last' = Call("open", f, 0, <<>>) /\ written' = written
  BY DEF Open, CarefulOpen
<1>5. x.disk = (IF m = "write" THEN <<>> ELSE os[f].disk) /\ x.mode = m /\ x.pos = 0
  OBVIOUS
<1> HIDE DEF x
<1>6. After(x, c) = x /\ Where(x, c) = 0 /\ Unwritten(c) = <<>>
  <2>1. Where(x, c) = 0 - 0
    BY <1>3, <1>5 DEF Where
  <2> QED
    BY <1>3, <2>1 DEF After, Unwritten
<1>7. ASSUME CarefulInv
      PROVE  CarefulInv'
  <2>1. written \in Nat /\ written' >= written
    BY <1>4, TypesAre
  <2>2. Once(os[f].disk) /\ Bytes(os[f].disk) \subseteq Kept(os[f], Buffer(f))
    BY <1>7 DEF CarefulInv, Places, KeptOnce, Kept
  <2>3. KeepsBytes(f, x, c)
    BY <1>5, <1>6, <2>1, <2>2, NothingOnce DEF KeepsBytes, KeptOnce, Kept
  <2>4. ReadAhead(x, c)
    BY <1>3 DEF ReadAhead
  <2> QED
    BY <1>1, <1>2, <1>7, <2>3, <2>4, OnlyKeeps
<1>8. /\ Content' = [Content EXCEPT ![f] = x.disk] /\ Mode' = [Mode EXCEPT ![f] = m]
      /\ At' = [At EXCEPT ![f] = 0]
  BY <1>1, <1>2, <1>5, <1>6, StreamsBecome
<1>9. Content[f] = os[f].disk /\ Mode[f] = "closed"
  <2>1. Buffer(f) = NewBuffer
    BY <1>2, TypesAre
  <2>2. After(os[f], Buffer(f)) = os[f]
    BY <2>1 DEF After, NewBuffer
  <2> QED
    BY <1>4, <2>2, StreamsAre DEF IsOpen
<1>10. Content' = IF m = "write" THEN [Content EXCEPT ![f] = <<>>] ELSE Content
  <2>1. m # "write" => Content' = [Content EXCEPT ![f] = Content[f]]
    BY <1>5, <1>8, <1>9
  <2>2. m # "write" => Content' = Content
    BY <2>1 DEF Content
  <2> QED
    BY <1>5, <1>8, <2>2
<1>11. last' = Streams!Call("open", f, 0, <<>>)
  BY <1>4 DEF Call, Streams!Call
<1>12. Streams!Open(f, m)
  BY <1>4, <1>8, <1>9, <1>10, <1>11 DEF Streams!Open, Content, Mode, At
<1> QED
  BY <1>2, <1>7, <1>12

-----------------------------------------------------------------------------
(* The theorems. *)

LEMMA InitInv ==
  ASSUME Init
  PROVE  Inv /\ CarefulInv
<1>1. /\ os = [f \in Files |-> [disk |-> InitialBytes[f], mode |-> "closed", pos |-> 0]]
      /\ mine = [f \in Files |-> 0] /\ buffers = [b \in 1 .. BufferCount |-> NewBuffer]
      /\ written = 0 /\ failures = 0
  BY DEF Init
<1>2. \A f \in Files : /\ InitialBytes[f] \in Seq(Int)
                       /\ \A k \in 1 .. Len(InitialBytes[f]) : InitialBytes[f][k] <= 0
  <2> TAKE f \in Files
  <2> DEFINE s == InitialBytes[f]
  <2>1. s \in Seq({k \in Int : k <= 0})
    BY FileAssumption
  <2> HIDE DEF s
  <2>2. \A k \in 1 .. Len(s) : s[k] \in {j \in Int : j <= 0}
    BY <2>1, ElementOfSeq
  <2>3. s \in [1 .. Len(s) -> Int] /\ Len(s) \in Nat
    BY <2>1, <2>2, LenProperties
  <2>4. s \in Seq(Int)
    BY <2>3, FunctionIsSequence
  <2> QED
    BY <2>2, <2>4 DEF s
<1>3. Types
  <2>1. os \in [Files -> FileSet]
    BY <1>1, <1>2 DEF FileSet
  <2>2. mine \in [Files -> 0 .. BufferCount]
    BY <1>1, FileAssumption
  <2>3. buffers \in [1 .. BufferCount -> BufferSet]
    BY <1>1, NewBufferType
  <2>4. written \in 0 .. MaxBytes /\ failures \in 0 .. MaxFailures
    <3>1. 0 \in 0 .. MaxBytes /\ 0 \in 0 .. MaxFailures
      BY FileAssumption
    <3> QED
      BY <1>1, <3>1
  <2> QED
    BY <2>1, <2>2, <2>3, <2>4 DEF Types
<1>4. \A f \in Files : ~HasBuffer(f) /\ Buffer(f) = NewBuffer
  BY <1>1 DEF HasBuffer, Buffer
<1>5. BuffersOwned
  <2>1. \A b \in 1 .. BufferCount : ~buffers[b].used
    BY <1>1 DEF NewBuffer
  <2> QED
    BY <1>4, <2>1 DEF BuffersOwned
<1>6. ~NewBuffer.writing /\ Unwritten(NewBuffer) = <<>> /\ BytesLeft(NewBuffer) = 0
  BY DEF NewBuffer, Unwritten, BytesLeft
<1>7. \A f \in Files : KeptOnce(os[f], Buffer(f)) /\ Kept(os[f], Buffer(f)) = {}
  <2> TAKE f \in Files
  <2> DEFINE s == InitialBytes[f]
  <2>1. os[f].disk = s
    BY <1>1
  <2>2. \A k \in 1 .. Len(s) : ~(s[k] > 0) /\ s[k] \notin Nat \ {0}
    <3> TAKE k \in 1 .. Len(s)
    <3>1. s[k] \in Int /\ s[k] <= 0
      BY <1>2, ElementOfSeq
    <3> QED
      BY <3>1
  <2> HIDE DEF s
  <2>3. Once(s) /\ Bytes(s) = {}
    BY <2>2 DEF Once, Bytes
  <2> QED
    BY <1>4, <1>6, <2>1, <2>3, NothingOnce DEF KeptOnce, Kept
<1>8. \A f \in Files : ReadAhead(os[f], Buffer(f))
  BY <1>4, <1>6 DEF ReadAhead
<1> QED
  BY <1>3, <1>5, <1>7, <1>8 DEF Inv, CarefulInv, Places

(* What a step of careful callers keeps, and what it does to the streams.  *)
LEMMA StepInv ==
  ASSUME Inv, Careful, [Next]_vars
  PROVE  Inv' /\ (CarefulInv => CarefulInv' /\ [Streams!Next]_Streams!svars)
<1>1. CASE UNCHANGED vars
  <2>1. UNCHANGED <<os, mine, buffers, written>> /\ failures' = failures /\ last' = last
    BY <1>1 DEF vars
  <2>2. failures' \in 0 .. MaxFailures
    BY <2>1 DEF Inv, Types
  <2>3. /\ Inv' /\ (CarefulInv => CarefulInv')
        /\ Content' = Content /\ Mode' = Mode /\ At' = At
    BY <2>1, <2>2, NothingChanges
  <2>4. UNCHANGED Streams!svars
    BY <2>1, <2>3 DEF Streams!svars, Content, Mode, At
  <2> QED
    BY <2>3, <2>4
<1> USE DEF Streams!Next
<1>2. ASSUME NEW f \in Files, NEW m \in OpenModes, Open(f, m)
      PROVE  Inv' /\ (CarefulInv => CarefulInv' /\ Streams!Next)
  <2>1. m \in Streams!Modes
    BY FileAssumption DEF Streams!Modes
  <2> QED
    BY <1>2, <2>1, OpenKeeps
<1>3. ASSUME NEW f \in Files, NEW n \in ReadSizes, ReadBuffered(f, n) \/ ReadMore(f, n)
      PROVE  Inv' /\ (CarefulInv => CarefulInv' /\ Streams!Next)
  BY <1>3, ReadBufferedKeeps, ReadMoreKeeps
<1>4. ASSUME NEW f \in Files, NEW n \in WriteSizes,
             WriteBuffered(f, n) \/ WriteMore(f, n) \/ WriteFails(f, n) \/ DirectWriteFails(f, n)
      PROVE  Inv' /\ (CarefulInv => CarefulInv' /\ Streams!Next)
  BY <1>4, WriteBufferedKeeps, WriteMoreKeeps, WriteFailsKeeps, DirectWriteFailsKeeps
<1>5. ASSUME NEW f \in Files, NEW d \in Distances, SeekInside(f, d)
      PROVE  Inv' /\ (CarefulInv => CarefulInv' /\ Streams!Next)
  BY <1>5, SeekInsideKeeps
<1>6. ASSUME NEW f \in Files, NEW from \in {"begin", "current", "end"}, NEW d \in Distances,
             SeekOutside(f, from, d)
      PROVE  Inv' /\ (CarefulInv => CarefulInv' /\ Streams!Next)
  BY <1>6, SeekOutsideKeeps
<1>7. ASSUME NEW f \in Files, Flush(f) \/ FlushFails(f) \/ Close(f) \/ CloseLosing(f)
      PROVE  Inv' /\ (CarefulInv => CarefulInv' /\ Streams!Next)
  BY <1>7, FlushKeeps, FlushFailsKeeps, CloseKeeps, CloseLosingKeeps
<1> QED
  BY <1>1, <1>2, <1>3, <1>4, <1>5, <1>6, <1>7 DEF Next

LEMMA InvTypes ==
  ASSUME Inv
  PROVE  TypeOK
<1>1. \A f \in Files : os[f].mode \in OpenModes \cup {"closed"} /\ os[f].pos \in Nat
  BY DEF Inv, Types, FileSet
<1>2. ASSUME NEW b \in BufferSet
      PROVE  BufferOK(b)
  <2>1. DOMAIN b = DOMAIN NewBuffer
    BY DEF BufferSet, NewBuffer
  <2> DEFINE len == b.len
  <2> DEFINE offset == b.offset
  <2>2. len \in 0 .. BufferSize /\ offset \in 0 .. BufferSize /\ offset <= len /\ BufferSize \in Nat
    BY FileAssumption DEF BufferSet
  <2> HIDE DEF len, offset
  <2>3. len \in 0 .. BufferSize /\ offset \in 0 .. len
    BY <2>2
  <2>4. /\ b.used \in BOOLEAN /\ b.writing \in BOOLEAN
        /\ Len(b.data) = IF b.writing THEN b.offset ELSE b.len
    BY DEF BufferSet
  <2> QED
    BY <2>1, <2>3, <2>4 DEF BufferOK, len, offset
<1>3. \A b \in 1 .. BufferCount : BufferOK(buffers[b])
  BY <1>2 DEF Inv, Types
<1> QED
  BY <1>1, <1>3 DEF Inv, Types, TypeOK

LEMMA PlacesOnce ==
  ASSUME CarefulInv
  PROVE  EachByteOnce
<1> SUFFICES ASSUME NEW f \in Files, NEW g \in Files,
                    NEW i \in DOMAIN os[f].disk, NEW j \in DOMAIN os[g].disk,
                    os[f].disk[i] = os[g].disk[j], os[f].disk[i] > 0
             PROVE  f = g /\ i = j
  BY DEF EachByteOnce
<1>1. os[f].disk \in Seq(Int) /\ os[g].disk \in Seq(Int)
  BY TypesAre DEF CarefulInv, FileSet
<1>2. i \in 1 .. Len(os[f].disk) /\ j \in 1 .. Len(os[g].disk)
  BY <1>1, LenProperties
<1>3. os[f].disk[i] \in Int
  BY <1>1, <1>2, ElementOfSeq
<1>4. os[f].disk[i] \in Bytes(os[f].disk) /\ os[f].disk[i] \in Bytes(os[g].disk)
  BY <1>2, <1>3 DEF Bytes
<1>5. f = g
  BY <1>4 DEF CarefulInv, Places, Kept
<1>6. Once(os[f].disk)
  BY DEF CarefulInv, Places, KeptOnce
<1> QED
  BY <1>2, <1>5, <1>6 DEF Once

-----------------------------------------------------------------------------
(* What holds whatever callers do. *)

(* Who has a buffer has it alone, and it is not free. *)
Separate ==
  /\ \A f \in Files : HasBuffer(f) => mine[f] \in 1 .. BufferCount /\ buffers[mine[f]].used
  /\ \A f, g \in Files : HasBuffer(f) /\ mine[f] = mine[g] => f = g

Shape ==
  /\ mine \in [Files -> 0 .. BufferCount]
  /\ buffers = [c \in 1 .. BufferCount |-> buffers[c]]
  /\ \A c \in 1 .. BufferCount : DOMAIN buffers[c] = DOMAIN NewBuffer

InUse(b) == b.used /\ DOMAIN b = DOMAIN NewBuffer

LEMMA StaysInUse ==
  ASSUME NEW b, InUse(b), NEW offset, NEW data, NEW len, NEW writing
  PROVE  /\ InUse([b EXCEPT !.offset = offset])
         /\ InUse([b EXCEPT !.data = data, !.offset = offset])
         /\ InUse([b EXCEPT !.offset = offset, !.data = data])
         /\ InUse([b EXCEPT !.data = data, !.len = len, !.writing = writing, !.offset = offset])
  BY DEF InUse, NewBuffer

LEMMA FreshInUse == InUse([NewBuffer EXCEPT !.used = TRUE])
  BY DEF InUse, NewBuffer

LEMMA ItsInUse ==
  ASSUME Shape, Separate, NEW f \in Files, HasBuffer(f)
  PROVE  InUse(Buffer(f))
  BY DEF Shape, Separate, InUse, Buffer

(* A call that leaves a file its buffer changes what is in it, no more. *)
LEMMA SeparateStays ==
  ASSUME Shape, Separate, NEW f \in Files, mine' = mine, NEW b, SetBuffer(f, b),
         HasBuffer(f) => InUse(b)
  PROVE  (Shape /\ Separate)'
<1>1. \A c \in 1 .. BufferCount : buffers'[c] = IF c = mine[f] THEN b ELSE buffers[c]
  BY DEF SetBuffer
<1>2. buffers' = [c \in 1 .. BufferCount |-> buffers'[c]]
  BY DEF SetBuffer
<1>3. \A g \in Files : HasBuffer(g)' <=> HasBuffer(g)
  BY DEF HasBuffer
<1>4. \A c \in 1 .. BufferCount : c = mine[f] => HasBuffer(f)
  BY FileAssumption DEF HasBuffer
<1>5. Shape'
  BY <1>1, <1>2, <1>4 DEF Shape, InUse, NewBuffer
<1>6. Separate'
  BY <1>1, <1>3 DEF Separate, InUse
<1> QED
  BY <1>5, <1>6

LEMMA OpenSeparates ==
  ASSUME Shape, Separate, NEW f \in Files, NEW m, Open(f, m)
  PROVE  (Shape /\ Separate)'
<1> DEFINE taken == [NewBuffer EXCEPT !.used = TRUE]
<1>1. \/ mine' = mine /\ buffers' = buffers
      \/ \E b \in 1 .. BufferCount : /\ ~buffers[b].used
                                     /\ mine' = [mine EXCEPT ![f] = b]
                                     /\ buffers' = [buffers EXCEPT ![b] = taken]
  BY DEF Open
<1>2. CASE mine' = mine /\ buffers' = buffers
  BY <1>2 DEF Shape, Separate, HasBuffer
<1>3. ASSUME NEW b \in 1 .. BufferCount, ~buffers[b].used,
             mine' = [mine EXCEPT ![f] = b], buffers' = [buffers EXCEPT ![b] = taken]
      PROVE  (Shape /\ Separate)'
  <2>1. InUse(taken) /\ DOMAIN NewBuffer' = DOMAIN NewBuffer
    BY FreshInUse DEF NewBuffer
  <2> HIDE DEF taken
  <2>2. /\ \A g \in Files : mine'[g] = IF g = f THEN b ELSE mine[g]
        /\ \A c \in 1 .. BufferCount : buffers'[c] = IF c = b THEN taken ELSE buffers[c]
    BY <1>3 DEF Shape
  <2>3. Shape'
    <3>1. mine' \in [Files -> 0 .. BufferCount]
      BY <1>3, FileAssumption DEF Shape
    <3>2. buffers' = [c \in 1 .. BufferCount |-> buffers'[c]]
      BY <1>3 DEF Shape
    <3>3. \A c \in 1 .. BufferCount : DOMAIN buffers'[c] = DOMAIN NewBuffer
      BY <2>1, <2>2 DEF Shape, InUse
    <3> QED
      BY <2>1, <3>1, <3>2, <3>3 DEF Shape
  <2>4. \A g \in Files : HasBuffer(g) => mine[g] \in 1 .. BufferCount /\ buffers[mine[g]].used
                                        /\ mine[g] # b
    BY <1>3 DEF Separate
  <2>5. \A g \in Files : HasBuffer(g)' => g = f \/ HasBuffer(g)
    BY <2>2 DEF HasBuffer
  <2>6. Separate'
    <3>1. \A g \in Files : HasBuffer(g)' => mine'[g] \in 1 .. BufferCount /\ buffers'[mine'[g]].used
      BY <2>1, <2>2, <2>4, <2>5 DEF InUse
    <3>2. \A g \in Files : g # f => mine'[g] # b
      BY <2>2, <2>4, FileAssumption DEF HasBuffer
    <3>3. \A g, h \in Files : HasBuffer(g)' /\ mine'[g] = mine'[h] => g = h
      BY <2>2, <2>5, <3>2 DEF Separate
    <3> QED
      BY <3>1, <3>3 DEF Separate
  <2> QED
    BY <2>3, <2>6
<1> QED
  BY <1>1, <1>2, <1>3

LEMMA ClosedSeparates ==
  ASSUME Shape, Separate, NEW f \in Files, NEW disk, Closed(f, disk)
  PROVE  (Shape /\ Separate)'
<1>1. mine' = [mine EXCEPT ![f] = 0] /\ SetBuffer(f, NewBuffer)
  BY DEF Closed
<1>2. /\ \A g \in Files : mine'[g] = IF g = f THEN 0 ELSE mine[g]
      /\ \A c \in 1 .. BufferCount : buffers'[c] = IF c = mine[f] THEN NewBuffer ELSE buffers[c]
      /\ buffers' = [c \in 1 .. BufferCount |-> buffers'[c]]
  BY <1>1 DEF Shape, SetBuffer
<1>3. Shape'
  <2>1. mine' \in [Files -> 0 .. BufferCount]
    BY <1>1, FileAssumption DEF Shape
  <2>2. \A c \in 1 .. BufferCount : DOMAIN buffers'[c] = DOMAIN NewBuffer
    BY <1>2 DEF Shape
  <2>3. DOMAIN NewBuffer' = DOMAIN NewBuffer
    BY DEF NewBuffer
  <2> QED
    BY <1>2, <2>1, <2>2, <2>3 DEF Shape
<1>4. \A g \in Files : HasBuffer(g)' => g # f /\ HasBuffer(g)
  BY <1>2 DEF HasBuffer
<1>5. Separate'
  BY <1>2, <1>4 DEF Separate
<1> QED
  BY <1>3, <1>5

LEMMA StepSeparate ==
  ASSUME Shape, Separate, [Next]_vars
  PROVE  (Shape /\ Separate)'
<1>1. CASE UNCHANGED vars
  BY <1>1 DEF vars, Shape, Separate, HasBuffer
<1>2. ASSUME NEW f \in Files, NEW m \in OpenModes, Open(f, m)
      PROVE  (Shape /\ Separate)'
  BY <1>2, OpenSeparates
<1>3. ASSUME NEW f \in Files, NEW n \in ReadSizes, ReadBuffered(f, n)
      PROVE  (Shape /\ Separate)'
  BY <1>3, ItsInUse, StaysInUse, SeparateStays DEF ReadBuffered
<1>4. ASSUME NEW f \in Files, NEW n \in ReadSizes, ReadMore(f, n)
      PROVE  (Shape /\ Separate)'
  <2>1. HasBuffer(f) /\ mine' = mine
    BY <1>4 DEF ReadMore
  <2>2. PICK b : InUse(b) /\ SetBuffer(f, b)
    BY <1>4, <2>1, ItsInUse, StaysInUse DEF ReadMore
  <2> QED
    BY <2>1, <2>2, SeparateStays
<1>5. ASSUME NEW f \in Files, NEW n \in WriteSizes, WriteBuffered(f, n) \/ WriteFails(f, n)
      PROVE  (Shape /\ Separate)'
  <2>1. HasBuffer(f) /\ mine' = mine
    BY <1>5 DEF WriteBuffered, WriteFails, CanWrite
  <2>2. PICK b : InUse(b) /\ SetBuffer(f, b)
    BY <1>5, <2>1, ItsInUse, StaysInUse DEF WriteBuffered, WriteFails
  <2> QED
    BY <2>1, <2>2, SeparateStays
<1>6. ASSUME NEW f \in Files, NEW n \in WriteSizes, WriteMore(f, n) \/ DirectWriteFails(f, n)
      PROVE  (Shape /\ Separate)'
  <2>1. HasBuffer(f) /\ mine' = mine
    BY <1>6 DEF WriteMore, DirectWriteFails, CanWrite
  <2>2. PICK b : InUse(b) /\ SetBuffer(f, b)
    BY <1>6, <2>1, ItsInUse, StaysInUse DEF WriteMore, DirectWriteFails
  <2> QED
    BY <2>1, <2>2, SeparateStays
<1>7. ASSUME NEW f \in Files, HasBuffer(f)
      PROVE  InUse(FlushedBuffer(f))
  BY <1>7, ItsInUse, FreshInUse DEF FlushedBuffer
<1>8. ASSUME NEW f \in Files, NEW d \in Distances, SeekInside(f, d)
      PROVE  (Shape /\ Separate)'
  <2>1. HasBuffer(f) /\ mine' = mine
    BY <1>8 DEF SeekInside
  <2>2. PICK b : InUse(b) /\ SetBuffer(f, b)
    BY <1>8, <2>1, ItsInUse, StaysInUse DEF SeekInside
  <2> QED
    BY <2>1, <2>2, SeparateStays
<1>9. ASSUME NEW f \in Files, NEW from \in {"begin", "current", "end"}, NEW d \in Distances,
             SeekOutside(f, from, d)
      PROVE  (Shape /\ Separate)'
  <2>1. mine' = mine /\ SetBuffer(f, FlushedBuffer(f))
    BY <1>9 DEF SeekOutside
  <2> QED
    BY <1>7, <2>1, SeparateStays
<1>10. ASSUME NEW f \in Files, Flush(f)
       PROVE  (Shape /\ Separate)'
  <2>1. mine' = mine /\ SetBuffer(f, FlushedBuffer(f))
    BY <1>10 DEF Flush
  <2> QED
    BY <1>7, <2>1, SeparateStays
<1>11. ASSUME NEW f \in Files, FlushFails(f)
       PROVE  (Shape /\ Separate)'
  BY <1>11 DEF FlushFails, Shape, Separate, HasBuffer
<1>12. ASSUME NEW f \in Files, Close(f) \/ CloseLosing(f)
       PROVE  (Shape /\ Separate)'
  BY <1>12, ClosedSeparates DEF Close, CloseLosing
<1> QED
  BY <1>1, <1>2, <1>3, <1>4, <1>5, <1>6, <1>8, <1>9, <1>10, <1>11, <1>12 DEF Next

(* file.cpp, open and close: no two files share a buffer, and none that is *)
(* in use is given to another, whatever callers do: also when they open a  *)
(* file twice, seek backwards out of a buffer or mix reading and writing.  *)
THEOREM BuffersAreSeparate == Spec => []Separate
<1>1. Init => Shape /\ Separate
  <2> SUFFICES ASSUME Init
               PROVE  Shape /\ Separate
    OBVIOUS
  <2>1. mine = [f \in Files |-> 0] /\ buffers = [b \in 1 .. BufferCount |-> NewBuffer]
    BY DEF Init
  <2> QED
    BY <2>1, FileAssumption DEF Shape, Separate, HasBuffer
<1>2. Shape /\ Separate /\ [Next]_vars => (Shape /\ Separate)'
  BY StepSeparate
<1> QED
  BY <1>1, <1>2, PTL DEF Spec

-----------------------------------------------------------------------------
(* What holds when they are careful. *)

(* The inductive invariant holds as long as callers are careful: reopening *)
(* an open file leaks its buffer, and a seek backwards leaves the buffer   *)
(* (file.cpp:68 and 222 look at neither).                                  *)
THEOREM Invariance ==
  ASSUME Careful
  PROVE  Spec => []Inv
<1>1. Init => Inv
  BY InitInv
<1>2. Inv /\ [Next]_vars => Inv'
  BY StepInv
<1> QED
  BY <1>1, <1>2, PTL DEF Spec

(* file.cpp, open and close: with careful callers, and however many files  *)
(* there are, no two files share a buffer of the pool, and none is lost    *)
(* when its file is closed.                                                *)
THEOREM BuffersAreOwned ==
  ASSUME Careful
  PROVE  Spec => []BuffersOwned
<1>1. Inv => BuffersOwned
  BY DEF Inv
<1> QED
  BY <1>1, Invariance, PTL

(* file.cpp, read, write and seek: offset and len delimit the bytes that    *)
(* are in a buffer, however careful callers mix their calls and whatever   *)
(* the sizes are; a seek forwards that passes the end is one of the file.  *)
THEOREM OffsetsStay ==
  ASSUME Careful
  PROVE  Spec => []TypeOK
<1>1. Inv => TypeOK
  BY InvTypes
<1> QED
  BY <1>1, Invariance, PTL

(* file.cpp, flush and write: with careful callers a byte that was written *)
(* is also never in two places, however often flushing is tried again.     *)
THEOREM StaysWellFormed ==
  ASSUME Careful
  PROVE  Spec => []WellFormed
<1>1. Init => Inv /\ CarefulInv
  BY InitInv
<1>2. Inv /\ CarefulInv /\ [Next]_vars => (Inv /\ CarefulInv)'
  BY StepInv
<1>3. Inv /\ CarefulInv => WellFormed
  BY InvTypes, PlacesOnce DEF WellFormed
<1> QED
  BY <1>1, <1>2, <1>3, PTL DEF Spec

(* File_t with careful callers is the streams of ByteStreams: every call   *)
(* that returns does to content, mode and position what the stream does,   *)
(* and a read delivers the same bytes, for any number of files, buffers of *)
(* any size, and calls of any length in any order.                         *)
THEOREM Refinement ==
  ASSUME Careful
  PROVE  Spec => ImplementsStreams
<1>1. Init => Inv /\ CarefulInv
  BY InitInv
<1>2. Inv /\ CarefulInv /\ [Next]_vars => (Inv /\ CarefulInv)'
  BY StepInv
<1>3. Init => Streams!Init
  <2> SUFFICES ASSUME Init
               PROVE  Streams!Init
    OBVIOUS
  <2>1. /\ os = [f \in Files |-> [disk |-> InitialBytes[f], mode |-> "closed", pos |-> 0]]
        /\ mine = [f \in Files |-> 0] /\ written = 0 /\ last = Call("none", "none", 0, <<>>)
    BY DEF Init
  <2>2. \A f \in Files : Buffer(f) = NewBuffer
    BY <2>1 DEF Buffer, HasBuffer
  <2>3. ~NewBuffer.writing /\ BytesLeft(NewBuffer) = 0
    BY DEF NewBuffer, BytesLeft
  <2>4. \A f \in Files : FlushedFile(f) = os[f]
    BY <2>2, <2>3 DEF FlushedFile, Pending
  <2>5. \A f \in Files : os[f].disk \in Seq(Int) /\ os[f].mode = "closed" /\ os[f].pos = 0
    BY <2>1, InitInv, TypesAre DEF FileSet
  <2>6. Content \in [Files -> Seq(Int)] /\ Mode = [f \in Files |-> "closed"]
    BY <2>4, <2>5 DEF Content, Mode
  <2>7. At = [f \in Files |-> 0]
    <3>1. \A f \in Files : (IF Buffer(f).writing THEN FlushedFile(f).pos
                            ELSE os[f].pos - BytesLeft(Buffer(f))) = 0
      <4> TAKE f \in Files
      <4>1. os[f].pos - BytesLeft(Buffer(f)) = 0 - 0
        BY <2>2, <2>3, <2>5
      <4> QED
        BY <2>2, <2>3, <4>1
    <3> QED
      BY <3>1 DEF At
  <2>8. last = Streams!Call("none", "none", 0, <<>>)
    BY <2>1 DEF Call, Streams!Call
  <2> QED
    BY <2>1, <2>6, <2>7, <2>8 DEF Streams!Init, Content, Mode, At
<1>4. Inv /\ CarefulInv /\ [Next]_vars => [Streams!Next]_Streams!svars
  BY StepInv
<1> QED
  BY <1>1, <1>2, <1>3, <1>4, PTL DEF Spec, ImplementsStreams, Streams!Spec
====
