---------------------------- MODULE AymFilesProofs ----------------------------
(***************************************************************************)
(* The bytecode files, for any number of processes, programs, runs of main *)
(* and damages.  That a load is whole rests on the checksum: of two blobs  *)
(* of one length, one of which is nowhere greater than the other, the sums *)
(* are equal only if the blobs are, when no sum wraps.  Sums are computed  *)
(* by recursion, and what is proved of them is by induction, in the form   *)
(* that no set has a least counterexample.                                 *)
(***************************************************************************)
EXTENDS AymFiles, SequenceTheorems, WellFoundedInduction, TLAPS

-----------------------------------------------------------------------------
(* Induction                                                                 *)

LEMMA LeastOne ==
  ASSUME NEW T, T \subseteq Nat, T # {}
  PROVE  \E x \in T : \A y \in T : x <= y
<1>1. PICK x \in T : \A y \in T : ~(<<y, x>> \in OpToRel(<, Nat))
  BY NatLessThanWellFounded, WFMin
<1>2. ASSUME NEW y \in T PROVE x <= y
  <2> DEFINE pair == <<y, x>>
  <2>1. pair \in Nat \X Nat /\ pair[1] = y /\ pair[2] = x
    OBVIOUS
  <2>2. pair \in OpToRel(<, Nat) <=> pair[1] < pair[2]
    BY <2>1, Zenon DEF OpToRel
  <2>3. ~(y < x)
    BY <1>1, <2>1, <2>2, Zenon
  <2> QED
    BY <2>3
<1> QED
  BY <1>2

LEMMA InductionOn ==
  ASSUME NEW T, 0 \in T, \A n \in Nat : n \in T => n + 1 \in T
  PROVE  Nat \subseteq T
<1> SUFFICES ASSUME Nat \ T # {} PROVE FALSE
  OBVIOUS
<1>1. PICK x \in Nat \ T : \A y \in Nat \ T : x <= y
  BY LeastOne
<1>2. x # 0 /\ x - 1 \in Nat /\ ~(x <= x - 1) /\ (x - 1) + 1 = x
  BY <1>1
<1>3. x - 1 \in T
  BY <1>1, <1>2
<1> QED
  BY <1>1, <1>2, <1>3

-----------------------------------------------------------------------------
(* Checksums                                                                 *)

\* The sums of a blob's first n bytes.
SumsOf(f, n, data) ==
  f = [k \in 0 .. n |-> IF k = 0 THEN 0 ELSE (f[k - 1] + data[k]) % SumSize]

LEMMA SumsExist ==
  ASSUME NEW data, NEW n \in Nat
  PROVE  \E f : SumsOf(f, n, data)
<1> DEFINE T == {m \in Nat : \E f : SumsOf(f, m, data)}
<1>1. 0 \in T
  <2>1. SumsOf([k \in 0 .. 0 |-> 0], 0, data)
    BY DEF SumsOf
  <2> QED
    BY <2>1
<1>2. ASSUME NEW m \in Nat, m \in T PROVE m + 1 \in T
  <2>1. PICK f : SumsOf(f, m, data)
    BY <1>2
  <2>2. PICK g : g = [k \in 0 .. m + 1 |->
                        IF k = m + 1 THEN (f[m] + data[k]) % SumSize ELSE f[k]]
    OBVIOUS
  <2>3. ASSUME NEW k \in 0 .. m + 1
        PROVE  g[k] = IF k = 0 THEN 0 ELSE (g[k - 1] + data[k]) % SumSize
    <3>1. CASE k = m + 1
      <4>1. k - 1 = m /\ m \in 0 .. m + 1 /\ m # m + 1
        BY <3>1
      <4> QED
        BY <2>2, <3>1, <4>1
    <3>2. CASE k # m + 1
      <4>1. k \in 0 .. m /\ (k # 0 => k - 1 \in 0 .. m + 1 /\ k - 1 # m + 1)
        BY <3>2
      <4>2. f[k] = IF k = 0 THEN 0 ELSE (f[k - 1] + data[k]) % SumSize
        BY <2>1, <4>1 DEF SumsOf
      <4>3. g[k] = f[k] /\ (k # 0 => g[k - 1] = f[k - 1])
        BY <2>2, <3>2, <4>1
      <4> QED
        BY <4>2, <4>3
    <3> QED
      BY <3>1, <3>2
  <2>4. SumsOf(g, m + 1, data)
    BY <2>2, <2>3 DEF SumsOf
  <2> QED
    BY <2>4
<1>3. Nat \subseteq T
  <2> HIDE DEF T
  <2> QED
    BY <1>1, <1>2, InductionOn
<1> QED
  BY <1>3

\* The sums that compute_checksum takes the last of.
Sums(data) ==
  LET sum[k \in 0 .. Len(data)] == IF k = 0 THEN 0 ELSE (sum[k - 1] + data[k]) % SumSize
  IN sum

LEMMA SumsFacts ==
  ASSUME NEW data \in Seq(Byte)
  PROVE  /\ compute_checksum(data) = Sums(data)[Len(data)]
         /\ Sums(data)[0] = 0
         /\ \A k \in 1 .. Len(data) : Sums(data)[k] = (Sums(data)[k - 1] + data[k]) % SumSize
         /\ \A k \in 0 .. Len(data) : Sums(data)[k] \in 0 .. SumSize - 1
<1> DEFINE s == Sums(data)
<1>1. compute_checksum(data) = s[Len(data)]
  BY DEF compute_checksum, Sums
<1>2. Len(data) \in Nat /\ \A k \in 1 .. Len(data) : data[k] \in Nat
  BY FilesAssumption DEF Byte
<1>3. SumsOf(s, Len(data), data)
  <2>1. \E f : SumsOf(f, Len(data), data)
    BY <1>2, SumsExist
  <2> QED
    BY <2>1 DEF Sums, SumsOf
<1> HIDE DEF s
<1>4. \A k \in 0 .. Len(data) : s[k] = IF k = 0 THEN 0 ELSE (s[k - 1] + data[k]) % SumSize
  BY <1>3 DEF SumsOf
<1>5. s[0] = 0 /\ \A k \in 1 .. Len(data) : s[k] = (s[k - 1] + data[k]) % SumSize
  BY <1>2, <1>4
<1> DEFINE T == {m \in Nat : m <= Len(data) => s[m] \in 0 .. SumSize - 1}
<1>6. 0 \in T
  BY <1>5, FilesAssumption
<1>7. ASSUME NEW m \in Nat, m \in T PROVE m + 1 \in T
  <2> SUFFICES ASSUME m + 1 <= Len(data) PROVE s[m + 1] \in 0 .. SumSize - 1
    OBVIOUS
  <2>1. m + 1 \in 1 .. Len(data) /\ (m + 1) - 1 = m /\ m <= Len(data)
    BY <1>2
  <2>2. s[m + 1] = (s[m] + data[m + 1]) % SumSize
    BY <1>5, <2>1
  <2>3. s[m] + data[m + 1] \in Nat
    BY <1>2, <1>7, <2>1, FilesAssumption
  <2> QED
    BY <2>2, <2>3, FilesAssumption
<1>8. Nat \subseteq T
  <2> HIDE DEF T
  <2> QED
    BY <1>6, <1>7, InductionOn
<1>9. \A k \in 0 .. Len(data) : s[k] \in 0 .. SumSize - 1
  BY <1>2, <1>8
<1> QED
  BY <1>1, <1>5, <1>9 DEF s

\* The sums of a blob that is short enough do not wrap.
LEMMA NoneWraps ==
  ASSUME NEW data \in Seq(Byte), Len(data) * (ByteSize - 1) < SumSize
  PROVE  \A k \in 1 .. Len(data) : Sums(data)[k] = Sums(data)[k - 1] + data[k]
<1> DEFINE s == Sums(data)
<1>1. PICK c \in Nat : c = ByteSize - 1
  BY FilesAssumption
<1>2. Len(data) \in Nat /\ \A k \in 1 .. Len(data) : data[k] \in 0 .. c
  BY <1>1 DEF Byte
<1>3. /\ s[0] = 0
      /\ \A k \in 1 .. Len(data) : s[k] = (s[k - 1] + data[k]) % SumSize
      /\ \A k \in 0 .. Len(data) : s[k] \in 0 .. SumSize - 1
  BY SumsFacts
<1> HIDE DEF s
<1>4. ASSUME NEW m \in Nat, m + 1 <= Len(data), s[m] <= m * c
      PROVE  s[m + 1] = s[m] + data[m + 1] /\ s[m + 1] <= (m + 1) * c
  <2>1. m + 1 \in 1 .. Len(data) /\ m \in 0 .. Len(data) /\ (m + 1) - 1 = m
    BY <1>2, <1>4
  <2>2. s[m + 1] = (s[m] + data[m + 1]) % SumSize /\ s[m] \in Nat /\ data[m + 1] \in 0 .. c
    BY <1>2, <1>3, <2>1
  <2>3. /\ (m + 1) * c = m * c + c /\ m * c \in Nat
        /\ (m + 1) * c <= Len(data) * c /\ Len(data) * c < SumSize
    <3>1. PICK d \in Nat : Len(data) = (m + 1) + d
      <4>1. Len(data) - (m + 1) \in Nat /\ Len(data) = (m + 1) + (Len(data) - (m + 1))
        BY <1>2, <1>4
      <4> QED
        BY <4>1
    <3>2. d * c \in Nat /\ ((m + 1) + d) * c = (m + 1) * c + d * c
      OBVIOUS
    <3>3. (m + 1) * c = m * c + c /\ m * c \in Nat
      OBVIOUS
    <3> QED
      BY <1>1, <3>1, <3>2, <3>3
  <2>4. s[m] + data[m + 1] <= (m + 1) * c
    BY <1>4, <2>2, <2>3
  <2>5. PICK x \in Nat : x = s[m] + data[m + 1]
    BY <2>2
  <2>6. PICK top \in Nat : top = (m + 1) * c /\ top < SumSize
    <3>1. PICK n \in Nat : n = m + 1
      OBVIOUS
    <3>2. n * c \in Nat /\ Len(data) * c \in Nat
      BY <1>2
    <3>3. n * c <= Len(data) * c /\ Len(data) * c < SumSize
      BY <2>3, <3>1, Zenon
    <3>4. n * c < SumSize
      BY <3>2, <3>3, FilesAssumption
    <3> QED
      BY <3>1, <3>2, <3>4, Zenon
  <2>7. x % SumSize = x
    <3>1. x <= top
      BY <2>4, <2>5, <2>6, Zenon
    <3>2. x < SumSize
      BY <2>6, <3>1, FilesAssumption
    <3> QED
      BY <3>2, FilesAssumption
  <2> QED
    BY <2>2, <2>4, <2>5, <2>7
<1> DEFINE T == {m \in Nat : m <= Len(data) => s[m] <= m * c}
<1>5. 0 \in T
  BY <1>1, <1>3
<1>6. ASSUME NEW m \in Nat, m \in T PROVE m + 1 \in T
  <2> SUFFICES ASSUME m + 1 <= Len(data) PROVE s[m + 1] <= (m + 1) * c
    OBVIOUS
  <2>1. m <= Len(data)
    BY <1>2
  <2> QED
    BY <1>4, <1>6, <2>1
<1>7. Nat \subseteq T
  <2> HIDE DEF T
  <2> QED
    BY <1>5, <1>6, InductionOn
<1>8. ASSUME NEW k \in 1 .. Len(data) PROVE s[k] = s[k - 1] + data[k]
  <2>1. k - 1 \in Nat /\ (k - 1) + 1 = k /\ k <= Len(data) /\ k - 1 <= Len(data)
    BY <1>2
  <2>2. s[k - 1] <= (k - 1) * c
    BY <1>7, <2>1
  <2> QED
    BY <1>4, <2>1, <2>2
<1> QED
  BY <1>8 DEF s

\* What has the sum of a blob, and no byte greater than the blob's, is the blob.
LEMMA SumTells ==
  ASSUME NEW b \in Seq(Byte), Len(b) * (ByteSize - 1) < SumSize,
         NEW a \in Seq(Byte), Len(a) = Len(b), \A k \in 1 .. Len(b) : a[k] <= b[k],
         compute_checksum(a) = compute_checksum(b)
  PROVE  a = b
<1> DEFINE s == Sums(a)
           t == Sums(b)
<1>1. Len(b) \in Nat /\ \A k \in 1 .. Len(b) : a[k] \in Nat /\ b[k] \in Nat
  BY FilesAssumption DEF Byte
<1>2. /\ s[0] = 0 /\ t[0] = 0 /\ s[Len(b)] = t[Len(b)]
      /\ \A k \in 0 .. Len(b) : s[k] \in Nat /\ t[k] \in Nat
      /\ \A k \in 1 .. Len(b) : s[k] = s[k - 1] + a[k] /\ t[k] = t[k - 1] + b[k]
  <2>1. /\ s[0] = 0 /\ compute_checksum(a) = s[Len(a)]
        /\ \A k \in 0 .. Len(a) : s[k] \in 0 .. SumSize - 1
    BY SumsFacts
  <2>2. /\ t[0] = 0 /\ compute_checksum(b) = t[Len(b)]
        /\ \A k \in 0 .. Len(b) : t[k] \in 0 .. SumSize - 1
    BY SumsFacts
  <2>3. \A k \in 1 .. Len(a) : s[k] = s[k - 1] + a[k]
    BY NoneWraps
  <2>4. \A k \in 1 .. Len(b) : t[k] = t[k - 1] + b[k]
    BY NoneWraps
  <2> HIDE DEF s, t
  <2>5. \A k \in 0 .. Len(b) : s[k] \in Nat /\ t[k] \in Nat
    BY <2>1, <2>2, FilesAssumption
  <2>6. \A k \in 1 .. Len(b) : s[k] = s[k - 1] + a[k] /\ t[k] = t[k - 1] + b[k]
    BY <2>3, <2>4
  <2> QED
    BY <2>1, <2>2, <2>5, <2>6
<1> HIDE DEF s, t
<1> DEFINE T == {m \in Nat : m <= Len(b) =>
                   /\ s[m] <= t[m]
                   /\ s[m] = t[m] => \A j \in 1 .. m : a[j] = b[j]}
<1>3. 0 \in T
  BY <1>2
<1>4. ASSUME NEW m \in Nat, m \in T PROVE m + 1 \in T
  <2> SUFFICES ASSUME m + 1 <= Len(b)
               PROVE  /\ s[m + 1] <= t[m + 1]
                      /\ s[m + 1] = t[m + 1] => \A j \in 1 .. m + 1 : a[j] = b[j]
    OBVIOUS
  <2>1. /\ m + 1 \in 1 .. Len(b) /\ m \in 0 .. Len(b) /\ m + 1 \in 0 .. Len(b)
        /\ (m + 1) - 1 = m /\ m <= Len(b)
    BY <1>1
  <2>2. s[m] <= t[m] /\ (s[m] = t[m] => \A j \in 1 .. m : a[j] = b[j])
    BY <1>4, <2>1
  <2>3. /\ s[m + 1] = s[m] + a[m + 1] /\ t[m + 1] = t[m] + b[m + 1]
        /\ a[m + 1] <= b[m + 1] /\ a[m + 1] \in Nat /\ b[m + 1] \in Nat
        /\ s[m] \in Nat /\ t[m] \in Nat
    BY <1>1, <1>2, <2>1
  <2>4. s[m + 1] <= t[m + 1]
    BY <2>2, <2>3
  <2>5. ASSUME s[m + 1] = t[m + 1], NEW j \in 1 .. m + 1 PROVE a[j] = b[j]
    <3>1. s[m] = t[m] /\ a[m + 1] = b[m + 1]
      BY <2>2, <2>3, <2>5
    <3>2. j = m + 1 \/ j \in 1 .. m
      OBVIOUS
    <3> QED
      BY <2>2, <3>1, <3>2
  <2> QED
    BY <2>4, <2>5
<1>5. Nat \subseteq T
  <2> HIDE DEF T
  <2> QED
    BY <1>3, <1>4, InductionOn
<1>6. \A j \in 1 .. Len(b) : a[j] = b[j]
  BY <1>1, <1>2, <1>5
<1> QED
  BY <1>6, SeqEqual

-----------------------------------------------------------------------------
(* The inductive invariant                                                   *)

Texts == Blobs \cup {<<>>}
Writers == [id : Procs, blob : Texts]
Runs ==
  [pc : {"write", "writing", "load", "header", "bytes", "decode", "over"},
   blob : Texts, sent : Nat, got : Files, seen : SUBSET Writers,
   bytecode : Seq(Byte), out_size : Nat, loaded : Statuses]

Checked(r) == r.pc = "decode" /\ r.loaded = "AYM_OK"

\* What a run of main holds, whatever the file.
RunOK(r) ==
  /\ r \in Runs /\ r.sent <= 1 + Len(r.blob) /\ r.bytecode = r.blob
  /\ Len(r.got.body) <= r.got.head.bytecode_size
  /\ r.pc \in {"write", "writing", "load", "header", "over"} => r.got = EmptyFile
  /\ ~Checked(r) => r.out_size = Len(r.blob)
  /\ Checked(r) => /\ r.got.head.bytecode_size = Len(r.got.body) /\ Verifies(r.got)
                   /\ r.out_size = Len(r.got.body)

\* Its header is the header of one of its writers, and its bytes are bytes of
\* theirs, or zeros that no writer has written yet.
FromWriters(f, ws) ==
  /\ f.head.kind = "good" => \E w \in ws : f.head = HeaderOf(w.blob)
  /\ \A k \in DOMAIN f.body :
       f.body[k] = 0 \/ \E w \in ws : k \in DOMAIN w.blob /\ f.body[k] = w.blob[k]

GotClean(r) ==
  r.pc = "bytes" \/ Checked(r) => r.got.head.kind = "good" /\ FromWriters(r.got, r.seen)

IInv ==
  /\ exists \in BOOLEAN /\ file \in Files /\ writers \subseteq Writers
  /\ starts \in 0 .. MaxStarts /\ errors \in 0 .. MaxErrors
  /\ proc \in [Procs -> Runs] /\ \A p \in Procs : RunOK(proc[p])
  /\ errors = 0 => FromWriters(file, writers) /\ \A p \in Procs : GotClean(proc[p])

LEMMA TextsAre == \A b \in Texts : b \in Seq(Byte) /\ Len(b) \in Nat
BY FilesAssumption, EmptySeq DEF Texts

LEMMA HeadersAre ==
  /\ NoHeader \in Headers /\ ZeroHeader \in Headers
  /\ NoHeader.kind = "none" /\ ZeroHeader.kind = "bad" /\ NoHeader.bytecode_size = 0
  /\ EmptyFile \in Files /\ EmptyFile.body = <<>> /\ EmptyFile.head = NoHeader
  /\ \A b \in Texts : /\ HeaderOf(b) \in Headers /\ HeaderOf(b).kind = "good"
                       /\ HeaderOf(b).bytecode_size = Len(b)
                       /\ HeaderOf(b).checksum = compute_checksum(b)
<1>1. 0 \in 0 .. SumSize - 1
  BY FilesAssumption
<1>2. /\ NoHeader \in Headers /\ ZeroHeader \in Headers
      /\ NoHeader.kind = "none" /\ ZeroHeader.kind = "bad" /\ NoHeader.bytecode_size = 0
  BY <1>1 DEF NoHeader, ZeroHeader, Headers
<1>3. EmptyFile \in Files /\ EmptyFile.body = <<>> /\ EmptyFile.head = NoHeader
  BY <1>2, EmptySeq DEF EmptyFile, Files
<1>4. ASSUME NEW b \in Texts
      PROVE  /\ HeaderOf(b) \in Headers /\ HeaderOf(b).kind = "good"
             /\ HeaderOf(b).bytecode_size = Len(b)
             /\ HeaderOf(b).checksum = compute_checksum(b)
  <2>1. b \in Seq(Byte) /\ Len(b) \in Nat
    BY TextsAre
  <2>2. Len(b) \in 0 .. Len(b)
    BY <2>1
  <2>3. compute_checksum(b) \in 0 .. SumSize - 1
    BY <2>1, <2>2, SumsFacts
  <2> QED
    BY <2>1, <2>3 DEF HeaderOf, Headers
<1> QED
  BY <1>2, <1>3, <1>4

LEMMA StartedIs ==
  ASSUME NEW b \in Texts
  PROVE  /\ Started(b) \in Runs /\ RunOK(Started(b)) /\ GotClean(Started(b))
         /\ Started(b).pc = "write" /\ Started(b).blob = b
<1> DEFINE r == Started(b)
<1>1. b \in Seq(Byte) /\ Len(b) \in Nat
  BY TextsAre
<1>2. /\ r \in Runs /\ r.pc = "write" /\ r.blob = b /\ r.sent = 0 /\ r.bytecode = b
      /\ r.got = EmptyFile /\ r.out_size = Len(b)
  BY <1>1, HeadersAre DEF Started, Runs, Statuses
<1>3. Len(r.got.body) <= r.got.head.bytecode_size
  BY <1>2, HeadersAre
<1> HIDE DEF r
<1>4. ~Checked(r)
  BY <1>2 DEF Checked
<1>5. RunOK(r) /\ GotClean(r)
  BY <1>1, <1>2, <1>3, <1>4 DEF RunOK, GotClean
<1> QED
  BY <1>2, <1>5 DEF r

LEMMA OverIs == Over \in Runs /\ RunOK(Over) /\ GotClean(Over) /\ Over.pc = "over"
<1> DEFINE r == Started(<<>>)
<1>1. <<>> \in Texts
  BY DEF Texts
<1>2. r \in Runs /\ RunOK(r) /\ r.pc = "write"
  BY <1>1, StartedIs
<1>3. Over = [r EXCEPT !.pc = "over"]
  BY DEF Over
<1> HIDE DEF r
<1>4. /\ Over \in Runs /\ Over.pc = "over" /\ Over.blob = r.blob /\ Over.sent = r.sent
      /\ Over.bytecode = r.bytecode /\ Over.got = r.got /\ Over.out_size = r.out_size
  BY <1>2, <1>3 DEF Runs
<1>5. ~Checked(Over) /\ ~Checked(r)
  BY <1>2, <1>4 DEF Checked
<1> QED
  BY <1>2, <1>4, <1>5 DEF RunOK, GotClean

LEMMA InitInv == Init => IInv
<1> SUFFICES ASSUME Init PROVE IInv
  OBVIOUS
<1>1. proc \in [Procs -> Runs] /\ \A p \in Procs : proc[p] = Over
  BY OverIs DEF Init
<1>2. \A p \in Procs : RunOK(proc[p]) /\ GotClean(proc[p])
  BY <1>1, OverIs
<1>3. file \in Files /\ FromWriters(file, writers)
  BY HeadersAre DEF Init, FromWriters
<1>4. exists \in BOOLEAN /\ writers \subseteq Writers
  BY Zenon DEF Init
<1>5. starts \in 0 .. MaxStarts /\ errors \in 0 .. MaxErrors
  BY FilesAssumption DEF Init
<1> QED
  BY <1>1, <1>2, <1>3, <1>4, <1>5 DEF IInv

\* A step of one run of main, to r.
LEMMA RunStep ==
  ASSUME IInv, NEW p \in Procs, NEW r, proc' = [proc EXCEPT ![p] = r],
         RunOK(r), errors = 0 => GotClean(r),
         exists' \in BOOLEAN, file' \in Files, writers' \subseteq Writers,
         starts' \in 0 .. MaxStarts, errors' = errors,
         errors = 0 => FromWriters(file', writers')
  PROVE  IInv'
<1>1. r \in Runs
  BY DEF RunOK
<1>2. /\ proc' \in [Procs -> Runs]
      /\ \A q \in Procs : proc'[q] = IF q = p THEN r ELSE proc[q]
  BY <1>1 DEF IInv
<1>3. ASSUME NEW q \in Procs
      PROVE  RunOK(proc'[q]) /\ (errors = 0 => GotClean(proc'[q]))
  <2>1. RunOK(proc[q]) /\ (errors = 0 => GotClean(proc[q]))
    BY DEF IInv
  <2> QED
    BY <1>2, <2>1
<1> QED
  BY <1>2, <1>3, Zenon DEF IInv

LEMMA StartKeeps == ASSUME IInv, NEW p \in Procs, Start(p) PROVE IInv'
<1>1. PICK b \in Blobs : proc' = [proc EXCEPT ![p] = Started(b)]
  BY DEF Start
<1>2. /\ starts' = starts + 1 /\ starts < MaxStarts
      /\ UNCHANGED <<exists, file, writers, errors>>
  BY DEF Start
<1>3. starts' \in 0 .. MaxStarts
  BY <1>2, FilesAssumption DEF IInv
<1>4. RunOK(Started(b)) /\ GotClean(Started(b))
  BY StartedIs DEF Texts
<1> QED
  BY <1>1, <1>2, <1>3, <1>4, RunStep DEF IInv

\* The file is left alone.
LEMMA OwnStep ==
  ASSUME IInv, NEW p \in Procs, NEW r, proc' = [proc EXCEPT ![p] = r],
         RunOK(r), errors = 0 => GotClean(r),
         UNCHANGED <<exists, file, writers, starts, errors>>
  PROVE  IInv'
BY RunStep DEF IInv

LEMMA WrittenKeeps ==
  ASSUME IInv, NEW p \in Procs, Written(p), At(p, "write") \/ At(p, "writing"),
         UNCHANGED <<exists, file, writers, starts, errors>>
  PROVE  IInv'
<1> DEFINE r == proc[p]
           new == [r EXCEPT !.pc = "load", !.sent = 0]
<1>1. RunOK(r) /\ r.pc \in {"write", "writing"}
  BY DEF IInv, At
<1>2. proc' = [proc EXCEPT ![p] = new]
  BY DEF Written
<1>3. /\ new \in Runs /\ new.pc = "load" /\ new.blob = r.blob /\ new.sent = 0
      /\ new.bytecode = r.bytecode /\ new.got = r.got /\ new.out_size = r.out_size
  BY <1>1 DEF RunOK, Runs
<1> HIDE DEF r, new
<1>4. ~Checked(new) /\ ~Checked(r)
  BY <1>1, <1>3 DEF Checked
<1>5. Len(new.blob) \in Nat
  BY <1>3, TextsAre DEF Runs
<1>6. RunOK(new) /\ GotClean(new)
  BY <1>1, <1>3, <1>4, <1>5 DEF RunOK, GotClean
<1> QED
  BY <1>2, <1>6, OwnStep

LEMMA DecodeKeeps == ASSUME IInv, NEW p \in Procs, Decode(p) \/ Die(p) PROVE IInv'
BY OverIs, OwnStep DEF Decode, Die

LEMMA OpenWriteKeeps == ASSUME IInv, NEW p \in Procs, OpenWrite(p) PROVE IInv'
<1> DEFINE r == proc[p]
           new == [r EXCEPT !.pc = "writing"]
<1>1. /\ RunOK(r) /\ r.pc = "write" /\ proc' = [proc EXCEPT ![p] = new]
      /\ exists' = TRUE /\ file' = EmptyFile /\ writers' = {Me(p)}
      /\ starts' = starts /\ errors' = errors
  BY DEF OpenWrite, IInv, At
<1>2. /\ new \in Runs /\ new.pc = "writing" /\ new.blob = r.blob /\ new.sent = r.sent
      /\ new.bytecode = r.bytecode /\ new.got = r.got /\ new.out_size = r.out_size
  BY <1>1 DEF RunOK, Runs
<1>3. writers' \subseteq Writers
  BY <1>1 DEF Me, Writers, RunOK, Runs
<1> HIDE DEF r, new
<1>4. ~Checked(new) /\ ~Checked(r)
  BY <1>1, <1>2 DEF Checked
<1>5. RunOK(new) /\ GotClean(new)
  BY <1>1, <1>2, <1>4 DEF RunOK, GotClean
<1>6. file' \in Files /\ FromWriters(file', writers')
  BY <1>1, HeadersAre DEF FromWriters
<1>7. exists' \in BOOLEAN /\ starts' \in 0 .. MaxStarts
  BY <1>1 DEF IInv
<1> QED
  BY <1>1, <1>3, <1>5, <1>6, <1>7, RunStep

\* Every byte of o is at its place in one of the two, or 0.
FromEither(o, blob, old) ==
  \A k \in DOMAIN o :
    \/ k \in DOMAIN blob /\ o[k] = blob[k]
    \/ k \in DOMAIN old /\ o[k] = old[k]
    \/ o[k] = 0

LEMMA OverlaidIs ==
  ASSUME NEW body \in Seq(Byte), NEW blob \in Seq(Byte), NEW lo \in Nat, NEW hi \in Nat,
         hi <= Len(blob), NEW o, o = Overlaid(body, blob, lo, hi)
  PROVE  o \in Seq(Byte) /\ FromEither(o, blob, body)
<1>1. PICK m \in Nat : m = IF hi > Len(body) THEN hi ELSE Len(body)
  OBVIOUS
<1>2. o = [k \in 1 .. m |->
             IF k \in lo .. hi THEN blob[k] ELSE IF k <= Len(body) THEN body[k] ELSE 0]
  BY <1>1 DEF Overlaid
<1>3. ASSUME NEW k \in 1 .. m
      PROVE  /\ o[k] \in Byte
             /\ \/ k \in DOMAIN blob /\ o[k] = blob[k]
                \/ k \in DOMAIN body /\ o[k] = body[k]
                \/ o[k] = 0
  <2>1. CASE k \in lo .. hi
    <3>1. k \in 1 .. Len(blob) /\ o[k] = blob[k]
      BY <1>2, <2>1
    <3> QED
      BY <3>1
  <2>2. CASE k \notin lo .. hi /\ k <= Len(body)
    <3>1. k \in 1 .. Len(body) /\ o[k] = body[k]
      BY <1>2, <2>2
    <3> QED
      BY <3>1
  <2>3. CASE k \notin lo .. hi /\ ~(k <= Len(body))
    <3>1. o[k] = 0
      BY <1>2, <2>3
    <3> QED
      BY <3>1, FilesAssumption DEF Byte
  <2> QED
    BY <2>1, <2>2, <2>3
<1>4. o \in [1 .. m -> Byte]
  BY <1>2, <1>3
<1>5. o \in Seq(Byte)
  BY <1>4, SeqDef, Zenon
<1>6. DOMAIN o = 1 .. m
  BY <1>2
<1> QED
  BY <1>3, <1>5, <1>6 DEF FromEither

LEMMA FlushKeeps == ASSUME IInv, NEW p \in Procs, NEW n \in Nat \ {0}, Flush(p, n) PROVE IInv'
<1> DEFINE r == proc[p]
           new == [r EXCEPT !.sent = @ + n]
           head == IF r.sent = 0 THEN HeaderOf(r.blob)
                   ELSE IF file.head.kind = "none" THEN ZeroHeader ELSE file.head
           bytes == Overlaid(file.body, r.blob, r.sent, r.sent + n - 1)
<1>1. /\ RunOK(r) /\ r.pc = "writing" /\ r.sent + n <= 1 + Len(r.blob)
      /\ proc' = [proc EXCEPT ![p] = new]
      /\ file' = [head |-> head, body |-> bytes] /\ writers' = writers \cup {Me(p)}
      /\ UNCHANGED <<exists, starts, errors>>
  BY DEF Flush, IInv, At
<1>2. /\ r \in Runs /\ r.blob \in Texts /\ r.sent \in Nat
      /\ r.blob \in Seq(Byte) /\ Len(r.blob) \in Nat
  BY <1>1, TextsAre DEF RunOK, Runs
<1>3. /\ new \in Runs /\ new.pc = "writing" /\ new.blob = r.blob /\ new.sent = r.sent + n
      /\ new.bytecode = r.bytecode /\ new.got = r.got /\ new.out_size = r.out_size
  <2>1. PICK sent \in Nat : sent = r.sent + n
    BY <1>2
  <2>2. new = [r EXCEPT !.sent = sent]
    BY <2>1
  <2> HIDE DEF r, new
  <2> QED
    BY <1>1, <1>2, <2>1, <2>2 DEF Runs
<1>4. Me(p) \in Writers /\ Me(p).blob = r.blob /\ writers' \subseteq Writers
  BY <1>1, <1>2 DEF Me, Writers, IInv
<1>5. file.head \in Headers /\ file.body \in Seq(Byte)
  BY DEF IInv, Files
<1>6. bytes \in Seq(Byte) /\ FromEither(bytes, r.blob, file.body)
  <2>1. r.sent + n - 1 \in Nat /\ r.sent + n - 1 <= Len(r.blob)
    BY <1>1, <1>2
  <2> HIDE DEF r
  <2>2. PICK hi \in Nat : hi = r.sent + n - 1 /\ hi <= Len(r.blob)
    BY <2>1
  <2>3. bytes = Overlaid(file.body, r.blob, r.sent, hi)
    BY <2>2
  <2>4. PICK old \in Seq(Byte), blob \in Seq(Byte), lo \in Nat :
          old = file.body /\ blob = r.blob /\ lo = r.sent
    BY <1>2, <1>5
  <2>5. bytes = Overlaid(old, blob, lo, hi) /\ hi <= Len(blob)
    BY <2>2, <2>3, <2>4
  <2> HIDE DEF bytes
  <2>6. bytes \in Seq(Byte) /\ FromEither(bytes, blob, old)
    BY <2>5, OverlaidIs
  <2> QED
    BY <2>4, <2>6, Zenon
<1>7. head \in Headers
  BY <1>2, <1>5, HeadersAre
<1>8. head.kind = "good" => head = HeaderOf(Me(p).blob) \/ head = file.head
  BY <1>4, HeadersAre
<1> HIDE DEF r, new, head, bytes
<1>9. file' \in Files /\ file'.head = head /\ file'.body = bytes
  BY <1>1, <1>6, <1>7 DEF Files
<1>10. ASSUME errors = 0 PROVE FromWriters(file', writers')
  <2>1. FromWriters(file, writers)
    BY <1>10 DEF IInv
  <2>2. ASSUME head.kind = "good" PROVE \E w \in writers' : head = HeaderOf(w.blob)
    BY <1>1, <1>8, <2>1, <2>2 DEF FromWriters
  <2>3. ASSUME NEW k \in DOMAIN bytes
        PROVE  bytes[k] = 0 \/ \E w \in writers' : k \in DOMAIN w.blob /\ bytes[k] = w.blob[k]
    <3>1. CASE k \in DOMAIN r.blob /\ bytes[k] = r.blob[k]
      BY <1>1, <1>4, <3>1
    <3>2. CASE k \in DOMAIN file.body /\ bytes[k] = file.body[k]
      BY <1>1, <2>1, <3>2 DEF FromWriters
    <3> QED
      BY <1>6, <2>3, <3>1, <3>2, Zenon DEF FromEither
  <2> QED
    BY <1>9, <2>2, <2>3 DEF FromWriters
<1>11. ~Checked(new) /\ ~Checked(r)
  BY <1>1, <1>3 DEF Checked
<1>12. RunOK(new) /\ GotClean(new)
  BY <1>1, <1>3, <1>11 DEF RunOK, GotClean
<1> QED
  BY <1>1, <1>4, <1>9, <1>10, <1>12, RunStep DEF IInv

\* A run that has not loaded anything yet.
Sound(r) ==
  /\ r \in Runs /\ r.sent <= 1 + Len(r.blob) /\ r.bytecode = r.blob
  /\ Len(r.got.body) <= r.got.head.bytecode_size /\ r.out_size = Len(r.blob)

LEMMA SoundIf ==
  ASSUME NEW r, RunOK(r), r.pc # "decode"
  PROVE  Sound(r)
BY DEF RunOK, Sound, Checked

LEMMA SoundIs ==
  ASSUME NEW r, Sound(r), r.pc \in {"write", "writing", "load", "header"} => r.got = EmptyFile,
         r.pc # "decode", r.pc # "over"
  PROVE  RunOK(r)
BY DEF RunOK, Sound, Checked

LEMMA LoadedKeeps ==
  ASSUME IInv, NEW p \in Procs, NEW r, NEW s \in Statuses, Loaded(p, r, s), Sound(r),
         s = "AYM_OK" => /\ r.got.head.bytecode_size = Len(r.got.body) /\ Verifies(r.got)
                         /\ errors = 0 => r.got.head.kind = "good" /\ FromWriters(r.got, r.seen),
         UNCHANGED <<exists, file, writers, starts, errors>>
  PROVE  IInv'
<1> DEFINE new == [r EXCEPT !.pc = "decode", !.loaded = s, !.out_size = SizeAfter(r, s)]
<1>1. proc' = [proc EXCEPT ![p] = new]
  BY DEF Loaded
<1>2. r.got \in Files /\ r.out_size \in Nat /\ r.got.head.bytecode_size \in Nat
  BY DEF Sound, Runs, Files, Headers
<1>3. PICK size \in Nat : size = SizeAfter(r, s)
  BY <1>2 DEF SizeAfter
<1>4. /\ new \in Runs /\ new.pc = "decode" /\ new.loaded = s /\ new.out_size = size
      /\ new.blob = r.blob /\ new.sent = r.sent /\ new.bytecode = r.bytecode
      /\ new.got = r.got /\ new.seen = r.seen
  BY <1>3 DEF Sound, Runs
<1> HIDE DEF new
<1>5. Checked(new) <=> s = "AYM_OK"
  BY <1>4 DEF Checked
<1>6. RunOK(new)
  BY <1>3, <1>4, <1>5 DEF RunOK, Sound, SizeAfter
<1>7. errors = 0 => GotClean(new)
  BY <1>4, <1>5 DEF GotClean
<1> QED
  BY <1>1, <1>6, <1>7, OwnStep

LEMMA OpenReadKeeps == ASSUME IInv, NEW p \in Procs, OpenRead(p) PROVE IInv'
<1>1. PICK r \in Runs : r = proc[p]
  BY DEF IInv
<1>2. /\ RunOK(r) /\ Sound(r) /\ r.pc = "load" /\ r.got = EmptyFile
      /\ UNCHANGED <<exists, file, writers, starts, errors>>
  <2>1. RunOK(r) /\ r.pc = "load" /\ UNCHANGED <<exists, file, writers, starts, errors>>
    BY <1>1 DEF OpenRead, IInv, At
  <2> QED
    BY <2>1, SoundIf DEF RunOK
<1>3. CASE Loaded(p, r, "AYM_FILE_ERROR")
  BY <1>2, <1>3, LoadedKeeps DEF Statuses
<1>4. CASE proc' = [proc EXCEPT ![p].pc = "header"]
  <2>3. PICK new : new = [r EXCEPT !.pc = "header"]
    OBVIOUS
  <2>4. proc' = [proc EXCEPT ![p] = new]
    BY <1>1, <1>4, <2>3
  <2>5. Sound(new) /\ new.pc = "header" /\ new.got = EmptyFile
    BY <1>2, <2>3 DEF Sound, Runs
  <2>6. RunOK(new) /\ GotClean(new)
    BY <2>5, SoundIs DEF GotClean, Checked
  <2> QED
    BY <1>2, <2>4, <2>6, OwnStep
<1> QED
  BY <1>1, <1>3, <1>4 DEF OpenRead

LEMMA ReadHeaderKeeps == ASSUME IInv, NEW p \in Procs, ReadHeader(p) PROVE IInv'
<1>1. PICK q \in Runs : q = proc[p]
  BY DEF IInv
<1>2. /\ Sound(q) /\ q.pc = "header" /\ q.got = EmptyFile
      /\ UNCHANGED <<exists, file, writers, starts, errors>>
      /\ file.head \in Headers /\ writers \in SUBSET Writers
  <2>1. /\ RunOK(q) /\ q.pc = "header" /\ UNCHANGED <<exists, file, writers, starts, errors>>
        /\ file.head \in Headers /\ writers \in SUBSET Writers
    BY <1>1 DEF ReadHeader, IInv, At, Files
  <2> QED
    BY <2>1, SoundIf DEF RunOK
<1>3. PICK got : got = [EmptyFile EXCEPT !.head = file.head]
  OBVIOUS
<1>4. got \in Files /\ got.body = <<>> /\ got.head = file.head
  BY <1>2, <1>3, HeadersAre DEF Files
<1>5. Len(got.body) <= got.head.bytecode_size
  <2>1. file.head.bytecode_size \in Nat
    BY <1>2 DEF Headers
  <2> QED
    BY <1>4, <2>1
<1>6. PICK r : r = [proc[p] EXCEPT !.got.head = file.head, !.seen = writers]
  OBVIOUS
<1>7. r = [q EXCEPT !.pc = "header", !.got = got, !.seen = writers]
  BY <1>1, <1>2, <1>3, <1>6 DEF Runs
<1>8. Sound(r) /\ r.got = got /\ r.seen = writers
  <2>1. /\ r \in Runs /\ r.got = got /\ r.seen = writers /\ r.blob = q.blob /\ r.sent = q.sent
        /\ r.bytecode = q.bytecode /\ r.out_size = q.out_size
    BY <1>2, <1>4, <1>7 DEF Runs
  <2> QED
    BY <1>2, <1>5, <2>1 DEF Sound
<1>9. \/ \E s \in {"AYM_READ_ERROR", "AYM_BAD_HEADER", "AYM_FILE_ERROR"} : Loaded(p, r, s)
      \/ /\ file.head.kind = "good"
         /\ proc' = [proc EXCEPT ![p] = [r EXCEPT !.pc = "bytes"]]
  BY <1>6 DEF ReadHeader
<1>10. ASSUME NEW s \in {"AYM_READ_ERROR", "AYM_BAD_HEADER", "AYM_FILE_ERROR"}, Loaded(p, r, s)
       PROVE  IInv'
  <2>1. s \in Statuses /\ s # "AYM_OK"
    BY DEF Statuses
  <2> QED
    BY <1>2, <1>8, <1>10, <2>1, LoadedKeeps
<1>11. CASE /\ file.head.kind = "good"
            /\ proc' = [proc EXCEPT ![p] = [r EXCEPT !.pc = "bytes"]]
  <2>1. PICK new : new = [q EXCEPT !.pc = "bytes", !.got = got, !.seen = writers]
    OBVIOUS
  <2>2. [r EXCEPT !.pc = "bytes"] = new
    BY <1>7, <2>1 DEF Runs
  <2>3. Sound(new) /\ new.pc = "bytes" /\ new.got = got /\ new.seen = writers
    <3>1. /\ new \in Runs /\ new.pc = "bytes" /\ new.got = got /\ new.seen = writers
          /\ new.blob = q.blob /\ new.sent = q.sent
          /\ new.bytecode = q.bytecode /\ new.out_size = q.out_size
      BY <1>2, <1>4, <2>1 DEF Runs
    <3> QED
      BY <1>2, <1>5, <3>1 DEF Sound
  <2>4. RunOK(new)
    BY <2>3, SoundIs
  <2>5. errors = 0 => GotClean(new)
    BY <1>4, <1>11, <2>3 DEF GotClean, FromWriters, IInv
  <2> QED
    BY <1>2, <1>11, <2>2, <2>4, <2>5, OwnStep
<1> QED
  BY <1>9, <1>10, <1>11

\* The bytes that a read adds are those of the file at their place.
LEMMA PieceIs ==
  ASSUME NEW body \in Seq(Byte), NEW from \in Seq(Byte), NEW n \in Nat \ {0},
         Len(body) + n <= Len(from),
         NEW longer, longer = body \o SubSeq(from, Len(body) + 1, Len(body) + n)
  PROVE  /\ longer \in Seq(Byte) /\ Len(longer) = Len(body) + n
         /\ \A k \in 1 .. Len(body) + n :
              longer[k] = IF k <= Len(body) THEN body[k] ELSE from[k]
<1> DEFINE piece == SubSeq(from, Len(body) + 1, Len(body) + n)
<1>1. PICK at \in Nat : at = Len(body)
  OBVIOUS
<1>2. /\ piece \in Seq(Byte) /\ Len(piece) = n
      /\ \A k \in 1 .. n : piece[k] = from[at + k]
  <2>1. PICK lo \in Nat, hi \in Nat : lo = at + 1 /\ hi = at + n
    OBVIOUS
  <2>2. /\ lo <= hi /\ piece = SubSeq(from, lo, hi) /\ hi - lo + 1 = n
        /\ \A k \in 1 .. n : lo + k - 1 = at + k
    BY <1>1, <2>1
  <2>3. \A k \in lo .. hi : from[k] \in Byte
    <3>1. \A k \in lo .. hi : k \in 1 .. Len(from)
      BY <1>1, <2>1
    <3> QED
      BY <3>1
  <2>4. /\ SubSeq(from, lo, hi) \in Seq(Byte)
        /\ Len(SubSeq(from, lo, hi)) = IF lo <= hi THEN hi - lo + 1 ELSE 0
        /\ \A k \in 1 .. hi - lo + 1 : SubSeq(from, lo, hi)[k] = from[lo + k - 1]
    BY <2>3, SubSeqProperties
  <2> QED
    BY <2>1, <2>2, <2>4
<1>3. longer = body \o piece
  OBVIOUS
<1> HIDE DEF piece
<1>4. /\ longer \in Seq(Byte) /\ Len(longer) = at + n
      /\ \A k \in 1 .. at + n : longer[k] = IF k <= at THEN body[k] ELSE piece[k - at]
  <2>1. body \in Seq(Byte) /\ piece \in Seq(Byte) /\ Len(piece) = n /\ Len(body) = at
    BY <1>1, <1>2
  <2> QED
    BY ONLY <1>3, <2>1, ConcatProperties
<1>5. ASSUME NEW k \in 1 .. at + n, ~(k <= at) PROVE piece[k - at] = from[k]
  <2>1. k - at \in 1 .. n /\ at + (k - at) = k
    BY <1>5
  <2> QED
    BY <1>2, <2>1
<1> QED
  BY <1>1, <1>4, <1>5

LEMMA ReadBytesKeeps ==
  ASSUME IInv, NEW p \in Procs, NEW n \in Nat \ {0}, ReadBytes(p, n)
  PROVE  IInv'
<1>1. PICK q \in Runs : q = proc[p]
  BY DEF IInv
<1> DEFINE at == Len(q.got.body)
           piece == SubSeq(file.body, at + 1, at + n)
<1>2. /\ RunOK(q) /\ q.pc = "bytes" /\ UNCHANGED <<exists, file, writers, starts, errors>>
      /\ n <= Missing(q.got) /\ at + n <= Len(file.body)
      /\ proc' = [proc EXCEPT ![p].got.body = @ \o piece, ![p].seen = @ \cup writers]
  BY <1>1 DEF ReadBytes, IInv, At
<1>3. /\ q.got \in Files /\ q.got.body \in Seq(Byte) /\ q.got.head \in Headers /\ at \in Nat
      /\ file \in Files /\ file.body \in Seq(Byte) /\ Len(file.body) \in Nat
      /\ q.got.head.bytecode_size \in Nat /\ writers \in SUBSET Writers
      /\ q.seen \in SUBSET Writers
  <2>1. file \in Files /\ writers \in SUBSET Writers
    BY DEF IInv
  <2>2. q.got \in Files /\ q.seen \in SUBSET Writers
    BY DEF Runs
  <2>3. \A f \in Files : f.body \in Seq(Byte) /\ f.head \in Headers
    BY DEF Files
  <2>4. \A head \in Headers : head.bytecode_size \in Nat
    BY DEF Headers
  <2> QED
    BY <2>1, <2>2, <2>3, <2>4
<1>4. PICK longer : longer = q.got.body \o piece
  OBVIOUS
<1>5. /\ longer \in Seq(Byte) /\ Len(longer) = at + n
      /\ \A k \in 1 .. at + n : longer[k] = IF k <= at THEN q.got.body[k] ELSE file.body[k]
  <2>1. PICK body \in Seq(Byte), from \in Seq(Byte) : body = q.got.body /\ from = file.body
    BY <1>3
  <2>2. /\ Len(body) + n <= Len(from)
        /\ longer = body \o SubSeq(from, Len(body) + 1, Len(body) + n)
    BY <1>2, <1>4, <2>1
  <2>3. /\ longer \in Seq(Byte) /\ Len(longer) = Len(body) + n
        /\ \A k \in 1 .. Len(body) + n :
             longer[k] = IF k <= Len(body) THEN body[k] ELSE from[k]
    BY <2>2, PieceIs
  <2> QED
    BY <2>1, <2>3
<1>6. PICK got : got = [q.got EXCEPT !.body = longer]
  OBVIOUS
<1>7. got \in Files /\ got.body = longer /\ got.head = q.got.head
  BY <1>3, <1>5, <1>6 DEF Files
<1>8. Len(got.body) <= got.head.bytecode_size
  <2>1. at + n <= q.got.head.bytecode_size
    BY <1>2, <1>3 DEF Missing
  <2> QED
    BY <1>5, <1>7, <2>1
<1>9. PICK new : new = [q EXCEPT !.got = got, !.seen = q.seen \cup writers]
  OBVIOUS
<1>10. proc' = [proc EXCEPT ![p] = new]
  BY <1>1, <1>2, <1>4, <1>6, <1>9
<1>11. /\ new \in Runs /\ new.pc = "bytes" /\ new.got = got /\ new.seen = q.seen \cup writers
       /\ new.blob = q.blob /\ new.sent = q.sent
       /\ new.bytecode = q.bytecode /\ new.out_size = q.out_size
  BY <1>2, <1>3, <1>7, <1>9 DEF Runs
<1>12. RunOK(new)
  <2>1. Sound(q)
    BY <1>2, SoundIf
  <2>2. Sound(new)
    BY <1>8, <1>11, <2>1 DEF Sound
  <2> QED
    BY <1>11, <2>2, SoundIs
<1>13. ASSUME errors = 0 PROVE GotClean(new)
  <2>1. /\ FromWriters(file, writers) /\ q.got.head.kind = "good" /\ FromWriters(q.got, q.seen)
    BY <1>1, <1>2, <1>13 DEF IInv, GotClean
  <2>2. ASSUME NEW k \in DOMAIN longer
        PROVE  \/ longer[k] = 0
               \/ \E w \in q.seen \cup writers : k \in DOMAIN w.blob /\ longer[k] = w.blob[k]
    <3>1. k \in 1 .. at + n
      BY <1>5
    <3>2. CASE k <= at
      <4>1. k \in DOMAIN q.got.body /\ longer[k] = q.got.body[k]
        BY <1>3, <1>5, <3>1, <3>2
      <4> QED
        BY <2>1, <4>1 DEF FromWriters
    <3>3. CASE ~(k <= at)
      <4>1. k \in DOMAIN file.body /\ longer[k] = file.body[k]
        BY <1>2, <1>3, <1>5, <3>1, <3>3
      <4> QED
        BY <2>1, <4>1 DEF FromWriters
    <3> QED
      BY <3>2, <3>3
  <2>3. FromWriters(got, q.seen \cup writers)
    BY <1>7, <2>1, <2>2 DEF FromWriters
  <2> QED
    BY <1>7, <1>11, <2>1, <2>3 DEF GotClean
<1> QED
  BY <1>2, <1>10, <1>12, <1>13, OwnStep

LEMMA ReadEndKeeps == ASSUME IInv, NEW p \in Procs, ReadEnd(p) PROVE IInv'
<1>1. PICK r \in Runs : r = proc[p]
  BY DEF IInv
<1>2. /\ RunOK(r) /\ r.pc = "bytes" /\ UNCHANGED <<exists, file, writers, starts, errors>>
  BY <1>1 DEF ReadEnd, IInv, At
<1>3. PICK s \in Statuses :
        /\ Loaded(p, r, s)
        /\ s = "AYM_OK" => ~(Missing(r.got) > 0) /\ Verifies(r.got)
  BY <1>1 DEF ReadEnd, Statuses
<1>4. /\ r.got.head.bytecode_size \in Nat /\ Len(r.got.body) \in Nat
      /\ Len(r.got.body) <= r.got.head.bytecode_size
  BY <1>2 DEF RunOK, Runs, Files, Headers
<1>5. s = "AYM_OK" => r.got.head.bytecode_size = Len(r.got.body) /\ Verifies(r.got)
  BY <1>3, <1>4 DEF Missing
<1>6. errors = 0 => r.got.head.kind = "good" /\ FromWriters(r.got, r.seen)
  BY <1>1, <1>2 DEF IInv, GotClean
<1>7. Sound(r)
  BY <1>2, SoundIf
<1> QED
  BY <1>2, <1>3, <1>5, <1>6, <1>7, LoadedKeeps

LEMMA DamageKeeps == ASSUME IInv, Damage PROVE IInv'
<1>1. /\ errors < MaxErrors /\ errors' = errors + 1 /\ errors \in 0 .. MaxErrors
      /\ UNCHANGED <<exists, proc, writers, starts>>
      /\ file \in Files /\ file.head \in Headers /\ file.body \in Seq(Byte)
  BY DEF Damage, IInv, Files
<1>2. errors' # 0 /\ errors' \in 0 .. MaxErrors
  BY <1>1, FilesAssumption
<1>3. file' \in Files
  <2>1. CASE \E k \in DOMAIN file.body, b \in Byte : file' = [file EXCEPT !.body[k] = b]
    <3>1. PICK k \in DOMAIN file.body, b \in Byte : file' = [file EXCEPT !.body[k] = b]
      BY <2>1
    <3>2. [file.body EXCEPT ![k] = b] \in Seq(Byte)
      BY <1>1, <3>1, ExceptSeq
    <3>3. file' = [file EXCEPT !.body = [file.body EXCEPT ![k] = b]]
      BY <3>1
    <3> QED
      BY <1>1, <3>2, <3>3 DEF Files
  <2>2. CASE file' = [file EXCEPT !.head.kind = "bad"]
    BY <1>1, <2>2 DEF Files, Headers
  <2>3. CASE \E n \in 0 .. Len(file.body) + 1 : file' = [file EXCEPT !.head.bytecode_size = n]
    <3>1. PICK n \in Nat : file' = [file EXCEPT !.head.bytecode_size = n]
      BY <2>3
    <3> QED
      BY <1>1, <3>1 DEF Files, Headers
  <2>4. CASE \E c \in Byte : file' = [file EXCEPT !.head.checksum = c]
    <3>1. PICK c \in Byte : file' = [file EXCEPT !.head.checksum = c]
      BY <2>4
    <3>2. c \in 0 .. SumSize - 1
      BY FilesAssumption DEF Byte
    <3> QED
      BY <1>1, <3>1, <3>2 DEF Files, Headers
  <2> QED
    BY <2>1, <2>2, <2>3, <2>4 DEF Damage
<1> QED
  BY <1>1, <1>2, <1>3 DEF IInv

LEMMA StutterKeeps == ASSUME IInv, UNCHANGED vars PROVE IInv'
BY DEF vars, IInv

LEMMA Inductive == IInv /\ [Next]_vars => IInv'
<1> SUFFICES ASSUME IInv, [Next]_vars PROVE IInv'
  OBVIOUS
<1>1. ASSUME NEW p \in Procs, NoWrite(p) \/ EndWrite(p) PROVE IInv'
  BY <1>1, WrittenKeeps DEF NoWrite, EndWrite
<1>2. Pieces \subseteq Nat \ {0}
  BY DEF Pieces
<1>3. ASSUME NEW p \in Procs, NEW n \in Pieces, Flush(p, n) \/ ReadBytes(p, n) PROVE IInv'
  BY <1>2, <1>3, FlushKeeps, ReadBytesKeeps
<1> QED
  BY <1>1, <1>3, StartKeeps, OpenWriteKeeps, OpenReadKeeps, ReadHeaderKeeps, ReadEndKeeps,
     DecodeKeeps, DamageKeeps, StutterKeeps DEF Next

LEMMA Invariant == Spec => []IInv
BY InitInv, Inductive, PTL DEF Spec

-----------------------------------------------------------------------------
(* What follows from the invariant                                           *)

\* The file, its header and what each run of main has of it keep their types; no
\* stream is past its end, and fread is never asked for more than the header says.
THEOREM FilesTyped == Spec => []TypeOK
<1>1. IInv => TypeOK
  <2> SUFFICES ASSUME IInv PROVE TypeOK
    OBVIOUS
  <2>1. ASSUME NEW p \in Procs
        PROVE  LET r == proc[p] IN
               /\ r.pc \in {"write", "writing", "load", "header", "bytes", "decode", "over"}
               /\ r.blob \in Blobs \cup {<<>>} /\ r.sent \in 0 .. 1 + Len(r.blob)
               /\ r.got \in Files /\ Len(r.got.body) <= r.got.head.bytecode_size
               /\ r.out_size \in Nat
               /\ r.loaded \in Statuses
    <3>1. PICK r \in Runs : r = proc[p] /\ RunOK(r)
      BY DEF IInv
    <3>2. Len(r.blob) \in Nat /\ r.sent \in Nat /\ r.sent <= 1 + Len(r.blob)
      BY <3>1, TextsAre DEF RunOK, Runs
    <3>3. r.sent \in 0 .. 1 + Len(r.blob)
      BY <3>2
    <3> QED
      BY <3>1, <3>3 DEF RunOK, Runs, Texts
  <2> QED
    BY <2>1 DEF IInv, TypeOK
<1> QED
  BY <1>1, Invariant, PTL

\* main decodes what it encoded: out_bytecode, a copy of its pointer, never
\* reaches it, and the size does only from a file that another run wrote or that
\* was damaged.
THEOREM RunsOwn == Spec => []RunsItsOwn
<1>1. IInv => RunsItsOwn
  <2> SUFFICES ASSUME IInv, NEW p \in Procs, At(p, "decode")
               PROVE  LET r == proc[p] IN
                      /\ r.bytecode = r.blob
                      /\ r.out_size # Len(r.blob) =>
                           /\ r.loaded = "AYM_OK" /\ r.out_size = Len(r.got.body)
                           /\ errors > 0 \/ \E w \in r.seen : w.blob # r.blob
    BY DEF RunsItsOwn
  <2>1. PICK r \in Runs : r = proc[p] /\ RunOK(r) /\ r.pc = "decode"
    BY DEF IInv, At
  <2>2. ASSUME r.out_size # Len(r.blob)
        PROVE  /\ r.loaded = "AYM_OK" /\ r.out_size = Len(r.got.body)
               /\ errors > 0 \/ \E w \in r.seen : w.blob # r.blob
    <3>1. Checked(r) /\ r.loaded = "AYM_OK" /\ r.out_size = Len(r.got.body)
      BY <2>1, <2>2 DEF RunOK, Checked
    <3>2. errors > 0 \/ errors = 0
      BY DEF IInv
    <3>3. CASE errors = 0
      <4>1. PICK w \in r.seen : r.got.head = HeaderOf(w.blob)
        BY <2>1, <3>1, <3>3 DEF IInv, GotClean, FromWriters
      <4>2. w.blob \in Texts
        BY <4>1 DEF Runs, Writers
      <4>3. r.out_size = Len(w.blob)
        BY <2>1, <3>1, <4>1, <4>2, HeadersAre DEF RunOK
      <4> QED
        BY <2>2, <3>1, <4>3
    <3> QED
      BY <3>1, <3>2, <3>3
  <2> QED
    BY <2>1, <2>2 DEF RunOK
<1> QED
  BY <1>1, Invariant, PTL

LEMMA TextsFit == ASSUME NEW b \in Texts PROVE Len(b) * (ByteSize - 1) < SumSize
<1>1. CASE b \in Blobs
  BY <1>1, SumsFit
<1>2. CASE b = <<>>
  <2>1. Len(b) = 0
    BY <1>2
  <2>2. 0 * (ByteSize - 1) = 0 /\ 0 < SumSize
    BY FilesAssumption
  <2> QED
    BY <2>1, <2>2, Zenon
<1> QED
  BY <1>1, <1>2 DEF Texts

\* When aym_load_bytecode_from_file returns AYM_OK on an undamaged file of one
\* program's runs, it has read the whole of that program's bytecode, whatever
\* those runs and their deaths have done to the file in the meantime: a header
\* read early, zeros where a stream has not come yet, a file begun anew.
THEOREM LoadsWhole == Spec => []LoadedIsWhole
<1>1. IInv => LoadedIsWhole
  <2> SUFFICES ASSUME IInv, NEW p \in Procs, HasLoaded(p), errors = 0,
                      NEW w \in proc[p].seen, \A v \in proc[p].seen : v.blob = w.blob
               PROVE  proc[p].got.body = w.blob
    BY DEF LoadedIsWhole
  <2>1. PICK r \in Runs : r = proc[p] /\ RunOK(r) /\ Checked(r) /\ GotClean(r)
    BY DEF IInv, HasLoaded, At, Checked
  <2>2. PICK b \in Texts : b = w.blob
    BY <2>1 DEF Runs, Writers
  <2>3. r.got.head.kind = "good" /\ FromWriters(r.got, r.seen)
    BY <2>1 DEF GotClean
  <2>4. r.got.head = HeaderOf(b)
    BY <2>1, <2>2, <2>3 DEF FromWriters
  <2>5. /\ Len(r.got.body) = Len(b) /\ compute_checksum(r.got.body) = compute_checksum(b)
        /\ r.got.body \in Seq(Byte) /\ b \in Seq(Byte) /\ Len(b) \in Nat
    BY <2>1, <2>4, HeadersAre, TextsAre DEF RunOK, Verifies, Files, Runs
  <2>6. ASSUME NEW k \in 1 .. Len(b) PROVE r.got.body[k] <= b[k]
    <3>1. r.got.body[k] = 0 \/ r.got.body[k] = b[k]
      BY <2>1, <2>2, <2>3, <2>5 DEF FromWriters
    <3>2. b[k] \in Nat
      BY <2>5, FilesAssumption DEF Byte
    <3> QED
      BY <3>1, <3>2
  <2>7. r.got.body = b
    <3>1. PICK a \in Seq(Byte) : a = r.got.body
      BY <2>5
    <3>2. Len(b) * (ByteSize - 1) < SumSize
      BY TextsFit
    <3>3. a = b
      BY <2>5, <2>6, <3>1, <3>2, SumTells
    <3> QED
      BY <3>1, <3>3
  <2> QED
    BY <2>1, <2>2, <2>7
<1> QED
  BY <1>1, Invariant, PTL

-----------------------------------------------------------------------------
(* One damage                                                                *)

\* A blob whose sum its first bytes have already has only zeros after them.
LEMMA CutTells ==
  ASSUME NEW b \in Seq(Byte), Len(b) * (ByteSize - 1) < SumSize,
         NEW a \in Seq(Byte), Len(a) <= Len(b), \A k \in 1 .. Len(a) : a[k] = b[k],
         compute_checksum(a) = compute_checksum(b)
  PROVE  \A k \in Len(a) + 1 .. Len(b) : b[k] = 0
<1> DEFINE s == Sums(a)
           t == Sums(b)
<1>1. PICK n \in Nat, m \in Nat : n = Len(a) /\ m = Len(b) /\ n <= m
  OBVIOUS
<1>2. /\ s[0] = 0 /\ compute_checksum(a) = s[n]
      /\ \A k \in 1 .. n : s[k] = (s[k - 1] + a[k]) % SumSize
  BY <1>1, SumsFacts
<1>3. /\ t[0] = 0 /\ compute_checksum(b) = t[m]
      /\ \A k \in 1 .. m : t[k] = (t[k - 1] + b[k]) % SumSize
      /\ \A k \in 0 .. m : t[k] \in 0 .. SumSize - 1
  BY <1>1, SumsFacts
<1>4. \A k \in 1 .. m : t[k] = t[k - 1] + b[k]
  BY <1>1, NoneWraps
<1> HIDE DEF s, t
<1>5. \A k \in 1 .. m : b[k] \in Nat
  BY <1>1, FilesAssumption DEF Byte
<1>6. \A k \in 0 .. m : t[k] \in Nat
  BY <1>3, FilesAssumption
<1> DEFINE T == {i \in Nat : i <= n => s[i] = t[i]}
<1>7. 0 \in T
  BY <1>2, <1>3
<1>8. ASSUME NEW i \in Nat, i \in T PROVE i + 1 \in T
  <2> SUFFICES ASSUME i + 1 <= n PROVE s[i + 1] = t[i + 1]
    OBVIOUS
  <2>1. i <= n /\ i + 1 \in 1 .. n /\ i + 1 \in 1 .. m /\ (i + 1) - 1 = i
    BY <1>1
  <2>2. s[i] = t[i] /\ a[i + 1] = b[i + 1]
    BY <1>1, <1>8, <2>1
  <2>3. s[i + 1] = (s[i] + a[i + 1]) % SumSize /\ t[i + 1] = (t[i] + b[i + 1]) % SumSize
    BY <1>2, <1>3, <2>1
  <2> QED
    BY <2>2, <2>3
<1>9. Nat \subseteq T
  <2> HIDE DEF T
  <2> QED
    BY <1>7, <1>8, InductionOn
<1>10. t[n] = t[m]
  <2>1. s[n] = t[n]
    BY <1>9
  <2> QED
    BY <1>2, <1>3, <2>1, Zenon
<1> DEFINE U == {i \in Nat : n + i <= m =>
                   /\ t[n] <= t[n + i]
                   /\ t[n] = t[n + i] => \A k \in n + 1 .. n + i : b[k] = 0}
<1>11. 0 \in U
  BY <1>1, <1>6
<1>12. ASSUME NEW i \in Nat, i \in U PROVE i + 1 \in U
  <2> SUFFICES ASSUME n + (i + 1) <= m
               PROVE  /\ t[n] <= t[n + (i + 1)]
                      /\ t[n] = t[n + (i + 1)] => \A k \in n + 1 .. n + (i + 1) : b[k] = 0
    OBVIOUS
  <2>1. PICK x \in 1 .. m : x = n + (i + 1) /\ x - 1 = n + i
    OBVIOUS
  <2>2. /\ t[n] \in Nat /\ t[x - 1] \in Nat /\ b[x] \in Nat
        /\ t[x] = t[x - 1] + b[x] /\ n + i <= m
    BY <1>4, <1>5, <1>6, <1>1, <2>1
  <2>3. t[n] <= t[x - 1] /\ (t[n] = t[x - 1] => \A k \in n + 1 .. x - 1 : b[k] = 0)
    BY <1>12, <2>1, <2>2
  <2>4. t[n] <= t[x]
    BY <2>2, <2>3
  <2>5. ASSUME t[n] = t[x], NEW k \in n + 1 .. x PROVE b[k] = 0
    <3>1. t[n] = t[x - 1] /\ b[x] = 0
      BY <2>2, <2>3, <2>5
    <3>2. k = x \/ k \in n + 1 .. x - 1
      BY <2>1
    <3> QED
      BY <2>3, <3>1, <3>2
  <2> QED
    BY <2>1, <2>4, <2>5
<1>13. Nat \subseteq U
  <2> HIDE DEF U
  <2> QED
    BY <1>11, <1>12, InductionOn
<1>14. m - n \in Nat /\ n + (m - n) = m
  BY <1>1
<1>15. \A k \in n + 1 .. m : b[k] = 0
  <2>1. PICK i \in Nat : i = m - n /\ n + i = m
    BY <1>14
  <2>2. i \in U
    BY <1>13
  <2>3. t[n] = t[n + i] => \A k \in n + 1 .. n + i : b[k] = 0
    BY <1>1, <2>1, <2>2
  <2> QED
    BY <1>10, <2>1, <2>3
<1> QED
  BY <1>1, <1>15

\* A file of blob b, of which only byte j may be another one, 0 for none.
Off(f, b, j) ==
  /\ Len(f.body) <= Len(b)
  /\ \A k \in DOMAIN f.body : k # j => f.body[k] = b[k]

HeadIs(f, b) == f.head \in {NoHeader, HeaderOf(b)}

HeadNear(f, b) ==
  f.head.kind = "good" =>
    f.head.bytecode_size = Len(b) \/ f.head.checksum = compute_checksum(b)

\* After n damages, at most one, that byte or a field of the header is damaged.
Near(f, b, j, n) ==
  /\ Off(f, b, j) /\ HeadNear(f, b)
  /\ n = 0 => j = 0 /\ HeadIs(f, b)
  /\ j = 0 \/ HeadIs(f, b)

FileNear(f, ws, n) ==
  n <= 1 => \A w \in ws : ws = {w} => \E j \in Nat : Near(f, w.blob, j, n)

\* A run that still reads may read more of the file, of which the same is true.
GotNear(r, f, ws, n) ==
  n <= 1 =>
    \A w \in r.seen :
      r.seen = {w} /\ (r.pc = "bytes" \/ Checked(r)) =>
        \E j \in Nat :
          /\ Near(r.got, w.blob, j, n)
          /\ r.pc = "bytes" /\ ws = {w} => Off(f, w.blob, j)

\* The file of a run that alone has written it ends where the run's stream is.
Alone(p, r, f, ws) ==
  r.pc = "writing" /\ ws = {[id |-> p, blob |-> r.blob]} =>
    IF r.sent = 0 THEN f = EmptyFile
    ELSE Len(f.body) = r.sent - 1 /\ f.head.kind # "none"

InStep(p, r, f, ws) ==
  /\ r.pc = "write" => r.sent = 0
  /\ r.pc = "writing" => ws # {}
  /\ r.pc = "bytes" => r.seen # {}
  /\ r.pc = "bytes" \/ Checked(r) => r.got.head.kind = "good"
  /\ Alone(p, r, f, ws)

NInv ==
  /\ writers = {} => file = EmptyFile
  /\ FileNear(file, writers, errors)
  /\ \A p \in Procs :
       InStep(p, proc[p], file, writers) /\ GotNear(proc[p], file, writers, errors)

LEMMA QuietIs ==
  ASSUME NEW p, NEW r, NEW f, NEW ws, NEW n,
         r.pc \notin {"write", "writing", "bytes"}, ~Checked(r)
  PROVE  InStep(p, r, f, ws) /\ GotNear(r, f, ws, n)
BY DEF InStep, Alone, GotNear

LEMMA InitNear == Init => NInv
<1> SUFFICES ASSUME Init PROVE NInv
  OBVIOUS
<1>1. \A p \in Procs : proc[p] = Over
  BY DEF Init
<1>2. Over.pc = "over" /\ ~Checked(Over)
  BY OverIs DEF Checked
<1>3. \A p \in Procs : InStep(p, proc[p], file, writers) /\ GotNear(proc[p], file, writers, errors)
  BY <1>1, <1>2, QuietIs
<1> QED
  BY <1>3 DEF Init, NInv, FileNear

\* A step of one run of main that leaves the file alone.
LEMMA OwnNear ==
  ASSUME IInv, NInv, NEW p \in Procs, NEW r, proc' = [proc EXCEPT ![p] = r],
         InStep(p, r, file, writers), GotNear(r, file, writers, errors),
         UNCHANGED <<file, writers, errors>>
  PROVE  NInv'
<1>1. \A q \in Procs : proc'[q] = IF q = p THEN r ELSE proc[q]
  BY DEF IInv
<1>2. ASSUME NEW q \in Procs
      PROVE  InStep(q, proc'[q], file, writers) /\ GotNear(proc'[q], file, writers, errors)
  BY <1>1 DEF NInv
<1> QED
  BY <1>2 DEF NInv

LEMMA QuietNear ==
  ASSUME IInv, NInv, NEW p \in Procs, NEW r, proc' = [proc EXCEPT ![p] = r],
         r.pc \notin {"write", "writing", "bytes"}, ~Checked(r),
         UNCHANGED <<file, writers, errors>>
  PROVE  NInv'
BY QuietIs, OwnNear

LEMMA StartNear == ASSUME IInv, NInv, NEW p \in Procs, Start(p) PROVE NInv'
<1>1. PICK b \in Blobs : proc' = [proc EXCEPT ![p] = Started(b)]
  BY DEF Start
<1>2. UNCHANGED <<file, writers, errors>>
  BY DEF Start
<1>3. PICK r : r = Started(b)
  OBVIOUS
<1>4. r.pc = "write" /\ r.sent = 0 /\ ~Checked(r)
  BY <1>3 DEF Started, Checked
<1>5. InStep(p, r, file, writers) /\ GotNear(r, file, writers, errors)
  BY <1>4 DEF InStep, Alone, GotNear
<1> QED
  BY <1>1, <1>2, <1>3, <1>5, OwnNear

LEMMA WrittenNear ==
  ASSUME IInv, NInv, NEW p \in Procs, NoWrite(p) \/ EndWrite(p)
  PROVE  NInv'
<1>1. PICK r \in Runs : r = proc[p]
  BY DEF IInv
<1>2. PICK new : new = [r EXCEPT !.pc = "load", !.sent = 0]
  OBVIOUS
<1>3. proc' = [proc EXCEPT ![p] = new] /\ UNCHANGED <<file, writers, errors>>
  BY <1>1, <1>2 DEF NoWrite, EndWrite, Written
<1>4. new.pc = "load" /\ ~Checked(new)
  BY <1>2 DEF Runs, Checked
<1> QED
  BY <1>3, <1>4, QuietNear

LEMMA DecodeNear == ASSUME IInv, NInv, NEW p \in Procs, Decode(p) \/ Die(p) PROVE NInv'
<1>1. Over.pc = "over" /\ ~Checked(Over)
  BY OverIs DEF Checked
<1> QED
  BY <1>1, QuietNear DEF Decode, Die

LEMMA LoadedNear ==
  ASSUME IInv, NInv, NEW p \in Procs, NEW r \in Runs, NEW s \in Statuses, Loaded(p, r, s),
         s = "AYM_OK" => /\ r.pc = "bytes" /\ InStep(p, r, file, writers)
                         /\ GotNear(r, file, writers, errors),
         UNCHANGED <<file, writers, errors>>
  PROVE  NInv'
<1>1. PICK new : new = [r EXCEPT !.pc = "decode", !.loaded = s, !.out_size = SizeAfter(r, s)]
  OBVIOUS
<1>2. proc' = [proc EXCEPT ![p] = new]
  BY <1>1 DEF Loaded
<1>3. new.pc = "decode" /\ new.loaded = s /\ new.got = r.got /\ new.seen = r.seen
  BY <1>1 DEF Runs
<1>4. CASE s = "AYM_OK"
  <2>1. InStep(p, new, file, writers)
    BY <1>3, <1>4 DEF InStep, Alone
  <2>2. GotNear(new, file, writers, errors)
    BY <1>3, <1>4 DEF GotNear
  <2> QED
    BY <1>2, <2>1, <2>2, OwnNear
<1>5. CASE s # "AYM_OK"
  <2>1. ~Checked(new)
    BY <1>3, <1>5 DEF Checked
  <2> QED
    BY <1>2, <1>3, <2>1, QuietNear
<1> QED
  BY <1>4, <1>5

LEMMA OpenReadNear == ASSUME IInv, NInv, NEW p \in Procs, OpenRead(p) PROVE NInv'
<1>1. PICK r \in Runs : r = proc[p]
  BY DEF IInv
<1>2. UNCHANGED <<file, writers, errors>>
  BY DEF OpenRead
<1>3. CASE Loaded(p, r, "AYM_FILE_ERROR")
  BY <1>2, <1>3, LoadedNear DEF Statuses
<1>4. CASE proc' = [proc EXCEPT ![p].pc = "header"]
  <2>1. PICK new : new = [r EXCEPT !.pc = "header"]
    OBVIOUS
  <2>2. proc' = [proc EXCEPT ![p] = new]
    BY <1>1, <1>4, <2>1
  <2>3. new.pc = "header" /\ ~Checked(new)
    BY <2>1 DEF Runs, Checked
  <2> QED
    BY <1>2, <2>2, <2>3, QuietNear
<1> QED
  BY <1>1, <1>3, <1>4 DEF OpenRead

LEMMA ReadHeaderNear == ASSUME IInv, NInv, NEW p \in Procs, ReadHeader(p) PROVE NInv'
<1>1. PICK q \in Runs : q = proc[p] /\ q.pc = "header" /\ q.got = EmptyFile
  BY DEF IInv, RunOK, ReadHeader, At
<1>2. /\ UNCHANGED <<file, writers, errors>> /\ writers \in SUBSET Writers
      /\ file.head \in Headers
  BY DEF ReadHeader, IInv, Files
<1>3. PICK got : got = [EmptyFile EXCEPT !.head = file.head]
  OBVIOUS
<1>4. got \in Files /\ got.body = <<>> /\ got.head = file.head
  BY <1>2, <1>3, HeadersAre DEF Files
<1>5. PICK r : r = [proc[p] EXCEPT !.got.head = file.head, !.seen = writers]
  OBVIOUS
<1>6. r = [q EXCEPT !.got = got, !.seen = writers]
  BY <1>1, <1>3, <1>5 DEF Runs
<1>7. r \in Runs /\ r.got = got /\ r.seen = writers
  BY <1>2, <1>4, <1>6 DEF Runs
<1>8. \/ \E s \in {"AYM_READ_ERROR", "AYM_BAD_HEADER", "AYM_FILE_ERROR"} : Loaded(p, r, s)
      \/ file.head.kind = "good" /\ proc' = [proc EXCEPT ![p] = [r EXCEPT !.pc = "bytes"]]
  BY <1>5 DEF ReadHeader
<1>9. ASSUME NEW s \in {"AYM_READ_ERROR", "AYM_BAD_HEADER", "AYM_FILE_ERROR"}, Loaded(p, r, s)
      PROVE  NInv'
  <2>1. s \in Statuses /\ s # "AYM_OK"
    BY DEF Statuses
  <2> QED
    BY <1>2, <1>7, <1>9, <2>1, LoadedNear
<1>10. CASE file.head.kind = "good" /\ proc' = [proc EXCEPT ![p] = [r EXCEPT !.pc = "bytes"]]
  <2>1. PICK new : new = [r EXCEPT !.pc = "bytes"]
    OBVIOUS
  <2>2. new.pc = "bytes" /\ new.got = got /\ new.seen = writers /\ ~Checked(new)
    BY <1>7, <2>1 DEF Runs, Checked
  <2>3. writers # {}
    BY <1>10, HeadersAre DEF NInv
  <2>4. InStep(p, new, file, writers)
    BY <1>4, <1>10, <2>2, <2>3 DEF InStep, Alone
  <2>5. GotNear(new, file, writers, errors)
    <3> SUFFICES ASSUME errors <= 1, NEW w \in writers, writers = {w}
                 PROVE  \E j \in Nat : Near(got, w.blob, j, errors) /\ Off(file, w.blob, j)
      BY <2>2 DEF GotNear
    <3>1. PICK j \in Nat : Near(file, w.blob, j, errors)
      BY DEF NInv, FileNear
    <3>2. Len(<<>>) <= Len(w.blob)
      <4>1. w.blob \in Texts
        BY <1>2 DEF Writers
      <4>2. Len(w.blob) \in Nat
        BY <4>1, TextsAre
      <4> QED
        BY <4>2
    <3>3. Off(got, w.blob, j)
      BY <1>4, <3>2 DEF Off
    <3>4. Near(got, w.blob, j, errors)
      BY <1>4, <3>1, <3>3 DEF Near, HeadNear, HeadIs
    <3> QED
      BY <3>1, <3>4 DEF Near
  <2> QED
    BY <1>2, <1>10, <2>1, <2>4, <2>5, OwnNear
<1> QED
  BY <1>8, <1>9, <1>10

LEMMA ReadBytesNear ==
  ASSUME IInv, NInv, NEW p \in Procs, NEW n \in Nat \ {0}, ReadBytes(p, n)
  PROVE  NInv'
<1>1. PICK q \in Runs : q = proc[p]
  BY DEF IInv
<1> DEFINE piece == SubSeq(file.body, Len(q.got.body) + 1, Len(q.got.body) + n)
<1>2. /\ q.pc = "bytes" /\ UNCHANGED <<file, writers, errors>>
      /\ Len(q.got.body) + n <= Len(file.body)
      /\ proc' = [proc EXCEPT ![p].got.body = @ \o piece, ![p].seen = @ \cup writers]
  BY <1>1 DEF ReadBytes, At
<1>3. PICK body \in Seq(Byte), from \in Seq(Byte) : body = q.got.body /\ from = file.body
  BY DEF IInv, Runs, Files
<1>4. PICK longer : longer = q.got.body \o piece
  OBVIOUS
<1>5. /\ longer \in Seq(Byte) /\ Len(longer) = Len(body) + n
      /\ \A k \in 1 .. Len(body) + n :
           longer[k] = IF k <= Len(body) THEN body[k] ELSE from[k]
  <2>1. /\ Len(body) + n <= Len(from)
        /\ longer = body \o SubSeq(from, Len(body) + 1, Len(body) + n)
    BY <1>2, <1>3, <1>4
  <2> QED
    BY <2>1, PieceIs
<1>6. PICK got : got = [q.got EXCEPT !.body = longer]
  OBVIOUS
<1>7. got \in Files /\ got.body = longer /\ got.head = q.got.head
  BY <1>5, <1>6 DEF Runs, Files
<1>8. PICK new : new = [q EXCEPT !.got = got, !.seen = q.seen \cup writers]
  OBVIOUS
<1>9. proc' = [proc EXCEPT ![p] = new]
  BY <1>1, <1>2, <1>4, <1>6, <1>8
<1>10. new.pc = "bytes" /\ new.got = got /\ new.seen = q.seen \cup writers /\ ~Checked(new)
  BY <1>2, <1>8 DEF Runs, Checked
<1>11. InStep(p, q, file, writers) /\ GotNear(q, file, writers, errors)
  BY <1>1 DEF NInv
<1>12. InStep(p, new, file, writers)
  BY <1>2, <1>7, <1>10, <1>11 DEF InStep, Alone
<1>13. writers # {}
  <2>1. SUFFICES ASSUME file = EmptyFile PROVE FALSE
    BY DEF NInv
  <2>2. Len(from) = 0
    BY <1>3, <2>1, HeadersAre
  <2> QED
    BY <1>2, <1>3, <2>2
<1>14. GotNear(new, file, writers, errors)
  <2> SUFFICES ASSUME errors <= 1, NEW w, q.seen \cup writers = {w}
               PROVE  \E j \in Nat : Near(got, w.blob, j, errors) /\ Off(file, w.blob, j)
    BY <1>10 DEF GotNear
  <2>1. q.seen = {w} /\ writers = {w}
    BY <1>2, <1>11, <1>13 DEF InStep
  <2>2. PICK j \in Nat : Near(q.got, w.blob, j, errors) /\ Off(file, w.blob, j)
    BY <1>2, <1>11, <2>1 DEF GotNear
  <2>3. PICK b \in Seq(Byte) : b = w.blob
    <3>1. w.blob \in Texts
      BY <2>1 DEF Runs, Writers
    <3> QED
      BY <3>1, TextsAre
  <2>4. Len(from) <= Len(b) /\ \A k \in 1 .. Len(from) : k # j => from[k] = b[k]
    BY <1>3, <2>2, <2>3 DEF Off
  <2>5. \A k \in 1 .. Len(body) : k # j => body[k] = b[k]
    BY <1>3, <2>2, <2>3 DEF Near, Off
  <2>6. Len(body) + n <= Len(from)
    BY <1>2, <1>3
  <2>7. ASSUME NEW k \in 1 .. Len(body) + n, k # j PROVE longer[k] = b[k]
    <3>1. CASE k <= Len(body)
      <4>1. longer[k] = body[k]
        BY <1>5, <3>1, Zenon
      <4>2. k \in 1 .. Len(body)
        BY <3>1
      <4> QED
        BY <2>5, <2>7, <4>1, <4>2, Zenon
    <3>2. CASE ~(k <= Len(body))
      <4>1. k \in 1 .. Len(from)
        <5>1. Len(body) \in Nat /\ Len(from) \in Nat /\ k \in 1 .. Len(body) + n
          BY <1>3
        <5> QED
          BY ONLY <2>6, <5>1, n \in Nat
      <4>2. longer[k] = from[k]
        BY <1>5, <3>2, Zenon
      <4> QED
        BY <2>4, <2>7, <4>1, <4>2, Zenon
    <3> QED
      BY <3>1, <3>2
  <2>8. Off(got, w.blob, j)
    BY <1>5, <1>7, <2>3, <2>4, <2>6, <2>7 DEF Off
  <2>9. Near(got, w.blob, j, errors)
    BY <1>7, <2>2, <2>8 DEF Near, HeadNear, HeadIs
  <2> QED
    BY <2>2, <2>9
<1> QED
  BY <1>2, <1>9, <1>12, <1>14, OwnNear

LEMMA ReadEndNear == ASSUME IInv, NInv, NEW p \in Procs, ReadEnd(p) PROVE NInv'
<1>1. PICK r \in Runs : r = proc[p]
  BY DEF IInv
<1>2. r.pc = "bytes" /\ UNCHANGED <<file, writers, errors>>
  BY <1>1 DEF ReadEnd, At
<1>3. InStep(p, r, file, writers) /\ GotNear(r, file, writers, errors)
  BY <1>1 DEF NInv
<1>4. PICK s \in Statuses : Loaded(p, r, s)
  BY <1>1 DEF ReadEnd, Statuses
<1> QED
  BY <1>2, <1>3, <1>4, LoadedNear

\* A step that changes the file.
LEMMA FileStep ==
  ASSUME IInv, NInv, NEW p \in Procs, NEW r, proc' = [proc EXCEPT ![p] = r],
         InStep(p, r, file', writers'), GotNear(r, file', writers', errors'),
         \A q \in Procs \ {p} : /\ InStep(q, proc[q], file', writers')
                                /\ GotNear(proc[q], file', writers', errors'),
         writers' # {}, FileNear(file', writers', errors')
  PROVE  NInv'
<1>1. \A q \in Procs : proc'[q] = IF q = p THEN r ELSE proc[q]
  BY DEF IInv
<1>2. ASSUME NEW q \in Procs
      PROVE  InStep(q, proc'[q], file', writers') /\ GotNear(proc'[q], file', writers', errors')
  BY <1>1
<1> QED
  BY <1>2, Zenon DEF NInv

LEMMA OpenWriteNear == ASSUME IInv, NInv, NEW p \in Procs, OpenWrite(p) PROVE NInv'
<1>1. PICK r \in Runs : r = proc[p]
  BY DEF IInv
<1>2. PICK new : new = [r EXCEPT !.pc = "writing"]
  OBVIOUS
<1>3. /\ r.pc = "write" /\ proc' = [proc EXCEPT ![p] = new]
      /\ file' = EmptyFile /\ writers' = {[id |-> p, blob |-> r.blob]} /\ errors' = errors
  BY <1>1, <1>2 DEF OpenWrite, At, Me
<1>4. new.pc = "writing" /\ new.blob = r.blob /\ new.sent = 0 /\ ~Checked(new)
  <2>1. r.sent = 0
    BY <1>1, <1>3 DEF NInv, InStep
  <2> QED
    BY <1>2, <2>1 DEF Runs, Checked
<1>5. InStep(p, new, file', writers') /\ GotNear(new, file', writers', errors')
  BY <1>3, <1>4 DEF InStep, Alone, GotNear
<1>6. ASSUME NEW b \in Texts, NEW j \in Nat PROVE Off(EmptyFile, b, j)
  <2>1. Len(<<>>) <= Len(b)
    BY TextsAre
  <2> QED
    BY <2>1, HeadersAre DEF Off
<1>7. r.blob \in Texts
  BY DEF Runs
<1>8. FileNear(file', writers', errors')
  <2>1. HeadIs(EmptyFile, r.blob) /\ HeadNear(EmptyFile, r.blob)
    BY HeadersAre DEF HeadIs, HeadNear
  <2>2. Near(EmptyFile, r.blob, 0, errors)
    BY <1>6, <1>7, <2>1 DEF Near
  <2> QED
    BY <1>3, <2>2 DEF FileNear
<1>9. ASSUME NEW q \in Procs \ {p}
      PROVE  InStep(q, proc[q], file', writers') /\ GotNear(proc[q], file', writers', errors')
  <2>1. PICK o \in Runs : o = proc[q]
    BY DEF IInv
  <2>2. InStep(q, o, file, writers) /\ GotNear(o, file, writers, errors)
    BY <2>1 DEF NInv
  <2>3. writers' # {[id |-> q, blob |-> o.blob]} /\ writers' # {}
    <3>1. [id |-> p, blob |-> r.blob].id # [id |-> q, blob |-> o.blob].id
      OBVIOUS
    <3> QED
      BY <1>3, <3>1
  <2>4. InStep(q, o, file', writers')
    BY <2>2, <2>3 DEF InStep, Alone
  <2>5. GotNear(o, file', writers', errors')
    <3> SUFFICES ASSUME errors <= 1, NEW w \in o.seen, o.seen = {w}, o.pc = "bytes" \/ Checked(o)
                 PROVE  \E j \in Nat : /\ Near(o.got, w.blob, j, errors)
                                       /\ o.pc = "bytes" /\ writers' = {w} => Off(file', w.blob, j)
      BY <1>3 DEF GotNear
    <3>1. PICK j \in Nat : Near(o.got, w.blob, j, errors)
      BY <2>2 DEF GotNear
    <3>2. writers' = {w} => Off(file', w.blob, j)
      BY <1>3, <1>6, <1>7
    <3> QED
      BY <3>1, <3>2
  <2> QED
    BY <2>1, <2>4, <2>5
<1>10. writers' # {}
  BY <1>3
<1> QED
  BY <1>3, <1>5, <1>8, <1>9, <1>10, FileStep

\* What its only writer adds to a file.
Grown(f, g, b) ==
  /\ Len(f.body) <= Len(g.body) /\ Len(g.body) <= Len(b)
  /\ \A k \in DOMAIN g.body : (k \in DOMAIN f.body /\ g.body[k] = f.body[k]) \/ g.body[k] = b[k]
  /\ g.head = f.head \/ g.head = HeaderOf(b)

LEMMA GrownNear ==
  ASSUME NEW f, NEW g, NEW b \in Texts, Grown(f, g, b), NEW j \in Nat
  PROVE  /\ Off(f, b, j) => Off(g, b, j)
         /\ \A n : Near(f, b, j, n) => Near(g, b, j, n)
<1>1. Off(f, b, j) => Off(g, b, j)
  BY DEF Off, Grown
<1>2. HeadIs(f, b) => HeadIs(g, b)
  BY DEF Grown, HeadIs
<1>3. HeadNear(f, b) => HeadNear(g, b)
  BY HeadersAre DEF Grown, HeadNear
<1>4. HeadIs(f, b) \/ g.head = f.head \/ HeadIs(g, b)
  BY DEF Grown, HeadIs
<1>5. ASSUME NEW n, Near(f, b, j, n) PROVE Near(g, b, j, n)
  BY <1>1, <1>2, <1>3, <1>5 DEF Near
<1> QED
  BY <1>1, <1>5

LEMMA OverlaidGrows ==
  ASSUME NEW body \in Seq(Byte), NEW blob \in Seq(Byte), NEW lo \in Nat, NEW hi \in Nat,
         hi <= Len(blob), Len(body) <= hi, Len(body) = IF lo = 0 THEN 0 ELSE lo - 1,
         NEW o, o = Overlaid(body, blob, lo, hi)
  PROVE  /\ o \in Seq(Byte) /\ Len(o) = hi
         /\ \A k \in DOMAIN o : (k \in DOMAIN body /\ o[k] = body[k]) \/ o[k] = blob[k]
<1>1. PICK m \in Nat : m = IF hi > Len(body) THEN hi ELSE Len(body)
  OBVIOUS
<1>2. m = hi
  BY <1>1
<1>3. o = [k \in 1 .. m |->
             IF k \in lo .. hi THEN blob[k] ELSE IF k <= Len(body) THEN body[k] ELSE 0]
  BY <1>1 DEF Overlaid
<1>4. o \in Seq(Byte)
  BY OverlaidIs
<1>5. DOMAIN o = 1 .. hi
  BY <1>2, <1>3
<1>6. Len(o) = hi
  BY <1>4, <1>5, LenProperties
<1>7. ASSUME NEW k \in 1 .. hi
      PROVE  (k \in DOMAIN body /\ o[k] = body[k]) \/ o[k] = blob[k]
  <2>1. CASE k \in lo .. hi
    BY <1>2, <1>3, <2>1
  <2>2. CASE k \notin lo .. hi
    <3>1. k \in 1 .. Len(body)
      BY <2>2
    <3>2. o[k] = body[k]
      BY <1>2, <1>3, <2>2, <3>1
    <3> QED
      BY <3>1, <3>2
  <2> QED
    BY <2>1, <2>2
<1> QED
  BY <1>4, <1>5, <1>6, <1>7

LEMMA FlushNear ==
  ASSUME IInv, NInv, NEW p \in Procs, NEW n \in Nat \ {0}, Flush(p, n)
  PROVE  NInv'
<1>1. PICK r \in Runs : r = proc[p] /\ RunOK(r) /\ r.pc = "writing"
  BY DEF IInv, Flush, At
<1>2. PICK me : me = [id |-> p, blob |-> r.blob]
  OBVIOUS
<1>3. PICK new : new = [r EXCEPT !.sent = @ + n]
  OBVIOUS
<1>4. /\ r.sent + n <= 1 + Len(r.blob) /\ proc' = [proc EXCEPT ![p] = new]
      /\ writers' = writers \cup {me} /\ errors' = errors
      /\ file' = [head |-> IF r.sent = 0 THEN HeaderOf(r.blob)
                           ELSE IF file.head.kind = "none" THEN ZeroHeader ELSE file.head,
                  body |-> Overlaid(file.body, r.blob, r.sent, r.sent + n - 1)]
  BY <1>1, <1>2, <1>3 DEF Flush, Me
<1>5. PICK b \in Texts, sent \in Nat : b = r.blob /\ sent = r.sent
  BY DEF Runs
<1>6. b \in Seq(Byte) /\ Len(b) \in Nat
  BY TextsAre
<1>7. /\ new.pc = "writing" /\ new.blob = b /\ new.sent = sent + n /\ ~Checked(new)
      /\ me.blob = b
  BY <1>1, <1>2, <1>3, <1>5 DEF Runs, Checked
<1>8. InStep(p, r, file, writers) /\ writers # {}
  BY <1>1 DEF NInv, InStep
<1>9. PICK body \in Seq(Byte) : body = file.body /\ file.head \in Headers
  BY DEF IInv, Files
<1>10. ASSUME writers' = {me}
       PROVE  /\ Grown(file, file', b) /\ Len(file'.body) = sent + n - 1
              /\ file'.head.kind # "none"
  <2>1. writers = {me}
    BY <1>4, <1>8, <1>10
  <2>2. IF sent = 0 THEN file = EmptyFile ELSE Len(body) = sent - 1 /\ file.head.kind # "none"
    BY <1>1, <1>2, <1>5, <1>8, <1>9, <2>1 DEF InStep, Alone
  <2>3. PICK hi \in Nat : hi = sent + n - 1
    OBVIOUS
  <2>4. Len(body) = IF sent = 0 THEN 0 ELSE sent - 1
    BY <1>9, <2>2, HeadersAre
  <2>5. Len(body) <= hi /\ hi <= Len(b)
    <3>1. sent + n <= 1 + Len(b)
      BY <1>4, <1>5
    <3> QED
      BY ONLY <1>6, <2>3, <2>4, <3>1, sent \in Nat, n \in Nat \ {0}, hi \in Nat
  <2>6. PICK o : o = Overlaid(body, b, sent, hi)
    OBVIOUS
  <2>7. /\ o \in Seq(Byte) /\ Len(o) = hi
        /\ \A k \in DOMAIN o : (k \in DOMAIN body /\ o[k] = body[k]) \/ o[k] = b[k]
    BY <1>6, <2>4, <2>5, <2>6, OverlaidGrows
  <2>8. file'.body = o
    BY <1>4, <1>5, <1>9, <2>3, <2>6
  <2>9. file'.head = HeaderOf(b) \/ (sent # 0 /\ file'.head = file.head)
    <3>1. file'.head = IF sent = 0 THEN HeaderOf(b)
                       ELSE IF file.head.kind = "none" THEN ZeroHeader ELSE file.head
      BY <1>4, <1>5
    <3> QED
      BY <2>2, <3>1
  <2>10. file'.head.kind # "none"
    BY <2>2, <2>9, HeadersAre
  <2> QED
    BY <1>9, <2>3, <2>5, <2>7, <2>8, <2>9, <2>10 DEF Grown
<1>11. ASSUME NEW w, writers' = {w} PROVE w = me /\ writers = {w} /\ writers' = {me}
  BY <1>4, <1>8, <1>11
<1>12. InStep(p, new, file', writers')
  <2>1. Alone(p, new, file', writers')
    <3> SUFFICES ASSUME writers' = {me}
                 PROVE  IF new.sent = 0 THEN file' = EmptyFile
                        ELSE Len(file'.body) = new.sent - 1 /\ file'.head.kind # "none"
      BY <1>2, <1>5, <1>7 DEF Alone
    <3>1. Len(file'.body) = sent + n - 1 /\ file'.head.kind # "none"
      BY <1>10
    <3> QED
      BY <1>7, <3>1
  <2> QED
    BY <1>4, <1>7, <2>1 DEF InStep
<1>13. GotNear(new, file', writers', errors')
  BY <1>7 DEF GotNear
<1>14. FileNear(file', writers', errors')
  <2> SUFFICES ASSUME errors <= 1, NEW w \in writers', writers' = {w}
               PROVE  \E j \in Nat : Near(file', w.blob, j, errors)
    BY <1>4 DEF FileNear
  <2>1. w = me /\ writers = {w} /\ Grown(file, file', b)
    BY <1>10, <1>11
  <2>2. PICK j \in Nat : Near(file, b, j, errors)
    BY <1>7, <2>1 DEF NInv, FileNear
  <2>3. Near(file', b, j, errors)
    BY <2>1, <2>2, GrownNear
  <2> QED
    BY <1>7, <2>1, <2>3
<1>15. ASSUME NEW q \in Procs \ {p}
       PROVE  InStep(q, proc[q], file', writers') /\ GotNear(proc[q], file', writers', errors')
  <2>1. PICK o \in Runs : o = proc[q]
    BY DEF IInv
  <2>2. InStep(q, o, file, writers) /\ GotNear(o, file, writers, errors)
    BY <2>1 DEF NInv
  <2>3. writers' # {[id |-> q, blob |-> o.blob]} /\ writers' # {}
    BY <1>2, <1>4
  <2>4. InStep(q, o, file', writers')
    BY <2>2, <2>3 DEF InStep, Alone
  <2>5. GotNear(o, file', writers', errors')
    <3> SUFFICES ASSUME errors <= 1, NEW w \in o.seen, o.seen = {w}, o.pc = "bytes" \/ Checked(o)
                 PROVE  \E j \in Nat : /\ Near(o.got, w.blob, j, errors)
                                       /\ o.pc = "bytes" /\ writers' = {w} => Off(file', w.blob, j)
      BY <1>4 DEF GotNear
    <3>1. PICK j \in Nat : /\ Near(o.got, w.blob, j, errors)
                           /\ o.pc = "bytes" /\ writers = {w} => Off(file, w.blob, j)
      BY <2>2 DEF GotNear
    <3>2. ASSUME o.pc = "bytes", writers' = {w} PROVE Off(file', w.blob, j)
      <4>1. w = me /\ writers = {w} /\ Grown(file, file', b)
        BY <1>10, <1>11, <3>2
      <4>2. Off(file, b, j)
        BY <1>7, <3>1, <3>2, <4>1
      <4>3. Off(file', b, j)
        BY <4>1, <4>2, GrownNear
      <4> QED
        BY <1>7, <4>1, <4>3
    <3> QED
      BY <3>1, <3>2
  <2> QED
    BY <2>1, <2>4, <2>5
<1>16. writers' # {}
  BY <1>4
<1> QED
  BY <1>4, <1>12, <1>13, <1>14, <1>15, <1>16, FileStep

\* One damage, of byte j, or of the header when that is 0.
Harm(f, g, j) ==
  /\ Len(g.body) = Len(f.body) /\ DOMAIN g.body = DOMAIN f.body
  /\ \A k \in DOMAIN f.body : k # j => g.body[k] = f.body[k]
  /\ f # EmptyFile /\ (f.head.kind # "none" => g.head.kind # "none")
  /\ \/ g.head = f.head
     \/ /\ j = 0 /\ f.head.kind = "good"
        /\ \/ g.head.kind = "bad"
           \/ g.head.bytecode_size = f.head.bytecode_size
           \/ g.head.checksum = f.head.checksum

LEMMA DamageIs == ASSUME IInv, Damage PROVE \E j \in Nat : Harm(file, file', j)
<1>1. PICK f \in Files : f = file
  BY DEF IInv
<1>2. f.head \in Headers /\ f.body \in Seq(Byte) /\ Len(f.body) \in Nat
  BY DEF Files
<1>3. CASE \E k \in DOMAIN file.body, b \in Byte : file' = [file EXCEPT !.body[k] = b]
  <2>1. PICK k \in DOMAIN f.body, b \in Byte : file' = [f EXCEPT !.body[k] = b]
    BY <1>1, <1>3
  <2>2. PICK o : o = [f.body EXCEPT ![k] = b]
    OBVIOUS
  <2>3. /\ o \in Seq(Byte) /\ Len(o) = Len(f.body) /\ DOMAIN o = DOMAIN f.body
        /\ \A i \in DOMAIN f.body : i # k => o[i] = f.body[i]
    BY <1>2, <2>1, <2>2, ExceptSeq
  <2>4. file' = [f EXCEPT !.body = o]
    BY <2>1, <2>2
  <2>5. file'.body = o /\ file'.head = f.head
    BY <2>4 DEF Files
  <2>6. f # EmptyFile
    <3>1. DOMAIN <<>> = {}
      OBVIOUS
    <3> QED
      BY <2>1, <3>1, HeadersAre
  <2>7. k \in Nat
    BY <1>2, <2>1
  <2>8. Harm(f, file', k)
    BY <2>3, <2>5, <2>6 DEF Harm
  <2> QED
    BY <1>1, <2>7, <2>8
<1>4. ASSUME f.head.kind = "good", NEW head, file' = [f EXCEPT !.head = head],
             head.kind \in {"bad", "good"},
             \/ head.kind = "bad"
             \/ head.bytecode_size = f.head.bytecode_size
             \/ head.checksum = f.head.checksum
      PROVE  \E j \in Nat : Harm(f, file', j)
  <2>1. file'.body = f.body /\ file'.head = head
    BY <1>4 DEF Files
  <2>2. f # EmptyFile
    BY <1>4, HeadersAre
  <2>3. Harm(f, file', 0)
    BY <1>4, <2>1, <2>2 DEF Harm
  <2> QED
    BY <2>3
<1>5. CASE file.head.kind = "good" /\ file' = [file EXCEPT !.head.kind = "bad"]
  <2>1. PICK head : head = [f.head EXCEPT !.kind = "bad"]
    OBVIOUS
  <2>2. file' = [f EXCEPT !.head = head] /\ head.kind = "bad"
    BY <1>1, <1>2, <1>5, <2>1 DEF Headers
  <2> QED
    BY <1>1, <1>4, <1>5, <2>2
<1>6. CASE file.head.kind = "good" /\ \E n \in 0 .. Len(file.body) + 1 :
             file' = [file EXCEPT !.head.bytecode_size = n]
  <2>1. PICK n : file' = [file EXCEPT !.head.bytecode_size = n]
    BY <1>6
  <2>2. PICK head : head = [f.head EXCEPT !.bytecode_size = n]
    OBVIOUS
  <2>3. /\ file' = [f EXCEPT !.head = head] /\ head.kind = "good"
        /\ head.checksum = f.head.checksum
    BY <1>1, <1>2, <1>6, <2>1, <2>2 DEF Headers
  <2> QED
    BY <1>1, <1>4, <1>6, <2>3
<1>7. CASE file.head.kind = "good" /\ \E c \in Byte : file' = [file EXCEPT !.head.checksum = c]
  <2>1. PICK c : file' = [file EXCEPT !.head.checksum = c]
    BY <1>7
  <2>2. PICK head : head = [f.head EXCEPT !.checksum = c]
    OBVIOUS
  <2>3. /\ file' = [f EXCEPT !.head = head] /\ head.kind = "good"
        /\ head.bytecode_size = f.head.bytecode_size
    BY <1>1, <1>2, <1>7, <2>1, <2>2 DEF Headers
  <2> QED
    BY <1>1, <1>4, <1>7, <2>3
<1> QED
  BY <1>1, <1>3, <1>5, <1>6, <1>7 DEF Damage

\* What was undamaged is near to its blob afterwards: the file, and what a run
\* has read of it.
LEMMA HarmNear ==
  ASSUME NEW f, NEW g, NEW b \in Texts, NEW j \in Nat, Harm(f, g, j)
  PROVE  /\ Off(f, b, 0) => Off(g, b, j)
         /\ Near(f, b, 0, 0) => Near(g, b, j, 1)
<1>1. ASSUME Off(f, b, 0) PROVE Off(g, b, j)
  <2>1. Len(g.body) <= Len(b)
    BY <1>1 DEF Off, Harm
  <2>2. ASSUME NEW k \in DOMAIN g.body, k # j, k # 0 PROVE g.body[k] = b[k]
    BY <1>1, <2>2 DEF Off, Harm
  <2>3. ASSUME 0 \in DOMAIN g.body, j # 0 PROVE g.body[0] = b[0]
    BY <1>1, <2>3 DEF Off, Harm
  <2> QED
    BY <2>1, <2>2, <2>3 DEF Off
<1>2. ASSUME Near(f, b, 0, 0) PROVE Near(g, b, j, 1)
  <2>1. Off(g, b, j) /\ HeadIs(f, b) /\ HeadNear(f, b)
    BY <1>1, <1>2 DEF Near
  <2>2. CASE g.head = f.head
    BY <2>1, <2>2 DEF Near, HeadIs, HeadNear
  <2>3. CASE /\ j = 0 /\ f.head.kind = "good"
             /\ \/ g.head.kind = "bad"
                \/ g.head.bytecode_size = f.head.bytecode_size
                \/ g.head.checksum = f.head.checksum
    <3>1. f.head.bytecode_size = Len(b) /\ f.head.checksum = compute_checksum(b)
      BY <2>1, <2>3, HeadersAre DEF HeadIs
    <3>2. HeadNear(g, b)
      BY <2>3, <3>1 DEF HeadNear
    <3> QED
      BY <2>1, <2>3, <3>2 DEF Near
  <2> QED
    BY <1>2, <2>2, <2>3 DEF Harm
<1> QED
  BY <1>1, <1>2

LEMMA DamageNear == ASSUME IInv, NInv, Damage PROVE NInv'
<1>1. PICK j \in Nat : Harm(file, file', j)
  BY DamageIs
<1>2. UNCHANGED <<proc, writers>> /\ errors' = errors + 1 /\ errors \in Nat
  BY DEF Damage, IInv
<1>3. writers # {}
  BY <1>1 DEF NInv, Harm
<1>4. errors' <= 1 => errors = 0 /\ errors' = 1
  BY <1>2
<1>5. FileNear(file', writers, errors')
  <2> SUFFICES ASSUME errors' <= 1, NEW w \in writers, writers = {w}
               PROVE  \E i \in Nat : Near(file', w.blob, i, errors')
    BY DEF FileNear
  <2>1. PICK i \in Nat : Near(file, w.blob, i, errors)
    BY <1>4 DEF NInv, FileNear
  <2>2. Near(file, w.blob, 0, 0)
    BY <1>4, <2>1 DEF Near
  <2>3. w.blob \in Texts
    BY DEF IInv, Writers
  <2> QED
    BY <1>1, <1>4, <2>2, <2>3, HarmNear
<1>6. ASSUME NEW p \in Procs
      PROVE  InStep(p, proc[p], file', writers) /\ GotNear(proc[p], file', writers, errors')
  <2>1. PICK r \in Runs : r = proc[p]
    BY DEF IInv
  <2>2. InStep(p, r, file, writers) /\ GotNear(r, file, writers, errors)
    BY <2>1 DEF NInv
  <2>3. InStep(p, r, file', writers)
    BY <1>1, <2>2 DEF InStep, Alone, Harm
  <2>4. GotNear(r, file', writers, errors')
    <3> SUFFICES ASSUME errors' <= 1, NEW w \in r.seen, r.seen = {w}, r.pc = "bytes" \/ Checked(r)
                 PROVE  \E i \in Nat : /\ Near(r.got, w.blob, i, 1)
                                       /\ (r.pc = "bytes" /\ writers = {w}) => Off(file', w.blob, i)
      BY <1>4 DEF GotNear
    <3>1. PICK i \in Nat : /\ Near(r.got, w.blob, i, 0)
                           /\ (r.pc = "bytes" /\ writers = {w}) => Off(file, w.blob, i)
      BY <1>4, <2>2 DEF GotNear
    <3>2. i = 0 /\ HeadIs(r.got, w.blob) /\ Off(r.got, w.blob, 0) /\ HeadNear(r.got, w.blob)
      BY <3>1 DEF Near
    <3>3. Near(r.got, w.blob, j, 1)
      BY <3>2 DEF Near, Off
    <3>4. w.blob \in Texts
      BY DEF Runs, Writers
    <3>5. r.pc = "bytes" /\ writers = {w} => Off(file', w.blob, j)
      BY <1>1, <3>1, <3>2, <3>4, HarmNear
    <3> QED
      BY <3>3, <3>5
  <2> QED
    BY <2>1, <2>3, <2>4
<1> QED
  BY <1>2, <1>3, <1>5, <1>6 DEF NInv

LEMMA NearInductive == IInv /\ NInv /\ [Next]_vars => NInv'
<1> SUFFICES ASSUME IInv, NInv, [Next]_vars PROVE NInv'
  OBVIOUS
<1>1. Pieces \subseteq Nat \ {0}
  BY DEF Pieces
<1>2. ASSUME NEW p \in Procs, NEW n \in Pieces, Flush(p, n) \/ ReadBytes(p, n) PROVE NInv'
  BY <1>1, <1>2, FlushNear, ReadBytesNear
<1>3. CASE UNCHANGED vars
  BY <1>3 DEF vars, NInv
<1> QED
  BY <1>2, <1>3, StartNear, WrittenNear, OpenWriteNear, OpenReadNear, ReadHeaderNear,
     ReadEndNear, DecodeNear, DamageNear DEF Next

LEMMA NearInvariant == Spec => [](IInv /\ NInv)
<1>1. Init => IInv /\ NInv
  BY InitInv, InitNear
<1>2. (IInv /\ NInv) /\ [Next]_vars => (IInv /\ NInv)'
  BY Inductive, NearInductive
<1> QED
  BY <1>1, <1>2, PTL DEF Spec

\* What near bytes with the sum and size of their header are.
LEMMA NearTells ==
  ASSUME NEW f \in Files, NEW b \in Texts, NEW j \in Nat, Near(f, b, j, 1),
         f.head.kind = "good", f.head.bytecode_size = Len(f.body), Verifies(f)
  PROVE  /\ Len(f.body) <= Len(b)
         /\ \A k \in 1 .. Len(f.body) : f.body[k] = b[k]
         /\ \A k \in Len(f.body) + 1 .. Len(b) : b[k] = 0
<1>1. PICK a \in Seq(Byte) : a = f.body
  BY DEF Files
<1>2. /\ b \in Seq(Byte) /\ Len(b) \in Nat /\ Len(a) \in Nat
      /\ Len(b) * (ByteSize - 1) < SumSize
  BY TextsAre, TextsFit
<1>3. /\ Len(a) <= Len(b) /\ \A k \in 1 .. Len(a) : k # j => a[k] = b[k]
      /\ compute_checksum(a) = f.head.checksum
  BY <1>1 DEF Near, Off, Verifies
<1>4. CASE j = 0
  <2>1. \A k \in 1 .. Len(a) : a[k] = b[k]
    BY <1>3, <1>4
  <2>2. CASE Len(a) = Len(b)
    BY <1>1, <1>2, <2>1, <2>2
  <2>3. CASE Len(a) # Len(b)
    <3>1. compute_checksum(a) = compute_checksum(b)
      BY <1>1, <1>3, <2>3 DEF Near, HeadNear
    <3>2. \A k \in Len(a) + 1 .. Len(b) : b[k] = 0
      BY <1>2, <1>3, <2>1, <3>1, CutTells
    <3> QED
      BY <1>1, <1>3, <2>1, <3>2
  <2> QED
    BY <2>2, <2>3
<1>5. CASE j # 0
  <2>1. f.head = HeaderOf(b)
    BY <1>5, HeadersAre DEF Near, HeadIs
  <2>2. Len(a) = Len(b) /\ compute_checksum(a) = compute_checksum(b)
    <3>1. f.head.bytecode_size = Len(b) /\ f.head.checksum = compute_checksum(b)
      BY <1>1, <2>1, HeadersAre
    <3> QED
      BY <1>1, <1>3, <3>1
  <2>3. \A k \in 1 .. Len(b) : a[k] \in Nat /\ b[k] \in Nat
    <3>1. \A k \in 1 .. Len(b) : a[k] \in Byte /\ b[k] \in Byte
      BY <1>2, <2>2
    <3>2. Byte \subseteq Nat
      BY FilesAssumption DEF Byte
    <3> QED
      BY <3>1, <3>2, Zenon
  <2>4. \/ \A k \in 1 .. Len(b) : a[k] <= b[k]
        \/ \A k \in 1 .. Len(a) : b[k] <= a[k]
    BY <1>2, <1>3, <2>2, <2>3
  <2>5. ASSUME \A k \in 1 .. Len(b) : a[k] <= b[k] PROVE a = b
    BY <1>2, <2>2, <2>5, SumTells
  <2>6. ASSUME \A k \in 1 .. Len(a) : b[k] <= a[k] PROVE a = b
    <3>1. Len(a) * (ByteSize - 1) < SumSize
      BY <1>2, <2>2, Zenon
    <3>2. b = a
      BY <1>2, <2>2, <2>6, <3>1, SumTells
    <3> QED
      BY <3>2
  <2>7. a = b
    BY <2>4, <2>5, <2>6
  <2> QED
    BY <1>1, <1>2, <2>7
<1> QED
  BY <1>4, <1>5

\* The sum of the bytes notices any one damage to a file that one run of main
\* wrote alone, whichever byte or header field it hits, whenever it happens
\* while the file is written or read, and however much of the file a death left;
\* but for a size that cuts off zeros, which add nothing to the sum.
THEOREM NoticesOneError == Spec => []OneErrorNoticed
<1>1. IInv /\ NInv => OneErrorNoticed
  <2> SUFFICES ASSUME IInv, NInv, NEW p \in Procs, HasLoaded(p), errors = 1,
                      NEW w \in proc[p].seen, proc[p].seen = {w}
               PROVE  LET n == Len(proc[p].got.body) IN
                      /\ n <= Len(w.blob)
                      /\ proc[p].got.body = SubSeq(w.blob, 1, n)
                      /\ \A k \in n + 1 .. Len(w.blob) : w.blob[k] = 0
    BY DEF OneErrorNoticed
  <2>1. PICK r \in Runs : r = proc[p] /\ RunOK(r) /\ Checked(r)
    BY DEF IInv, HasLoaded, At, Checked
  <2>2. PICK b \in Texts : b = w.blob
    BY <2>1 DEF Runs, Writers
  <2>3. InStep(p, r, file, writers) /\ GotNear(r, file, writers, 1)
    BY <2>1 DEF NInv
  <2>4. PICK j \in Nat : Near(r.got, b, j, 1)
    BY <2>1, <2>2, <2>3 DEF GotNear
  <2>5. /\ r.got \in Files /\ r.got.head.kind = "good" /\ Verifies(r.got)
        /\ r.got.head.bytecode_size = Len(r.got.body)
    BY <2>1, <2>3 DEF InStep, RunOK, Runs
  <2>6. /\ Len(r.got.body) <= Len(b)
        /\ \A k \in 1 .. Len(r.got.body) : r.got.body[k] = b[k]
        /\ \A k \in Len(r.got.body) + 1 .. Len(b) : b[k] = 0
    BY <2>4, <2>5, NearTells
  <2>7. r.got.body = SubSeq(b, 1, Len(r.got.body))
    <3>1. PICK a \in Seq(Byte), n \in Nat : a = r.got.body /\ n = Len(a)
      BY <2>5 DEF Files
    <3>2. b \in Seq(Byte)
      BY TextsAre
    <3>3. \A k \in 1 .. n : b[k] \in Byte
      BY <2>6, <3>1, <3>2
    <3>4. /\ SubSeq(b, 1, n) \in Seq(Byte)
          /\ Len(SubSeq(b, 1, n)) = IF 1 <= n THEN n - 1 + 1 ELSE 0
          /\ \A k \in 1 .. n - 1 + 1 : SubSeq(b, 1, n)[k] = b[1 + k - 1]
      BY <3>3, SubSeqProperties
    <3>5. PICK c \in Seq(Byte) : c = SubSeq(b, 1, n)
      BY <3>4
    <3>6. Len(c) = n /\ \A k \in 1 .. n : c[k] = b[k]
      BY <3>4, <3>5
    <3>7. \A k \in 1 .. n : a[k] = c[k]
      BY <2>6, <3>1, <3>6
    <3>8. a = c
      BY <3>1, <3>6, <3>7, SeqEqual
    <3> QED
      BY <3>1, <3>5, <3>8
  <2> QED
    BY <2>1, <2>2, <2>6, <2>7
<1> QED
  BY <1>1, NearInvariant, PTL
=============================================================================
