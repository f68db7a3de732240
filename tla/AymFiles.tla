------------------------------ MODULE AymFiles ------------------------------
(***************************************************************************)
(* Bytecode files (aym_write_bytecode_to_file, aym_load_bytecode_from_file *)
(* and what main does with them): a run of main writes its bytecode to     *)
(* "loop.aym", loads it from there and decodes the buffer it holds, and    *)
(* looks at no status on the way.                                          *)
(*                                                                         *)
(* The runs of several processes share the file.  A stream reaches the     *)
(* file in pieces of any length, at its own offset; a process may die, and *)
(* a flush may fail, between any two of them.                              *)
(***************************************************************************)
EXTENDS Integers, Sequences, FiniteSetsExt

CONSTANTS
  Procs,      \* processes that run main in one directory
  Blobs,      \* the bytecode their programs encode to
  ByteSize,   \* 256
  SumSize,    \* 2^32
  MaxStarts,  \* bound on the runs of main
  MaxErrors   \* bound on the bytes and header fields damaged on the disk

Byte == 0 .. ByteSize - 1

ASSUME FilesAssumption ==
  /\ ByteSize \in Nat \ {0} /\ SumSize \in Nat /\ ByteSize <= SumSize
  /\ Blobs \subseteq Seq(Byte) /\ Blobs # {}
  /\ MaxStarts \in Nat /\ MaxErrors \in Nat

\* The programs are ones that a machine can be loaded with: aym_load_inst_from_mem
\* takes at most 2^20 instructions, of at most six bytes each (BuffersHold,
\* AymBytecode), and 6 * 2^20 * 255 is less than 2^32, so that no sum wraps.  The
\* encoder and the writer have no such limit.
ASSUME SumsFit == \A b \in Blobs : Len(b) * (ByteSize - 1) < SumSize

VARIABLES
  exists,   \* whether there is a file
  file,     \* its header, and the bytes after it
  proc,     \* the run of main of each process
  writers,  \* history: the runs that opened the file last, or wrote to it since
  starts,   \* runs of main begun
  errors    \* history: damages

vars == <<exists, file, proc, writers, starts, errors>>

\* Mutant: counts the bytes.
compute_checksum_Mutant(data) == Len(data) % SumSize
compute_checksum(data) ==
  LET sum[k \in 0 .. Len(data)] == IF k = 0 THEN 0 ELSE (sum[k - 1] + data[k]) % SumSize
  IN sum[Len(data)]

\* kind is "good" for the right magic, version and header size.
NoHeader == [kind |-> "none", bytecode_size |-> 0, checksum |-> 0]
ZeroHeader == [NoHeader EXCEPT !.kind = "bad"]
HeaderOf(blob) ==
  [kind |-> "good", bytecode_size |-> Len(blob), checksum |-> compute_checksum(blob)]

EmptyFile == [head |-> NoHeader, body |-> <<>>]

\* A run of main that has encoded blob.
Started(blob) ==
  [pc |-> "write", blob |-> blob,
   sent |-> 0,                      \* of its stream: the header, then the bytes
   got |-> EmptyFile, seen |-> {},  \* read so far, and history: whose file it was
   bytecode |-> blob, out_size |-> Len(blob), loaded |-> "AYM_OK"]

Over == [Started(<<>>) EXCEPT !.pc = "over"]

Init ==
  /\ exists = FALSE /\ file = EmptyFile
  /\ proc = [p \in Procs |-> Over]
  /\ writers = {} /\ starts = 0 /\ errors = 0

Me(p) == [id |-> p, blob |-> proc[p].blob]
At(p, pc) == proc[p].pc = pc

Start(p) ==
  /\ At(p, "over") /\ starts < MaxStarts
  /\ starts' = starts + 1
  /\ \E blob \in Blobs : proc' = [proc EXCEPT ![p] = Started(blob)]
  /\ UNCHANGED <<exists, file, writers, errors>>

-----------------------------------------------------------------------------
(* aym_write_bytecode_to_file                                                *)

\* The status is not kept: nobody reads it.
Written(p) == proc' = [proc EXCEPT ![p].pc = "load", ![p].sent = 0]

\* AYM_INVALID_ARGUMENT for an empty blob, or AYM_FILE_ERROR when fopen fails.
NoWrite(p) ==
  /\ At(p, "write")
  /\ Written(p)
  /\ UNCHANGED <<exists, file, writers, starts, errors>>

OpenWrite(p) ==
  /\ At(p, "write") /\ proc[p].blob # <<>>
  /\ exists' = TRUE /\ file' = EmptyFile
  /\ writers' = {Me(p)}
  /\ proc' = [proc EXCEPT ![p].pc = "writing"]
  /\ UNCHANGED <<starts, errors>>

\* Bytes lo to hi of blob are put into body, with zeros where it ended before.
Overlaid(body, blob, lo, hi) ==
  [k \in 1 .. IF hi > Len(body) THEN hi ELSE Len(body) |->
     IF k \in lo .. hi THEN blob[k] ELSE IF k <= Len(body) THEN body[k] ELSE 0]

\* The next n of the stream reach the file.
Flush(p, n) ==
  LET r == proc[p]
      head == IF r.sent = 0 THEN HeaderOf(r.blob)
              ELSE IF file.head.kind = "none" THEN ZeroHeader ELSE file.head
  IN
  /\ At(p, "writing") /\ r.sent + n <= 1 + Len(r.blob)
  /\ file' = [head |-> head,
              body |-> Overlaid(file.body, r.blob, r.sent, r.sent + n - 1)]
  /\ writers' = writers \cup {Me(p)}
  /\ proc' = [proc EXCEPT ![p].sent = @ + n]
  /\ UNCHANGED <<exists, starts, errors>>

\* AYM_WRITE_ERROR when fwrite is short, and AYM_OK when fclose is reached: what
\* that could not flush is not looked at, and the stream may end anywhere.
EndWrite(p) ==
  /\ At(p, "writing")
  /\ Written(p)
  /\ UNCHANGED <<exists, file, writers, starts, errors>>

-----------------------------------------------------------------------------
(* aym_load_bytecode_from_file                                               *)

\* The bytes read are assigned to the parameter, and lost; the size is not.
\* Mutant: the size is given to the caller before it is known to be right.
SizeAfter_Mutant(r, s) == r.got.head.bytecode_size
SizeAfter(r, s) == IF s = "AYM_OK" THEN r.got.head.bytecode_size ELSE r.out_size

Loaded(p, r, s) ==
  proc' = [proc EXCEPT ![p] =
             [r EXCEPT !.pc = "decode", !.loaded = s, !.out_size = SizeAfter(r, s)]]

OpenRead(p) ==
  /\ At(p, "load")
  /\ \/ Loaded(p, proc[p], "AYM_FILE_ERROR")
     \/ exists /\ proc' = [proc EXCEPT ![p].pc = "header"]
  /\ UNCHANGED <<exists, file, writers, starts, errors>>

\* Then memory for the bytes is asked for.
ReadHeader(p) ==
  LET r == [proc[p] EXCEPT !.got.head = file.head, !.seen = writers] IN
  /\ At(p, "header")
  /\ \/ file.head.kind = "none" /\ Loaded(p, r, "AYM_READ_ERROR")
     \/ file.head.kind = "bad" /\ Loaded(p, r, "AYM_BAD_HEADER")
     \/ file.head.kind = "good" /\ Loaded(p, r, "AYM_FILE_ERROR")
     \/ file.head.kind = "good" /\ proc' = [proc EXCEPT ![p] = [r EXCEPT !.pc = "bytes"]]
  /\ UNCHANGED <<exists, file, writers, starts, errors>>

\* Mutant: one more than the header says.
Missing_Mutant(got) == got.head.bytecode_size + 1 - Len(got.body)
Missing(got) == got.head.bytecode_size - Len(got.body)

ReadBytes(p, n) ==
  LET at == Len(proc[p].got.body) IN
  /\ At(p, "bytes") /\ n <= Missing(proc[p].got) /\ at + n <= Len(file.body)
  /\ proc' = [proc EXCEPT ![p].got.body = @ \o SubSeq(file.body, at + 1, at + n),
                          ![p].seen = @ \cup writers]
  /\ UNCHANGED <<exists, file, writers, starts, errors>>

\* Mutant: not looked at.
Verifies_Mutant(got) == TRUE
Verifies(got) == compute_checksum(got.body) = got.head.checksum

\* fread comes short at the end of the file, or because reading fails.
ReadEnd(p) ==
  LET r == proc[p] IN
  /\ At(p, "bytes")
  /\ Loaded(p, r, IF Missing(r.got) > 0 THEN "AYM_READ_ERROR"
                  ELSE IF Verifies(r.got) THEN "AYM_OK" ELSE "AYM_CHECKSUM_MISMATCH")
  /\ UNCHANGED <<exists, file, writers, starts, errors>>

-----------------------------------------------------------------------------

\* main decodes out_size bytes of its buffer, whatever the two calls returned.
Decode(p) ==
  /\ At(p, "decode")
  /\ proc' = [proc EXCEPT ![p] = Over]
  /\ UNCHANGED <<exists, file, writers, starts, errors>>

\* What a stream has not flushed dies with its process.
Die(p) ==
  /\ ~At(p, "over") /\ ~At(p, "decode")
  /\ proc' = [proc EXCEPT ![p] = Over]
  /\ UNCHANGED <<exists, file, writers, starts, errors>>

\* What the checksum is for: a byte of the file, or a field of its header, is
\* not what was written.
Damage ==
  /\ errors < MaxErrors
  /\ errors' = errors + 1
  /\ \/ \E k \in DOMAIN file.body, b \in Byte :
          b # file.body[k] /\ file' = [file EXCEPT !.body[k] = b]
     \/ /\ file.head.kind = "good"
        /\ \/ file' = [file EXCEPT !.head.kind = "bad"]
           \/ \E n \in 0 .. Len(file.body) + 1 :
                file' = [file EXCEPT !.head.bytecode_size = n]
           \/ \E c \in Byte : file' = [file EXCEPT !.head.checksum = c]
  /\ UNCHANGED <<exists, proc, writers, starts>>

Pieces == 1 .. 1 + Max({Len(b) : b \in Blobs})

Next ==
  \/ \E p \in Procs :
       \/ Start(p) \/ NoWrite(p) \/ OpenWrite(p) \/ EndWrite(p)
       \/ OpenRead(p) \/ ReadHeader(p) \/ ReadEnd(p) \/ Decode(p) \/ Die(p)
       \/ \E n \in Pieces : Flush(p, n) \/ ReadBytes(p, n)
  \/ Damage

Spec == Init /\ [][Next]_vars

-----------------------------------------------------------------------------

Statuses ==
  {"AYM_OK", "AYM_FILE_ERROR", "AYM_READ_ERROR", "AYM_BAD_HEADER", "AYM_CHECKSUM_MISMATCH"}

Headers == [kind : {"none", "bad", "good"}, bytecode_size : Nat, checksum : 0 .. SumSize - 1]
Files == [head : Headers, body : Seq(Byte)]

\* Types of the state.  No stream is past its end, and no more is read than the
\* header asks for.
TypeOK ==
  /\ exists \in BOOLEAN /\ file \in Files
  /\ \A p \in Procs :
       LET r == proc[p] IN
       /\ r.pc \in {"write", "writing", "load", "header", "bytes", "decode", "over"}
       /\ r.blob \in Blobs \cup {<<>>} /\ r.sent \in 0 .. 1 + Len(r.blob)
       /\ r.got \in Files /\ Len(r.got.body) <= r.got.head.bytecode_size
       /\ r.out_size \in Nat
       /\ r.loaded \in Statuses
  /\ starts \in 0 .. MaxStarts /\ errors \in 0 .. MaxErrors

HasLoaded(p) == At(p, "decode") /\ proc[p].loaded = "AYM_OK"

\* A load that returns AYM_OK has read exactly what was encoded, if the file
\* came from runs of one program and is undamaged: however many of them wrote it
\* at once, died in the middle or began it anew while it was being read.
LoadedIsWhole ==
  \A p \in Procs :
    HasLoaded(p) /\ errors = 0 =>
      \A w \in proc[p].seen :
        (\A v \in proc[p].seen : v.blob = w.blob) => proc[p].got.body = w.blob

\* Of a file that one run wrote alone a single damage is noticed, unless it is
\* in the header's size and all it cuts off are zeros: as the last byte of a
\* program is when its last instruction has no operands.
OneErrorNoticed ==
  \A p \in Procs :
    HasLoaded(p) /\ errors = 1 =>
      \A w \in proc[p].seen :
        proc[p].seen = {w} =>
          LET n == Len(proc[p].got.body) IN
          /\ n <= Len(w.blob)
          /\ proc[p].got.body = SubSeq(w.blob, 1, n)
          /\ \A k \in n + 1 .. Len(w.blob) : w.blob[k] = 0

\* What main decodes is what it encoded, whatever became of the file and although
\* it looks at no status, unless a load succeeded in reading another run's file,
\* or a damaged one: of that file it takes the size, and nothing else.
RunsItsOwn ==
  \A p \in Procs :
    At(p, "decode") =>
      LET r == proc[p] IN
      /\ r.bytecode = r.blob
      /\ r.out_size # Len(r.blob) =>
           /\ r.loaded = "AYM_OK" /\ r.out_size = Len(r.got.body)
           /\ errors > 0 \/ \E w \in r.seen : w.blob # r.blob
=============================================================================
