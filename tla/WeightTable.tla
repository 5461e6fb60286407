------------------------------ MODULE WeightTable ------------------------------
(***************************************************************************)
(* The version 1 container: the writer lays a weight or a golden file out, *)
(* a damage may change one field of it or cut it short, and                *)
(* WeightFile::load or GoldenFile::load walks the result record by record. *)
(* A name is [len, ok]: names of different lengths are different, ok says  *)
(* it is printable.  Files are far below 2^63 bytes, so that no sum of     *)
(* theirs wraps.                                                           *)
(***************************************************************************)
EXTENDS Integers, Sequences, SequencesExt, FiniteSetsExt, Functions

CONSTANTS Dims,       \* shapes of the tensors
          MaxTensors, \* longest tensor list
          MaxSeqLen   \* max_seq_len of the config

WeightTableAssumption ==
  /\ MaxTensors \in Nat \ {0} /\ MaxSeqLen \in Nat \ {0}
  /\ \A d \in Dims : Len(d) \in {1, 2} /\ \A k \in DOMAIN d : d[k] \in Nat \ {0}

kPayloadAlign == 16
kMaxNameLen == 255
kMaxDimValue == 10000000
Kinds == {"weight", "golden"}
kHeaderBytes(kind) == IF kind = "weight" THEN 72 ELSE 80

VARIABLES
  file,     \* the bytes on disk, by field
  written,  \* the tensors they were written for
  pc,       \* "written", "ready", "table", "ok" or "error"
  pos,      \* where the walk is
  tensors   \* WeightFile::tensors_
vars == <<file, written, pc, pos, tensors>>

AlignUp(n) == ((n + kPayloadAlign - 1) \div kPayloadAlign) * kPayloadAlign

(* dtype_element_bytes of FP16, INT4_PACKED and FP16_SCALE.                *)
ElementBytes == <<2, 1, 2>>

(* expected_bytes.                                                         *)
expected_bytes(dtype, dims) == FoldSeq(LAMBDA d, n : d * n, ElementBytes[dtype], dims)

(* TensorRecord.encode: the bytes of a record.                             *)
RecordBytes(r) == 4 + r.name.len + 2 + 4 * Len(r.dims) + 17 + 7

TableBytes(rs) == FoldLeft(LAMBDA n, r : n + RecordBytes(r), 0, rs)

(* Pass 1 of _ContainerWriter.build: offsets in table order.               *)
Offsets(ts) ==
  LET at[k \in 1..Len(ts)] ==
        IF k = 1 THEN 0
        ELSE AlignUp(at[k - 1] + expected_bytes(ts[k - 1].dtype, ts[k - 1].dims))
  IN  at

(* _ContainerWriter.build.                                                 *)
Build(kind, ts) ==
  LET records == [k \in DOMAIN ts |->
        [name |-> ts[k].name, dtype |-> ts[k].dtype, dims |-> ts[k].dims,
         offset |-> Offsets(ts)[k], byte_size |-> expected_bytes(ts[k].dtype, ts[k].dims),
         align |-> kPayloadAlign, pad |-> 0]]
      payload == AlignUp(kHeaderBytes(kind) + TableBytes(records))
      last == records[Len(records)]
  IN  [kind |-> kind, n |-> payload + last.offset + last.byte_size, magic |-> kind,
       version |-> 1, flags |-> 0, nt |-> Len(ts), position |-> 0, reserved |-> 0,
       table_off |-> kHeaderBytes(kind), payload_off |-> payload, records |-> records]

(* What a list of tensors the writer accepts looks like: add() refuses a   *)
(* name twice.                                                             *)
TensorLists ==
  {[k \in DOMAIN s |-> [name |-> [len |-> k, ok |-> TRUE], dtype |-> s[k][1], dims |-> s[k][2]]]
   : s \in SeqOf((1..3) \X Dims, MaxTensors) \ {<<>>}}

Init ==
  \E kind \in Kinds, ts \in TensorLists :
    /\ file = Build(kind, ts) /\ written = ts
    /\ pc = "written" /\ pos = 0 /\ tensors = <<>>

Field(k, name, v) == [file EXCEPT !.records[k][name] = v]

(* One record with one field changed.                                      *)
RecordDamages ==
  UNION {LET r == file.records[k] IN
         {Field(k, "offset", o) : o \in {r.offset + d : d \in {-16, 16, 8}} \cap Nat}
         \cup {Field(k, "byte_size", r.byte_size + d) : d \in {-1, 1}}
         \cup {Field(k, "dims", d) : d \in {e \in Dims : Len(e) = Len(r.dims)}}
         \cup {Field(k, "dims", [r.dims EXCEPT ![1] = v]) : v \in {0, kMaxDimValue + 1}}
         \cup {Field(k, "dtype", d) : d \in 1..4}
         \cup {Field(k, "align", a) : a \in {0, 3, 8, 32}}
         \cup {Field(k, "pad", 1), Field(k, "name", [r.name EXCEPT !.ok = FALSE])}
         \cup {Field(k, "name", q.name) : q \in {q \in Range(file.records) :
                                                 q.name.len = r.name.len}}
         : k \in DOMAIN file.records}

(* The header with one field changed, or the file cut short.               *)
FileDamages ==
  {[file EXCEPT !.n = c] : c \in {0, file.table_off - 1, file.payload_off - 1,
                                  file.payload_off, file.n - 1}}
  \cup {[file EXCEPT !.payload_off = file.payload_off + d] : d \in {-16, 8, 16}}
  \cup {[file EXCEPT !.nt = file.nt + d] : d \in {-1, 1}}
  \cup {[file EXCEPT !.magic = k] : k \in Kinds}
  \cup {[file EXCEPT !.version = 2], [file EXCEPT !.flags = 1],
        [file EXCEPT !.table_off = file.table_off + 8]}
  \cup (IF file.kind = "golden"
        THEN {[file EXCEPT !.position = p] : p \in {-1, MaxSeqLen - 1, MaxSeqLen}}
             \cup {[file EXCEPT !.reserved = 1]}
        ELSE {})
  \cup (IF file.nt > 1 /\ file.records[1].byte_size = file.records[2].byte_size
        THEN {[file EXCEPT !.records[1].offset = file.records[2].offset]}
        ELSE {})

Damage ==
  /\ pc = "written"
  /\ file' \in {file} \cup RecordDamages \cup FileDamages
  /\ pc' = "ready"
  /\ UNCHANGED <<written, pos, tensors>>

(* The header checks of both loads; each clears the object first.          *)
HeaderOk ==
  /\ file.n >= kHeaderBytes(file.kind)
  /\ file.magic = file.kind /\ file.version = 1 /\ file.flags = 0
  /\ file.nt \in 1..10000
  /\ file.kind = "golden" => file.position \in 0..MaxSeqLen - 1 /\ file.reserved = 0
  /\ file.table_off = kHeaderBytes(file.kind)
  /\ file.payload_off \in file.table_off..file.n
  /\ file.payload_off % kPayloadAlign = 0

LoadHeader ==
  /\ pc = "ready"
  /\ pc' = IF HeaderOk THEN "table" ELSE "error"
  /\ pos' = file.table_off
  /\ tensors' = <<>>
  /\ UNCHANGED <<file, written>>

payload_size == file.n - file.payload_off

Aligned(r) == LET addr == file.payload_off + r.offset
              IN  /\ addr % kPayloadAlign = 0
                  /\ r.align \in {1, 2, 4, 8, 16}
                  /\ addr % r.align = 0

(* The checks of one record, apart from where it ends.                     *)
RecordOk(r) ==
  /\ r.name.len \in 1..kMaxNameLen /\ r.name.ok
  /\ r.name \notin {t.name : t \in Range(tensors)}
  /\ r.dtype \in 1..3 /\ Len(r.dims) \in {1, 2}
  /\ \A k \in DOMAIN r.dims : r.dims[k] \in 1..kMaxDimValue
  /\ r.pad = 0
  /\ r.byte_size = expected_bytes(r.dtype, r.dims)
  /\ r.offset + r.byte_size <= payload_size
  /\ Aligned(r)

(* Every check of pos against payload_off but the last, which the final    *)
(* one makes for the reserved bytes.                                       *)
RecordFits(r) == pos + RecordBytes(r) - 7 <= file.payload_off

(* A record, or what is read past the last one: the zero gap before the    *)
(* payload, whose name_len is 0.                                           *)
ReadRecord ==
  /\ pc = "table" /\ Len(tensors) < file.nt
  /\ \/ /\ Len(tensors) < Len(file.records)
        /\ LET r == file.records[Len(tensors) + 1]
           IN  IF RecordFits(r) /\ RecordOk(r)
               THEN pos' = pos + RecordBytes(r) /\ tensors' = Append(tensors, r) /\ pc' = pc
               ELSE pc' = "error" /\ UNCHANGED <<pos, tensors>>
     \/ /\ Len(tensors) >= Len(file.records)
        /\ pc' = "error" /\ UNCHANGED <<pos, tensors>>
  /\ UNCHANGED <<file, written>>

ByOffset(a, b) == a.offset < b.offset \/ (a.offset = b.offset /\ a.byte_size < b.byte_size)

(* Sorted by offset and size, neighbours do not overlap.                   *)
NoOverlap ==
  LET regions == SortSeq([k \in DOMAIN tensors |->
                            [offset |-> tensors[k].offset, byte_size |-> tensors[k].byte_size]],
                         ByOffset)
  IN  \A k \in 1..Len(regions) - 1 :
        regions[k + 1].offset >= regions[k].offset + regions[k].byte_size

Finish ==
  /\ pc = "table" /\ Len(tensors) = file.nt
  /\ pc' = IF pos <= file.payload_off /\ NoOverlap THEN "ok" ELSE "error"
  /\ UNCHANGED <<file, written, pos, tensors>>

Next == Damage \/ LoadHeader \/ ReadRecord \/ Finish

Spec == Init /\ [][Next]_vars

--------------------------------------------------------------------------------

Done == pc \in {"ok", "error"}
Untouched == file = Build(file.kind, written)

(* What the writer writes, the loader accepts and finds as it was added.   *)
RoundTrip ==
  Done /\ Untouched =>
    /\ pc = "ok"
    /\ [k \in DOMAIN tensors |-> [name |-> tensors[k].name, dtype |-> tensors[k].dtype,
                                  dims |-> tensors[k].dims]] = written

(* A file with one damaged field or one that was cut short either fails to *)
(* load or gives every tensor the very bytes it was written with: no       *)
(* tensor ever reads a piece of another one.                               *)
TensorsReadTheirOwn ==
  pc = "ok" =>
    \A k \in DOMAIN tensors :
      LET w == written[k]
      IN  /\ tensors[k].offset = Offsets(written)[k]
          /\ tensors[k].byte_size = expected_bytes(w.dtype, w.dims)
          /\ file.payload_off + tensors[k].offset + tensors[k].byte_size <= file.n

(* Comparing neighbours is enough: after a load all regions are apart.     *)
RegionsApart ==
  pc = "ok" =>
    \A a, b \in DOMAIN tensors :
      a # b => \/ tensors[a].offset + tensors[a].byte_size <= tensors[b].offset
               \/ tensors[b].offset + tensors[b].byte_size <= tensors[a].offset
================================================================================
