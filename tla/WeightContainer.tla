---------------------------- MODULE WeightContainer ----------------------------
(***************************************************************************)
(* The version 2 container: V2File.to_bytes (weights) or                   *)
(* GoldenV2File.to_bytes (golden references) writes a file, one of its     *)
(* fields may be damaged or its end cut off, and WeightFileV2::load or     *)
(* GoldenFileV2::load reads it into an object, which may hold an earlier   *)
(* file.  A name is [len, ok]: ok says its characters are of the charset.  *)
(* Sizes stay far below 2^63, so that no sum or product of theirs wraps.   *)
(***************************************************************************)
EXTENDS Integers, Sequences, SequencesExt, FiniteSetsExt, Functions

CONSTANTS Dims,        \* shapes of the tensors
          MaxTensors,  \* longest tensor list, and longest name
          Metadata,    \* metadata lists, of [key, vlen]
          NameCharset, \* is a written name of the charset?  {TRUE} or BOOLEAN
          Loads        \* files read into the one object

WeightContainerAssumption ==
  /\ MaxTensors \in 0..44 /\ Loads \in Nat \ {0} /\ NameCharset \subseteq BOOLEAN
  /\ \A d \in Dims : Len(d) \in 1..8 /\ \A k \in DOMAIN d : d[k] \in Nat \ {0}

kConfigBytes == 88
kPayloadAlign == 16
kMaxNameLen == 255
kMaxDimValue == 100000000
kMaxMetaValueLen == 4096
kEntryFixedBytes == 88
kHeaderBytes(kind) == IF kind = "weight" THEN 88 ELSE 144

VARIABLES
  file,    \* the bytes on disk, by field
  source,  \* what they were written from: [kind, tensors, metadata]
  pc,      \* "pick", "written", "ready", "metadata", "table", "ok", "error"
  pos,     \* where the walk is
  parsed,  \* the local lists of load: [metadata, tensors]
  object,  \* the caller's object: [arch, metadata, tensors]
  loads    \* files read so far
vars == <<file, source, pc, pos, parsed, object, loads>>

AlignUp(n) == ((n + kPayloadAlign - 1) \div kPayloadAlign) * kPayloadAlign

(* dtype_element_bytes of FP16, INT4_PACKED, FP16_SCALE, FP32 and BF16.    *)
ElementBytes == <<2, 1, 2, 4, 2>>

expected_bytes(dtype, dims) == FoldSeq(LAMBDA d, n : d * n, ElementBytes[dtype], dims)

EntryBytes(r) == r.name.len + kEntryFixedBytes
MetaBytes(e) == 1 + e.klen + 2 + e.vlen
TableBytes(rs) == FoldLeft(LAMBDA n, r : n + EntryBytes(r), 0, rs)
AllMetaBytes(ms) == FoldLeft(LAMBDA n, e : n + MetaBytes(e), 0, ms)

(* The entries to_bytes writes; every blob is followed by its padding.     *)
Entries(ts) ==
  LET size(k) == expected_bytes(ts[k].dtype, ts[k].dims)
      at[k \in 1..Len(ts) + 1] == IF k = 1 THEN 0 ELSE at[k - 1] + AlignUp(size(k - 1))
  IN  [records |-> [k \in DOMAIN ts |->
         [name |-> ts[k].name, dtype |-> ts[k].dtype, dims |-> ts[k].dims, tail |-> 0,
          offset |-> at[k], byte_size |-> size(k), align |-> kPayloadAlign, pad |-> 0]],
       payload |-> at[Len(ts) + 1]]

(* V2File.to_bytes: header, config, metadata, table, gap, payload; and     *)
(* GoldenV2File.to_bytes, whose config is in the header and whose table    *)
(* reaches up to the payload.                                              *)
ToBytes(src) ==
  LET e == Entries(src.tensors)
      weight == src.kind = "weight"
      meta_off == kHeaderBytes("weight") + kConfigBytes
      table_off == IF weight THEN meta_off + AllMetaBytes(src.metadata)
                   ELSE kHeaderBytes("golden")
      payload_off == AlignUp(table_off + TableBytes(e.records))
  IN  [kind |-> src.kind, n |-> payload_off + e.payload, magic |-> src.kind, reserved |-> 0,
       num_tensors |-> Len(src.tensors), num_metadata |-> Len(src.metadata),
       config_off |-> kHeaderBytes("weight"), config_size |-> kConfigBytes, config_ok |-> TRUE,
       meta_off |-> meta_off, meta_size |-> AllMetaBytes(src.metadata),
       table_off |-> table_off, table_size |-> TableBytes(e.records),
       payload_off |-> payload_off, payload_size |-> e.payload,
       gap |-> 0, layer_ok |-> TRUE, position_ok |-> TRUE,
       metadata |-> src.metadata, records |-> e.records]

Tensors == {[name |-> [len |-> k, ok |-> ok], dtype |-> dt, dims |-> d]
            : k \in 1..MaxTensors, ok \in NameCharset, dt \in 1..5, d \in Dims}

(* What the writer accepts: V2Tensor checks a name's length and V2File     *)
(* that it comes once; neither checks its characters.                      *)
Sources ==
  {[kind |-> kind, tensors |-> ts, metadata |-> ms] :
     kind \in {"weight"}, ms \in Metadata,
     ts \in {s \in SeqOf(Tensors, MaxTensors) : \A k \in DOMAIN s : s[k].name.len = k}}
  \cup
  {[kind |-> "golden", tensors |-> ts, metadata |-> <<>>] :
     ts \in {s \in SeqOf(Tensors, MaxTensors) : \A k \in DOMAIN s : s[k].name.len = k}}

Empty == [arch |-> "", metadata |-> <<>>, tensors |-> <<>>]

Init ==
  /\ \E kind \in {"weight", "golden"} :
       source = [kind |-> kind, tensors |-> <<>>, metadata |-> <<>>]
  /\ file = ToBytes(source)
  /\ pc = "pick" /\ pos = 0 /\ loads = 0
  /\ parsed = [metadata |-> <<>>, tensors |-> <<>>]
  /\ object = Empty

(* Another file, of the same kind, for the same object.                    *)
Pick ==
  /\ pc \in {"pick", "ok", "error"} /\ loads < Loads
  /\ \E s \in Sources : s.kind = source.kind /\ source' = s
  /\ file' = ToBytes(source')
  /\ pc' = "written" /\ loads' = loads + 1
  /\ UNCHANGED <<pos, parsed, object>>

Field(k, name, v) == [file EXCEPT !.records[k][name] = v]

RecordDamages ==
  UNION {LET r == file.records[k] IN
         {Field(k, "offset", o) : o \in {r.offset + d : d \in {-16, 16, 8}} \cap Nat}
         \cup {Field(k, "byte_size", r.byte_size + d) : d \in {-1, 1}}
         \cup {Field(k, "dims", [r.dims EXCEPT ![1] = v]) : v \in {0, kMaxDimValue + 1}}
         \cup {Field(k, "dtype", d) : d \in {1, 4, 6}}
         \cup {Field(k, "align", a) : a \in {0, 3, 8, 32}}
         \cup {Field(k, "pad", 1), Field(k, "tail", 1), Field(k, "dims", <<>>)}
         \cup {Field(k, "name", [r.name EXCEPT !.ok = FALSE])}
         : k \in DOMAIN file.records}

SectionFields == {"meta_off", "meta_size", "table_off", "table_size", "payload_off",
                  "payload_size", "config_off", "config_size"}

SectionDamages ==
  UNION {{[file EXCEPT ![f] = v] : v \in {file[f] + d : d \in {-16, -1, 1, 16}} \cap Nat}
         : f \in SectionFields}

FileDamages ==
  {[file EXCEPT !.n = c] : c \in {0, file.table_off, file.payload_off, Max({0, file.n - 1})}}
  \cup {[file EXCEPT !.num_tensors = @ + d] : d \in {1} \cup {-1 : x \in 1..file.num_tensors}}
  \cup {[file EXCEPT !.num_metadata = @ + d] : d \in {1} \cup {-1 : x \in 1..file.num_metadata}}
  \cup {[file EXCEPT !.magic = "other"], [file EXCEPT !.reserved = 1], [file EXCEPT !.gap = 1],
        [file EXCEPT !.config_ok = FALSE], [file EXCEPT !.layer_ok = FALSE],
        [file EXCEPT !.position_ok = FALSE]}

(* Fields the file does not have stay as they are written.                 *)
Damageable(f) ==
  IF file.kind = "weight"
  THEN f.gap = 0 /\ f.layer_ok /\ f.position_ok
  ELSE \A x \in {"meta_off", "meta_size", "table_size", "payload_size", "config_off",
                 "config_size", "num_metadata"} : f[x] = file[x]

Damage ==
  /\ pc = "written"
  /\ file' \in {f \in {file} \cup RecordDamages \cup SectionDamages \cup FileDamages :
                  Damageable(f)}
  /\ pc' = "ready"
  /\ UNCHANGED <<source, pos, parsed, object, loads>>

(* within of WeightFileV2::load.                                           *)
Within(off, size) == off <= file.n /\ size <= file.n - off

Sections == <<<<file.config_off, file.config_size>>, <<file.meta_off, file.meta_size>>,
              <<file.table_off, file.table_size>>, <<file.payload_off, file.payload_size>>>>

(* Each section is in the file and no two overlap.                         *)
SectionsOk ==
  /\ \A a \in 1..4 : Within(Sections[a][1], Sections[a][2])
  /\ \A a, b \in 1..4 :
       a < b => ~ /\ Sections[a][1] < Sections[b][1] + Sections[b][2]
                  /\ Sections[b][1] < Sections[a][1] + Sections[a][2]

WeightHeaderOk ==
  /\ file.n >= kHeaderBytes("weight") /\ file.magic = "weight" /\ file.reserved = 0
  /\ file.config_size = kConfigBytes
  /\ SectionsOk
  /\ file.payload_off % kPayloadAlign = 0

GoldenHeaderOk ==
  /\ file.n >= kHeaderBytes("golden") /\ file.magic = "golden" /\ file.reserved = 0
  /\ file.position_ok /\ file.layer_ok
  /\ file.table_off = kHeaderBytes("golden")
  /\ file.payload_off <= file.n
  /\ file.payload_off % kPayloadAlign = 0

(* Is the config valid?  No check ties it to the end of the header: bytes  *)
(* from a shifted place may be a valid config or not.                      *)
ConfigOk == IF file.kind = "weight" /\ file.config_off # kHeaderBytes("weight")
            THEN BOOLEAN ELSE {file.config_ok}

(* The header and the config blob.                                         *)
LoadHeader ==
  /\ pc = "ready"
  /\ \E ok \in ConfigOk :
       pc' = IF file.kind = "weight"
             THEN IF WeightHeaderOk /\ ok THEN "metadata" ELSE "error"
             ELSE IF GoldenHeaderOk /\ ok THEN "table" ELSE "error"
  /\ pos' = IF file.kind = "weight" THEN file.meta_off ELSE file.table_off
  /\ parsed' = [metadata |-> <<>>, tensors |-> <<>>]
  /\ UNCHANGED <<file, source, object, loads>>

meta_end == file.meta_off + file.meta_size

(* The next key and value.  They are read where they were written: a list  *)
(* that is not empty fills the place between the config and the table, so  *)
(* that SectionsOk refuses it anywhere else.                               *)
ReadMetadata ==
  /\ pc = "metadata" /\ Len(parsed.metadata) < file.num_metadata
  /\ LET k == Len(parsed.metadata) + 1
     IN  IF /\ k <= Len(file.metadata)
            /\ file.metadata[k].vlen <= kMaxMetaValueLen
            /\ pos + MetaBytes(file.metadata[k]) <= meta_end
         THEN /\ parsed' = [parsed EXCEPT !.metadata = Append(@, file.metadata[k])]
              /\ pos' = pos + MetaBytes(file.metadata[k]) /\ pc' = pc
         ELSE pc' = "error" /\ UNCHANGED <<pos, parsed>>
  /\ UNCHANGED <<file, source, object, loads>>

(* "metadata: trailing bytes".                                             *)
EndMetadata ==
  /\ pc = "metadata" /\ Len(parsed.metadata) = file.num_metadata
  /\ pc' = IF pos = meta_end THEN "table" ELSE "error"
  /\ pos' = file.table_off
  /\ UNCHANGED <<file, source, parsed, object, loads>>

payload_size == IF file.kind = "weight" THEN file.payload_size ELSE file.n - file.payload_off
table_end == IF file.kind = "weight" THEN file.table_off + file.table_size ELSE file.payload_off

(* Mutant of EntryOk: a region may start anywhere in the payload.          *)
EntryOkStart(r) ==
  /\ r.name.len \in 1..kMaxNameLen /\ r.name.ok
  /\ r.name \notin {t.name : t \in Range(parsed.tensors)}
  /\ r.dtype \in 1..5 /\ Len(r.dims) \in 1..8
  /\ \A k \in DOMAIN r.dims : r.dims[k] \in 1..kMaxDimValue
  /\ r.pad = 0 /\ r.tail = 0 /\ r.align \in {1, 2, 4, 8, 16}
  /\ r.offset <= payload_size
  /\ (file.payload_off + r.offset) % r.align = 0
  /\ r.byte_size = expected_bytes(r.dtype, r.dims)

(* The checks of one entry, which are those of both loaders.               *)
EntryOk(r) ==
  /\ r.name.len \in 1..kMaxNameLen /\ r.name.ok
  /\ r.name \notin {t.name : t \in Range(parsed.tensors)}
  /\ r.dtype \in 1..5 /\ Len(r.dims) \in 1..8
  /\ \A k \in DOMAIN r.dims : r.dims[k] \in 1..kMaxDimValue
  /\ r.pad = 0 /\ r.tail = 0 /\ r.align \in {1, 2, 4, 8, 16}
  /\ r.offset <= payload_size /\ r.byte_size <= payload_size - r.offset
  /\ (file.payload_off + r.offset) % r.align = 0
  /\ r.byte_size = expected_bytes(r.dtype, r.dims)

(* After name_len the rest of the entry is checked at once: its fixed size *)
(* includes that byte.                                                     *)
EntryFits(r) == pos + 1 + r.name.len + (kEntryFixedBytes - 1) <= table_end

(* The k-th entry as the walk meets it.  A table that is not empty passes  *)
(* SectionsOk only where it was written or a few bytes later, in the gap   *)
(* before the payload.  The walk then takes a character of the first name  *)
(* for its length, at least 45 and more than any name here has, and what   *)
(* it reads as the name goes past it into the dtype byte, 1 to 5 and not   *)
(* of the charset.                                                         *)
RecordAt(k) ==
  IF file.table_off = ToBytes(source).table_off THEN file.records[k]
  ELSE [file.records[k] EXCEPT !.name = [len |-> 45, ok |-> FALSE]]

(* The next entry; an error leaves the lists as they are, and the caller's *)
(* object untouched.                                                       *)
ReadEntry ==
  /\ pc = "table" /\ Len(parsed.tensors) < file.num_tensors
  /\ LET k == Len(parsed.tensors) + 1
         r == RecordAt(k)
     IN  IF k <= Len(file.records) /\ EntryFits(r) /\ EntryOk(r)
         THEN /\ parsed' = [parsed EXCEPT !.tensors = Append(@, r)]
              /\ pos' = pos + EntryBytes(r) /\ pc' = pc
         ELSE pc' = "error" /\ UNCHANGED <<pos, parsed>>
  /\ UNCHANGED <<file, source, object, loads>>

(* No trailing bytes; the golden table is followed by zeroes only, which   *)
(* an entry that was not read is not.                                      *)
TableEnds ==
  IF file.kind = "weight" THEN pos = table_end
  ELSE file.gap = 0 /\ Len(parsed.tensors) = Len(file.records)

(* The object changes only here: arch_ is kept when the file names none.   *)
EndTable ==
  /\ pc = "table" /\ Len(parsed.tensors) = file.num_tensors
  /\ IF TableEnds
     THEN /\ pc' = "ok"
          /\ object' = [arch |-> IF \E k \in DOMAIN parsed.metadata : parsed.metadata[k].key = "arch"
                                 THEN "arch" ELSE object.arch,
                        metadata |-> parsed.metadata, tensors |-> parsed.tensors]
     ELSE pc' = "error" /\ UNCHANGED object
  /\ UNCHANGED <<file, source, pos, parsed, loads>>

Next == Pick \/ Damage \/ LoadHeader \/ ReadMetadata \/ EndMetadata \/ ReadEntry \/ EndTable

Spec == Init /\ [][Next]_vars

--------------------------------------------------------------------------------

Untouched == file = ToBytes(source)

(* Whatever the writer writes, the loader accepts (cudalm_v2.py writes,    *)
(* weight_loader_v2.cpp reads), with the tensors and metadata it was       *)
(* written from.                                                           *)
WrittenLoads ==
  pc \in {"ok", "error"} /\ Untouched =>
    /\ pc = "ok"
    /\ object.metadata = source.metadata
    /\ [k \in DOMAIN object.tensors |->
          [name |-> object.tensors[k].name, dtype |-> object.tensors[k].dtype,
           dims |-> object.tensors[k].dims]] = source.tensors

(* A file that lost its end, or with one damaged field, that still loads   *)
(* has all its metadata and all its tensors, every one of them within the  *)
(* payload as it is in the file and behind the table, and all but at most  *)
(* one where and what they were written.  That one may read the bytes of a *)
(* neighbour: unlike version 1 (weight_loader.cpp:149-154), this version   *)
(* does not check that regions are apart.                                  *)
LoadedIsWhole ==
  pc = "ok" =>
    /\ Len(object.tensors) = Len(source.tensors)
    /\ object.metadata = source.metadata
    /\ LET bytes == ToBytes(source)
       IN  /\ object.tensors # <<>> => file.payload_off = bytes.payload_off
           /\ Cardinality({k \in DOMAIN object.tensors :
                             object.tensors[k] # bytes.records[k]}) <= 1
    /\ \A k \in DOMAIN object.tensors :
         LET r == object.tensors[k]
         IN  /\ file.payload_off + r.offset + r.byte_size <= file.n
             /\ file.payload_off + r.offset >= file.table_off + TableBytes(file.records)
             /\ r.byte_size = expected_bytes(r.dtype, r.dims)

================================================================================
