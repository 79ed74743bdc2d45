------------------------------ MODULE Attachment ------------------------------
(* GTP attachments (crates/gtp/src/attachment.rs): a payload is cut into       *)
(* chunks, the chunks of several attachments arrive in any order and more than *)
(* once, and each assembler puts its payload together and checks it against    *)
(* the digest of its manifest.                                                 *)
(*                                                                             *)
(* A byte is a member of Byte, and the SHA-256 of a payload is the payload     *)
(* itself: different payloads have different digests.  Filename, mime type and *)
(* the CBOR form of manifest and chunk are left out.  The application feeds an *)
(* assembler the chunks of its attachment; Misfeed is the one it gets wrong,   *)
(* which push cannot notice because it does not look at attachment_id.         *)
EXTENDS Integers, Sequences, FiniteSets

CONSTANTS Attachment,   \* attachment_id values
          Byte, MaxLen, \* bound: payloads are sequences of at most MaxLen bytes
          ChunkSize,    \* chunk_size arguments, 0 among them
          MaxMisfeed    \* bound: chunks fed to the wrong assembler

ASSUME FilesAssumption == MaxLen \in Nat /\ ChunkSize \subseteq Nat

VARIABLES payload,    \* payload[a]: the data given to AttachmentSender::new
          size,       \* size[a]: the chunk size given with it
          received,   \* received[a]: the assembler's map from index to data
          result,     \* result[a]: what assemble returned, if it was called
          misfed

filevars == <<payload, size, received, result, misfed>>

Data == UNION {[1 .. n -> Byte] : n \in 0 .. MaxLen}

MaxOf(a, b) == IF a > b THEN a ELSE b
MinOf(a, b) == IF a < b THEN a ELSE b

\* AttachmentSender::new: chunk i holds the bytes from i*k on
Chunks(data, chunkSize) ==
    LET k == MaxOf(chunkSize, 1)
        count == (Len(data) + k - 1) \div k
    IN  [i \in 0 .. count - 1 |-> SubSeq(data, i * k + 1, MinOf((i + 1) * k, Len(data)))]

Manifest(data, chunkSize) ==
    [total_size |-> Len(data), sha256 |-> data,
     chunk_count |-> Cardinality(DOMAIN Chunks(data, chunkSize))]

\* push: an index out of range is an error, a repeated one is ignored
Push(parts, manifest, index, data) ==
    IF index >= manifest.chunk_count \/ index \in DOMAIN parts THEN parts
    ELSE [i \in DOMAIN parts \cup {index} |-> IF i = index THEN data ELSE parts[i]]

IsComplete(parts, manifest) == Cardinality(DOMAIN parts) = manifest.chunk_count

Concat(parts, count) ==
    LET upTo[n \in 0 .. count] == IF n = 0 THEN << >> ELSE upTo[n - 1] \o parts[n - 1]
    IN  upTo[count]

\* Mutant: only the length is compared
AssembleByLength(parts, manifest) ==
    LET whole == Concat(parts, manifest.chunk_count)
    IN  IF Len(whole) = manifest.total_size THEN [ok |-> TRUE, data |-> whole]
        ELSE [ok |-> FALSE, data |-> << >>]

\* assemble, once every chunk is there
Assemble(parts, manifest) ==
    LET whole == Concat(parts, manifest.chunk_count)
    IN  IF whole = manifest.sha256 THEN [ok |-> TRUE, data |-> whole]
        ELSE [ok |-> FALSE, data |-> << >>]

------------------------------------------------------------------------------

ManifestOf(a) == Manifest(payload[a], size[a])
ChunksOf(a) == Chunks(payload[a], size[a])

FilesInit ==
    /\ payload \in [Attachment -> Data]
    /\ size \in [Attachment -> ChunkSize]
    /\ received = [a \in Attachment |-> << >>]
    /\ result = [a \in Attachment |-> {}]
    /\ misfed = 0

\* A chunk of attachment b, the i-th, is pushed into the assembler of a
FeedFrom(a, b, i) ==
    /\ result[a] = {}
    /\ received' = [received EXCEPT ![a] = Push(@, ManifestOf(a), i, ChunksOf(b)[i])]
    /\ UNCHANGED <<payload, size, result>>

Feed(a, i) == FeedFrom(a, a, i) /\ UNCHANGED misfed

Misfeed(a, b, i) ==
    /\ a # b
    /\ misfed < MaxMisfeed
    /\ misfed' = misfed + 1
    /\ FeedFrom(a, b, i)

\* The application asks is_complete before it gives the assembler away
Finish(a) ==
    /\ result[a] = {}
    /\ IsComplete(received[a], ManifestOf(a))
    /\ result' = [result EXCEPT ![a] = {Assemble(received[a], ManifestOf(a))}]
    /\ UNCHANGED <<payload, size, received, misfed>>

FilesNext ==
    \E a \in Attachment :
        \/ Finish(a)
        \/ \E b \in Attachment : \E i \in DOMAIN ChunksOf(b) : Misfeed(a, b, i)
        \/ \E i \in DOMAIN ChunksOf(a) : Feed(a, i)

FilesSpec == FilesInit /\ [][FilesNext]_filevars

------------------------------------------------------------------------------

\* A complete assembler returns the payload that was cut up, byte for byte, for
\* every payload and chunk size, the empty payload and size 0 included, in
\* whatever order and number its chunks came.  A chunk of another attachment may
\* make the digest fail, never the data wrong (AttachmentSender::new, push,
\* assemble).
AssembledIsSent ==
    \A a \in Attachment : \A r \in result[a] :
        /\ r.ok => r.data = payload[a]
        /\ misfed = 0 => r.ok

==============================================================================
