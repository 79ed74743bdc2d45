------------------------------- MODULE Framing -------------------------------
(* Length-prefixed blobs over a byte stream: write_blob and read_blob of       *)
(* crates/gbp/transport/src/lib.rs (TCP) and quic.rs, which share the format.  *)
(* A byte is a digit in base Base and the prefix has PrefixLen of them, least  *)
(* significant first.  The stream delivers bytes one by one and may end        *)
(* anywhere.                                                                   *)
EXTENDS Naturals, Sequences

CONSTANTS Base, PrefixLen,
          MaxFrame,      \* MAX_FRAME
          Blobs,         \* what the application may send
          MaxBlobs       \* bound: blobs written

VARIABLES written,   \* blobs for which write_blob got past the size check (history)
          wire,      \* bytes written and not yet read
          open,      \* has the sender not closed
          need,      \* the reader: bytes read_exact waits for
          phase,     \* "length", "body", or how read_blob failed
          buf,       \* what it has of them
          read       \* blobs returned by read_blob (history)

streamvars == <<written, wire, open, need, phase, buf, read>>

\* What is left of n when its i lowest digits are taken off
Quotients(n) ==
    LET left[i \in 0 .. PrefixLen] == IF i = 0 THEN n ELSE left[i - 1] \div Base
    IN  left

\* to_le_bytes and from_le_bytes
ToLe(n) == [i \in 1 .. PrefixLen |-> Quotients(n)[i - 1] % Base]

FromLe(bytes) ==
    LET value[i \in 0 .. PrefixLen] ==    \* of the i highest digits
            IF i = 0 THEN 0 ELSE value[i - 1] * Base + bytes[PrefixLen + 1 - i]
    IN  value[PrefixLen]

\* The length of the largest blob has room in the prefix, as MAX_FRAME in a u32
ASSUME FramingAssumption ==
    /\ Base \in Nat \ {0} /\ PrefixLen \in Nat \ {0} /\ MaxFrame \in Nat
    /\ Quotients(MaxFrame)[PrefixLen] = 0
    /\ Blobs \subseteq Seq(0 .. Base - 1)

StreamInit ==
    /\ written = << >> /\ wire = << >> /\ open = TRUE
    /\ need = PrefixLen /\ phase = "length" /\ buf = << >>
    /\ read = << >>

\* Mutant: the size is checked after the prefix went out
WriteBlobChecksLate(b) ==
    /\ open /\ Len(written) < MaxBlobs
    /\ wire' = wire \o ToLe(Len(b)) \o (IF Len(b) > MaxFrame THEN << >> ELSE b)
    /\ written' = IF Len(b) > MaxFrame THEN written ELSE Append(written, b)
    /\ UNCHANGED <<open, need, phase, buf, read>>

\* write_blob; TooLarge writes nothing
WriteBlob(b) ==
    /\ open /\ Len(written) < MaxBlobs
    /\ Len(b) <= MaxFrame
    /\ wire' = wire \o ToLe(Len(b)) \o b
    /\ written' = Append(written, b)
    /\ UNCHANGED <<open, need, phase, buf, read>>

\* The sender finishes the stream, or dies with n bytes of its last writes sent
CloseStream(n) ==
    /\ open
    /\ open' = FALSE
    /\ wire' = SubSeq(wire, 1, n)
    /\ UNCHANGED <<written, need, phase, buf, read>>

------------------------------------------------------------------------------
Reading == phase \in {"length", "body"}

\* read_exact gets one more byte
ByteArrives ==
    /\ Reading /\ Len(buf) < need /\ wire # << >>
    /\ buf' = Append(buf, Head(wire))
    /\ wire' = Tail(wire)
    /\ UNCHANGED <<written, open, need, phase, read>>

GotLength ==
    /\ phase = "length" /\ Len(buf) = need
    /\ LET len == FromLe(buf)
       IN  /\ phase' = IF len > MaxFrame THEN "TooLarge" ELSE "body"
           /\ need' = IF len > MaxFrame THEN 0 ELSE len
    /\ buf' = << >>
    /\ UNCHANGED <<written, wire, open, read>>

\* The blob is complete, and the caller reads the next one
GotBody ==
    /\ phase = "body" /\ Len(buf) = need
    /\ read' = Append(read, buf)
    /\ phase' = "length" /\ need' = PrefixLen /\ buf' = << >>
    /\ UNCHANGED <<written, wire, open>>

\* Mutant: the end is noticed only between two blobs
EndBetweenBlobs ==
    /\ phase = "length" /\ buf = << >> /\ wire = << >> /\ ~ open
    /\ phase' = "Io"
    /\ UNCHANGED <<written, wire, open, need, buf, read>>

\* The stream ends before read_exact has all it needs
EndOfStream ==
    /\ Reading /\ Len(buf) < need /\ wire = << >> /\ ~ open
    /\ phase' = "Io"
    /\ UNCHANGED <<written, wire, open, need, buf, read>>

StreamNext ==
    \/ \E b \in Blobs : WriteBlob(b)
    \/ \E n \in 0 .. Len(wire) : CloseStream(n)
    \/ ByteArrives \/ GotLength \/ GotBody \/ EndOfStream

\* The transport delivers and the task that awaits read_blob is polled
StreamFairness ==
    /\ WF_streamvars(ByteArrives) /\ WF_streamvars(GotLength)
    /\ WF_streamvars(GotBody) /\ WF_streamvars(EndOfStream)

StreamSpec == StreamInit /\ [][StreamNext]_streamvars /\ StreamFairness

------------------------------------------------------------------------------
(* Properties *)

\* However the bytes are split and wherever the stream ends, read_blob returns
\* the blobs that were written, whole, in order and without gaps, and never meets
\* a length that write_blob would not have sent.
BlobsIntact ==
    /\ Len(read) <= Len(written) /\ read = SubSeq(written, 1, Len(read))
    /\ phase # "TooLarge"

\* The reader does not wait for ever: a blob written to a stream that is not
\* closed is read in the end, and a reader whose sender is gone is told so
\* (read_exact inside read_blob).
ReaderGoesOn ==
    /\ \A n \in 1 .. MaxBlobs : Len(written) >= n ~> Len(read) >= n \/ ~ open
    /\ ~ open ~> phase = "Io"

==============================================================================
