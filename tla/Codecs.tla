-------------------------------- MODULE Codecs --------------------------------
(* The three payload codecs.  A sub-protocol message is encoded as CBOR,       *)
(* Protobuf or FlatBuffers (message.rs, payload.rs, signal.rs), the frame      *)
(* around it names the codec in `pf` (frame.rs), and the receiver decodes with *)
(* what it reads there.  A message is its numeric fields and its body; what    *)
(* the three libraries do is marked external and modelled as: CBOR writes      *)
(* every field and refuses a number too wide for its field; Protobuf and       *)
(* FlatBuffers leave out zero fields and know only 32- and 64-bit numbers.     *)
EXTENDS Naturals, Sequences, FiniteSets

CONSTANTS Number,    \* field values senders use
          MaxBody    \* longest body

ASSUME CodecsAssumption == Number \subseteq Nat /\ MaxBody \in Nat

VARIABLES foreign, \* is the sender another implementation of the schemas?
          sent,    \* the message on its way: kind, message, codec
          frame,   \* the frame that carries it
          got      \* the receiver's result

codecvars == <<foreign, sent, frame, got>>

Nothing == [kind |-> "nothing"]
Failed == [kind |-> "error"]

-------------------------------------------------------------------------------
Cbor == 0
Protobuf == 1
FlatBuffers == 2
PayloadCodec == {Cbor, Protobuf, FlatBuffers}

\* PayloadCodec::from_u8(..).unwrap_or(Cbor)
payload_codec(pf) == IF pf \in PayloadCodec THEN pf ELSE Cbor

\* Numeric fields of each message with their width in bits.
GtpMessage ==
    [message_id |-> 64, sender_id |-> 32, timestamp_ms |-> 64, request_id |-> 32,
     flags |-> 8, content_type |-> 8, content_length |-> 32]
GapPayload ==
    [media_source_id |-> 32, rtp_sequence |-> 32, rtp_timestamp |-> 64,
     key_phase |-> 32]
GspSignal ==
    [signal_type |-> 32, request_id |-> 32, sender_id |-> 32, role_claim |-> 32,
     args_length |-> 32]
ControlMessage ==
    [opcode |-> 16, request_id |-> 32, sender_id |-> 32, transition_id |-> 32,
     args_length |-> 32]

\* The same messages in gbp-proto: the small fields are uint32.
ProtoGtpMessage == [GtpMessage EXCEPT !.flags = 32, !.content_type = 32]
ProtoGapPayload == GapPayload
ProtoGspSignal == GspSignal

\* How many values a u8 or a u16 has; the models' numbers are small for a u32
Span(width) == IF width = 8 THEN 256 ELSE 65536

Fits(v, width) == width >= 32 \/ v < Span(width)
Cast(v, width) == IF width >= 32 THEN v ELSE v % Span(width)

-------------------------------------------------------------------------------
\* The libraries.  `num` holds the fields that are written.

CborWrite(m) == [num |-> m.num, body |-> {m.body}]

CborRead(w, fields) ==
    IF /\ DOMAIN fields \subseteq DOMAIN w.num
       /\ \A f \in DOMAIN fields : Fits(w.num[f], fields[f])
    THEN [num |-> w.num, body |-> CHOOSE b \in w.body : TRUE]
    ELSE Failed

\* prost and planus: default values are not written.
TableWrite(m, body) ==
    [num |-> [f \in {g \in DOMAIN m.num : m.num[g] # 0} |-> m.num[f]],
     body |-> body]

TableRead(w, fields) ==
    [num |-> [f \in DOMAIN fields |-> IF f \in DOMAIN w.num THEN w.num[f] ELSE 0],
     body |-> IF w.body = {} THEN <<>> ELSE CHOOSE b \in w.body : TRUE]

Present(body) == {body}
PresentUnlessEmpty(body) == IF body = <<>> THEN {} ELSE {body}

\* `as u8`: keep the low bits.
Narrowed(m, fields) ==
    [m EXCEPT !.num = [f \in DOMAIN fields |-> Cast(m.num[f], fields[f])]]

IsError(m) == "kind" \in DOMAIN m

CheckLength(m, field) ==
    IF IsError(m) THEN m ELSE IF m.num[field] = Len(m.body) THEN m ELSE Failed

-------------------------------------------------------------------------------
\* to_bytes with the From impls it uses.
GtpToBytes(m, codec) ==
    CASE codec = Cbor -> CborWrite(m)
      [] codec = Protobuf -> TableWrite(m, PresentUnlessEmpty(m.body))
      [] codec = FlatBuffers -> TableWrite(m, Present(m.body))

GapToBytes(m, codec) ==
    CASE codec = Cbor -> CborWrite(m)
      [] codec = Protobuf -> TableWrite(m, PresentUnlessEmpty(m.body))
      [] codec = FlatBuffers -> TableWrite(m, Present(m.body))

GspToBytes(m, codec) ==
    CASE codec = Cbor -> CborWrite(m)
      [] OTHER -> TableWrite(m, PresentUnlessEmpty(m.body))

ControlToCbor(m) == CborWrite(m)

\* Variation: the FlatBuffers reader trusts the declared length.
GtpFromBytesUnchecked(w, codec) ==
    LET m == IF codec = Cbor THEN CborRead(w, GtpMessage)
             ELSE Narrowed(TableRead(w, ProtoGtpMessage), GtpMessage)
    IN  IF codec = FlatBuffers THEN m ELSE CheckLength(m, "content_length")

\* from_bytes with the TryFrom impls: the length first, then the narrow fields.
GtpFromBytes(w, codec) ==
    IF codec = Cbor
    THEN CheckLength(CborRead(w, GtpMessage), "content_length")
    ELSE LET m == CheckLength(TableRead(w, ProtoGtpMessage), "content_length")
         IN  IF IsError(m) THEN m ELSE Narrowed(m, GtpMessage)

GapFromBytes(w, codec) ==
    IF codec = Cbor THEN CborRead(w, GapPayload) ELSE TableRead(w, ProtoGapPayload)

\* Variation: an absent args vector is an error.
GspFromBytesNeedsArgs(w, codec) ==
    IF codec = Cbor THEN CheckLength(CborRead(w, GspSignal), "args_length")
    ELSE IF w.body = {} THEN Failed
    ELSE CheckLength(TableRead(w, ProtoGspSignal), "args_length")

GspFromBytes(w, codec) ==
    IF codec = Cbor
    THEN CheckLength(CborRead(w, GspSignal), "args_length")
    ELSE CheckLength(TableRead(w, ProtoGspSignal), "args_length")

ControlFromCbor(w) == CheckLength(CborRead(w, ControlMessage), "args_length")

ToBytes(kind, m, codec) ==
    CASE kind = "text" -> GtpToBytes(m, codec)
      [] kind = "audio" -> GapToBytes(m, codec)
      [] kind = "signal" -> GspToBytes(m, codec)
      [] kind = "control" -> ControlToCbor(m)

FromBytes(kind, w, codec) ==
    CASE kind = "text" -> GtpFromBytes(w, codec)
      [] kind = "audio" -> GapFromBytes(w, codec)
      [] kind = "signal" -> GspFromBytes(w, codec)
      [] kind = "control" -> ControlFromCbor(w)

Fields(kind) ==
    CASE kind = "text" -> IF foreign THEN ProtoGtpMessage ELSE GtpMessage
      [] kind = "audio" -> GapPayload
      [] kind = "signal" -> GspSignal
      [] kind = "control" -> ControlMessage

Kinds == {"text", "audio", "signal", "control"}

LengthField(kind) ==
    CASE kind = "text" -> {"content_length"}
      [] kind \in {"signal", "control"} -> {"args_length"}
      [] OTHER -> {}

-------------------------------------------------------------------------------
Bodies == {[i \in 1..n |-> "b"] : n \in 0..MaxBody}

\* Messages in which one field has value v and the others value d.
Numbers(kind) ==
    {[f \in DOMAIN Fields(kind) |-> IF f = g THEN v ELSE d] :
        g \in DOMAIN Fields(kind), v \in Number, d \in {0, 1}}

\* What a sender of this stack builds: plain, send and with_args set the length.
Built(kind) ==
    {[num |-> [f \in DOMAIN n |-> IF f \in LengthField(kind) THEN Len(b) ELSE n[f]],
      body |-> b] :
        n \in {k \in Numbers(kind) : \A f \in DOMAIN k : Fits(k[f], Fields(kind)[f])},
        b \in Bodies}

\* What a sender of another implementation may build: any value of the schema.
AnyMessage(kind) == [num : Numbers(kind), body : Bodies]

\* send_payload with the codec of the message; control messages are CBOR.  The
\* frame leaves out `pf` when it is 0.
Send ==
    /\ sent = Nothing
    /\ \E kind \in Kinds :
       \E codec \in IF kind = "control" THEN {Cbor} ELSE PayloadCodec :
       \E m \in IF foreign THEN AnyMessage(kind) ELSE Built(kind) :
        /\ sent' = [kind |-> kind, m |-> m, codec |-> codec]
        /\ frame' = [kind |-> kind, payload |-> ToBytes(kind, m, codec),
                     pf |-> IF codec = 0 THEN {} ELSE {codec}]
    /\ UNCHANGED <<foreign, got>>

\* GbpFrame::decode (absent pf is 0) and payload_codec, as deliver_frame puts
\* them into DeliveredPayload.
DeliveredCodec(f) ==
    payload_codec(IF f.pf = {} THEN 0 ELSE CHOOSE c \in f.pf : TRUE)

\* deliver_frame hands the payload and its codec to the application, which
\* passes both to accept.
Receive ==
    /\ sent # Nothing /\ got = Nothing
    /\ got' = FromBytes(frame.kind, frame.payload, DeliveredCodec(frame))
    /\ UNCHANGED <<foreign, sent, frame>>

Finished == got # Nothing /\ UNCHANGED codecvars

CodecsInit == foreign \in BOOLEAN /\ sent = Nothing /\ frame = Nothing /\ got = Nothing

CodecsNext == Send \/ Receive \/ Finished

CodecsSpec == CodecsInit /\ [][CodecsNext]_codecvars

-------------------------------------------------------------------------------
Arrived == got # Nothing

\* A message built by this stack arrives as it was sent, whichever codec its
\* sender chose: zero fields that are left out, an absent body, fields widened
\* and narrowed and the omitted pf all come back.
DecodedIsSent == Arrived /\ ~foreign => got = sent.m

\* "Endpoints MUST reject malformed length fields" (schemas.md:28): a message
\* that is accepted declares the length its body has, in every codec.
LengthIsChecked ==
    Arrived /\ ~IsError(got) =>
        \A f \in LengthField(sent.kind) : sent.m.num[f] = Len(got.body)

\* "Unknown enum values MUST be handled safely (ignore, preserve, or explicit
\* NACK by profile)" (schemas.md:38): a content type never turns into another.
ContentTypeKept ==
    Arrived /\ sent.kind = "text" /\ ~IsError(got) =>
        got.num["content_type"] = sent.m.num["content_type"]

===============================================================================
