------------------------------ MODULE TextClient ------------------------------
(* The GTP client and its resynchronisation helpers as data types              *)
(* (crates/gtp/src/client.rs and history.rs).  A message is the pair of its    *)
(* sender and its message id; the text is not modelled.                        *)
EXTENDS BoundedSeen

\* GtpClient::new and reset; current_epoch is an Option, a set of at most one
NewGtpClient == [seen |-> EmptySeen, epoch |-> {}]

SyncGtpEpoch(client, epoch) ==
    IF client.epoch = {epoch} THEN client
    ELSE [seen |-> EmptySeen, epoch |-> {epoch}]

\* accept: GtpAccept::New or Duplicate, and the client afterwards
IsNew(client, msg, epoch) == msg \notin SyncGtpEpoch(client, epoch).seen.set

Accept(client, msg, epoch, cap) ==
    LET synced == SyncGtpEpoch(client, epoch)
    IN  [synced EXCEPT !.seen = Insert(@, msg, cap)]

------------------------------------------------------------------------------
(* MessageHistory: the buffer, oldest first *)

Contains(history, msg) == \E i \in DOMAIN history : history[i] = msg

Push(history, msg, capacity) ==
    IF Contains(history, msg) THEN history
    ELSE IF Len(history) = capacity THEN Append(Tail(history), msg)
    ELSE Append(history, msg)

------------------------------------------------------------------------------
(* Watermark: the senders that have an entry, with the last id of each *)

NewWatermark(Sender) == [s \in Sender |-> {}]

Observe(watermark, msg) ==
    [watermark EXCEPT ![msg.sender] =
        IF \E hw \in @ : msg.mid <= hw THEN @ ELSE {msg.mid}]

\* Mutant: the filter is off by one
SinceSkipsOne(history, watermark) ==
    LET after(msg) == \A hw \in watermark[msg.sender] : msg.mid > hw + 1
    IN  SelectSeq(history, after)

\* MessageHistory::since, in the order of the buffer
Since(history, watermark) ==
    LET after(msg) == \A hw \in watermark[msg.sender] : msg.mid > hw
        kept[n \in 0 .. Len(history)] ==
            IF n = 0 THEN << >>
            ELSE IF after(history[n]) THEN Append(kept[n - 1], history[n])
            ELSE kept[n - 1]
    IN  kept[Len(history)]

==============================================================================
