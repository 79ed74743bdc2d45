---------------------------- MODULE SignalClient ----------------------------
(* The GSP client as a data type (crates/gsp/src/client.rs and args.rs).       *)
(* The args of a signal are the integer keys whose value is an unsigned        *)
(* integer; bytes that are no CBOR map of such keys have none.                 *)
EXTENDS BoundedSeen

SignalType == {"Join", "Leave", "RoleChange", "Mute", "Unmute", "StreamStart",
               "StreamStop", "CodecUpdate"}

RequiredKeys(signal) ==
    CASE signal \in {"Join", "Leave"} -> {}
      [] signal = "RoleChange"        -> {0, 1}
      [] OTHER                        -> {0}

\* validate_args, with decode_map and require_uint_key
ValidArgs(s) == s.signal \in SignalType /\ RequiredKeys(s.signal) \subseteq s.keys

NewGspClient == [seen |-> EmptySeen, muted |-> {}, members |-> {}, epoch |-> {}]

SyncGspEpoch(client, epoch) ==
    IF client.epoch = {epoch} THEN client
    ELSE [client EXCEPT !.seen = EmptySeen, !.epoch = {epoch}]

Effect(client, s) ==
    CASE s.signal = "Join"   -> [client EXCEPT !.members = @ \cup {s.sender}]
      [] s.signal = "Leave"  -> [client EXCEPT !.members = @ \ {s.sender},
                                               !.muted = @ \ {s.sender}]
      [] s.signal = "Mute"   -> [client EXCEPT !.muted = @ \cup {s.sender}]
      [] s.signal = "Unmute" -> [client EXCEPT !.muted = @ \ {s.sender}]
      [] OTHER               -> client

\* Mutant: a request is marked as seen before its args are checked
AcceptSignalMarksFirst(client, s, epoch, cap) ==
    LET synced == SyncGspEpoch(client, epoch)
        marked == [synced EXCEPT !.seen = Insert(synced.seen, s.id, cap)]
    IN  IF s.id \in synced.seen.set \/ ~ ValidArgs(s) THEN marked ELSE Effect(marked, s)

\* accept is Ok; the errors are UnknownSignal, BadSchema and DuplicateRequest
TakesEffect(client, s, epoch) ==
    ValidArgs(s) /\ s.id \notin SyncGspEpoch(client, epoch).seen.set

\* accept: an error changes nothing but the epoch
AcceptSignal(client, s, epoch, cap) ==
    LET synced == SyncGspEpoch(client, epoch)
    IN  IF TakesEffect(client, s, epoch)
        THEN Effect([synced EXCEPT !.seen = Insert(synced.seen, s.id, cap)], s)
        ELSE synced

==============================================================================
