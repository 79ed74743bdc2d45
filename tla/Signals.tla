------------------------------- MODULE Signals -------------------------------
(* Members signal to the group with GspClient::send_with_args, and every       *)
(* observer keeps its own membership set and mute list with accept.  Each      *)
(* sender's signals reach an observer in order (the node's replay window over  *)
(* a reliable stream) and only in the epoch they were sent in; those of        *)
(* different senders interleave differently at each observer.  A sender may    *)
(* repeat a request, for example with corrected args or for want of an ACK.    *)
EXTENDS SignalClient

CONSTANTS Signaller, Observer,
          RequestIds,   \* the ids that each sender uses; senders may share ids
          Kinds,        \* bound: the signal types sent
          Targets,      \* the members named in args
          GspSeenCap,   \* GSP_SEEN_CAP
          MaxSignals,   \* bound: signals of each sender
          MaxSignalEpoch   \* bound: largest epoch

VARIABLES issued,        \* what each member has sent
          pos,           \* how much of it each observer's node has dealt with
          signal_epoch,  \* the epoch of every member's node
          gsp,           \* the observers' GspClients
          heard,         \* what reached each observer's client, in order (history)
          applied        \* the positions in heard of what took effect (history)

signalvars == <<issued, pos, signal_epoch, gsp, heard, applied>>

ASSUME SignalsAssumption == GspSeenCap \in Nat

SignalsInit ==
    /\ issued = [s \in Signaller |-> << >>]
    /\ pos = [r \in Observer |-> [s \in Signaller |-> 0]]
    /\ signal_epoch = [m \in Signaller \cup Observer |-> 1]
    /\ gsp = [r \in Observer |-> NewGspClient]
    /\ heard = [r \in Observer |-> << >>]
    /\ applied = [r \in Observer |-> << >>]

SendSignal(s, signal, id, keys, target) ==
    /\ Len(issued[s]) < MaxSignals[s]
    /\ issued' = [issued EXCEPT ![s] = Append(@,
                   [sender |-> s, signal |-> signal, id |-> id, keys |-> keys,
                    target |-> target, epoch |-> signal_epoch[s]])]
    /\ UNCHANGED <<pos, signal_epoch, gsp, heard, applied>>

\* The next frame of s passes the node and reaches the client
AcceptNext(r, s) ==
    /\ pos[r][s] < Len(issued[s])
    /\ LET f == issued[s][pos[r][s] + 1]
       IN  /\ f.epoch = signal_epoch[r]
           /\ gsp' = [gsp EXCEPT ![r] = AcceptSignal(@, f, signal_epoch[r], GspSeenCap)]
           /\ heard' = [heard EXCEPT ![r] = Append(@, f)]
           /\ applied' = [applied EXCEPT ![r] =
                  IF TakesEffect(gsp[r], f, signal_epoch[r])
                  THEN Append(@, Len(heard[r]) + 1) ELSE @]
    /\ pos' = [pos EXCEPT ![r][s] = @ + 1]
    /\ UNCHANGED <<issued, signal_epoch>>

\* The node drops the frame of another epoch
DropNext(r, s) ==
    /\ pos[r][s] < Len(issued[s])
    /\ issued[s][pos[r][s] + 1].epoch # signal_epoch[r]
    /\ pos' = [pos EXCEPT ![r][s] = @ + 1]
    /\ UNCHANGED <<issued, signal_epoch, gsp, heard, applied>>

AdvanceMember(m) ==
    /\ signal_epoch[m] < MaxSignalEpoch
    /\ signal_epoch' = [signal_epoch EXCEPT ![m] = @ + 1]
    /\ UNCHANGED <<issued, pos, gsp, heard, applied>>

SignalsNext ==
    \/ \E s \in Signaller, signal \in Kinds, target \in Targets :
          \E id \in RequestIds[s], keys \in {{}, RequiredKeys(signal)} :
             SendSignal(s, signal, id, keys, target)
    \/ \E r \in Observer, s \in Signaller : AcceptNext(r, s) \/ DropNext(r, s)
    \/ \E m \in Signaller \cup Observer : AdvanceMember(m)

SignalsSpec == SignalsInit /\ [][SignalsNext]_signalvars

------------------------------------------------------------------------------
(* Properties *)

\* The k-th applied request is still in the filter when the i-th signal is heard
Remembered(r, k, i) ==
    /\ applied[r][k] < i
    /\ k + GspSeenCap \in DOMAIN applied[r] => applied[r][k + GspSeenCap] >= i

SameRequest(f, g) == f.id = g.id /\ f.epoch = g.epoch

\* The last JOIN or LEAVE of s that was applied at r is a JOIN
LatestIsJoin(r, s) ==
    LET of(k) == heard[r][applied[r][k]]
    IN  \E k \in DOMAIN applied[r] :
            /\ of(k).sender = s /\ of(k).signal = "Join"
            /\ \A j \in DOMAIN applied[r] :
                  of(j).sender = s /\ of(j).signal = "Leave" => j < k

\* Whichever request ids the members use, shared ones included: a signal that
\* reaches an observer's client is applied unless its args are malformed or its
\* id is that of one of the last GspSeenCap signals applied in the epoch,
\* whoever sent it; and the membership set is what the applied signals of each
\* member alone determine (accept, sync_epoch, BoundedSeen).
ViewIsAppliedRequests ==
    \A r \in Observer :
        /\ \A i \in DOMAIN heard[r] :
              (\E k \in DOMAIN applied[r] : applied[r][k] = i)
              <=> /\ ValidArgs(heard[r][i])
                  /\ \A k \in DOMAIN applied[r] :
                        SameRequest(heard[r][applied[r][k]], heard[r][i])
                        => ~ Remembered(r, k, i)
        /\ \A s \in Signaller : s \in gsp[r].members <=> LatestIsJoin(r, s)

\* Stated by gsp_rfc 7 ("`request_id` is unique per sender"): two observers that
\* got the same signals of every sender have the same membership and mute list,
\* in whatever order the senders' signals interleaved.
ViewsAgree ==
    \A q, r \in Observer :
        (\A s \in Signaller : LET of_s(f) == f.sender = s
                           IN  SelectSeq(heard[q], of_s) = SelectSeq(heard[r], of_s))
            => /\ gsp[q].members = gsp[r].members
               /\ gsp[q].muted = gsp[r].muted

\* Stated by args.rs ("MUTE, UNMUTE - args MUST be a CBOR map with key 0
\* (target_member_id)"): an accepted MUTE mutes the member it names.
MuteReachesTarget ==
    \A r \in Observer : \A k \in DOMAIN applied[r] :
        LET f == heard[r][applied[r][k]]
        IN  k = Len(applied[r]) /\ f.signal = "Mute" => f.target \in gsp[r].muted

==============================================================================
