------------------------------- MODULE Bindings -------------------------------
(* How the events of a node reach the application behind a binding.  The node  *)
(* queues events (node.rs, `events`); on_wire, check_timeouts and drain_events *)
(* hand the whole queue over; the C ABI turns each event into JSON with dto,   *)
(* the browser binding into an object with event_to_js.  An event is its       *)
(* variant and the fields it carries; field values, base64 strings among them, *)
(* are left out.                                                               *)
EXTENDS Naturals, Sequences

CONSTANT MaxEvents    \* events raised in a behaviour

VARIABLES binding,    \* what the application uses: "c" or "js"
          events,     \* GroupNode.events
          raised,     \* every event the node has pushed, in order
          delivered    \* what the application was given, in order

eventvars == <<binding, events, raised, delivered>>

-------------------------------------------------------------------------------
Event ==
    [StateChanged |-> {"from", "to"},
     PayloadReceived |-> {"stream_type", "stream_id", "sequence_no", "flags",
                          "plaintext", "codec"},
     Control |-> {"from", "opcode", "transition_id", "request_id", "args"},
     Error |-> {"code", "class", "retryable", "fatal", "reason"},
     EpochAdvanced |-> {"epoch", "transition_id"},
     CoordinatorElectionNeeded |-> {},
     BecameCoordinator |-> {},
     CoordinatorClaim |-> {"claimant"}]

Variant == DOMAIN Event

Dto(kind, fields) == [kind |-> kind, fields |-> fields]

\* EventDto has a variant for each variant of Event, tagged in snake_case.
dto(v) ==
    CASE v = "StateChanged" -> Dto("state_changed", Event[v])
      [] v = "PayloadReceived" -> Dto("payload_received", Event[v])
      [] v = "Control" -> Dto("control", Event[v])
      [] v = "Error" -> Dto("error", Event[v])
      [] v = "EpochAdvanced" -> Dto("epoch_advanced", Event[v])
      [] v = "CoordinatorElectionNeeded" ->
            Dto("coordinator_election_needed", Event[v])
      [] v = "BecameCoordinator" -> Dto("became_coordinator", Event[v])
      [] v = "CoordinatorClaim" -> Dto("coordinator_claim", Event[v])

event_to_js(v) ==
    CASE v = "PayloadReceived" ->
            Dto("payload_received",
                   {"stream_type", "plaintext", "sequence_no", "codec"})
      [] v = "StateChanged" -> Dto("state_changed", {"from", "to"})
      [] v = "EpochAdvanced" ->
            Dto("epoch_advanced", {"epoch", "transition_id"})
      [] v = "Error" ->
            Dto("error", {"code", "reason", "fatal", "retryable"})
      [] v = "Control" ->
            Dto("control", {"from", "opcode", "transition_id"})
      [] OTHER -> Dto("other", {})

Convert(v) == IF binding = "c" THEN dto(v) ELSE event_to_js(v)

-------------------------------------------------------------------------------
\* Variation: a call returns the events it pushed itself and leaves the rest.
HandOverOwn(pushed) ==
    /\ delivered' = delivered \o [i \in DOMAIN pushed |-> Convert(pushed[i])]
    /\ events' = events
    /\ UNCHANGED binding

\* drain_events, at the end of on_wire, check_timeouts or on its own.
HandOver(pushed) ==
    /\ delivered' = delivered \o [i \in DOMAIN events |-> Convert(events[i])]
                            \o [i \in DOMAIN pushed |-> Convert(pushed[i])]
    /\ events' = <<>>
    /\ UNCHANGED binding

Pushes(variants, n) ==
    {s \in UNION {[1..k -> variants] : k \in 0..n} :
        Len(raised) + Len(s) <= MaxEvents}

\* The bootstraps and apply_transition push events and return nothing: the
\* events wait for the next call that drains.  (No binding exports
\* claim_coordinator, so BecameCoordinator is never pushed.)
Silent ==
    \E s \in Pushes({"StateChanged", "EpochAdvanced"}, 2) :
        /\ s # <<>>
        /\ raised' = raised \o s
        /\ events' = events \o s
        /\ UNCHANGED <<binding, delivered>>

OnWire ==
    \E s \in Pushes({"StateChanged", "PayloadReceived", "Control", "Error",
                     "EpochAdvanced", "CoordinatorClaim"}, 2) :
        raised' = raised \o s /\ HandOver(s)

CheckTimeouts ==
    \E s \in Pushes({"Error", "CoordinatorElectionNeeded"}, 2) :
        /\ binding = "js"    \* the C ABI has no export for it
        /\ raised' = raised \o s /\ HandOver(s)

Drain == UNCHANGED raised /\ HandOver(<<>>)

EventsInit ==
    binding \in {"c", "js"} /\ events = <<>> /\ raised = <<>> /\ delivered = <<>>

EventsNext == Silent \/ OnWire \/ CheckTimeouts \/ Drain

EventsSpec == EventsInit /\ [][EventsNext]_eventvars

-------------------------------------------------------------------------------
\* What the application must have got by now: all that was raised and is not
\* waiting in the node.
Due == SubSeq(raised, 1, Len(raised) - Len(events))

\* The variants a binding promises to tell apart: the C ABI all of them (EventDto),
\* the browser binding those of the table in its documentation.
Promised ==
    IF binding = "c" THEN Variant
    ELSE {"PayloadReceived", "StateChanged", "EpochAdvanced", "Error", "Control"}

\* Every event the node raises reaches the application once and in order, and a
\* promised variant never looks like another one (drain_events, "does not
\* duplicate them", node.rs:682-683; dto; event_to_js).
EventsArrive ==
    /\ Len(delivered) = Len(Due)
    /\ \A i \in DOMAIN Due : delivered[i] = Convert(Due[i])
    /\ \A i, j \in DOMAIN Due :
        Due[i] \in Promised =>
            ((delivered[i].kind = delivered[j].kind) <=> (Due[i] = Due[j]))

\* A control message arrives with what is needed to answer it: the request_id
\* an ACK echoes and the args that carry the MLS Commit.
ControlIsAnswerable ==
    \A i \in DOMAIN Due :
        Due[i] = "Control" => {"request_id", "args"} \subseteq delivered[i].fields

===============================================================================
