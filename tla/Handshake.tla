------------------------------ MODULE Handshake -------------------------------
(* The reference program gbp-node: one listener (run_listener, "accepts one    *)
(* peer") and connectors (run_connector) over TCP connections that may drop at *)
(* any time.  Each await of a read or a write is a step; an error ends the     *)
(* program, and a program that ends closes its connections.  The MLS contexts  *)
(* are those of module MlsContext.                                             *)
EXTENDS MlsContext, FiniteSets

CONSTANT Listener

VARIABLES mls,     \* the contexts
          pc,      \* the next await of each program
          peer,    \* the connection the listener accepted, if any
          inbox,   \* bytes on their way to a program over the accepted connection
          open,    \* connectors whose connection is up
          shown    \* what the listener logged

vars == <<mls, pc, peer, inbox, open, shown>>

Connector == Member \ {Listener}
Over == {"done", "failed"}
Invitation(c) == [by |-> c, no |-> 1]

Init ==
    /\ mls = [m \in Member |-> NewMember]
    /\ pc = [m \in Member |-> IF m = Listener THEN "accept" ELSE "read_kp"]
    /\ peer = {} /\ inbox = [m \in Member |-> <<>>] /\ open = Connector
    /\ shown = {}

Goes(m, next) == pc' = [pc EXCEPT ![m] = next]

\* Variation: the listener closes only the connection it accepted.
ClosesPeerOnly(m) == open' = IF m = Listener THEN open \ peer ELSE open \ {m}

\* The sockets of a program that has ended are closed.
Closes(m) == open' = IF m = Listener THEN {} ELSE open \ {m}

Up(m) == IF m = Listener THEN peer \cap open # {} ELSE m \in open

\* Every `?` on a read or a write: the connection is gone, and for a read
\* nothing is left to read.
Fail(m) ==
    /\ pc[m] \notin Over \cup {"accept"} /\ ~Up(m)
    /\ pc[m] \in {"read_kp", "read_welcome", "read_frame"} => inbox[m] = <<>>
    /\ Goes(m, "failed") /\ Closes(m)
    /\ UNCHANGED <<mls, peer, inbox, shown>>

\* validate, invite_full, finalize_pending_commit or accept_welcome fails on what
\* was read.
Rejects(m) ==
    /\ pc[m] \in {"read_kp", "read_welcome"} /\ inbox[m] # <<>>
    /\ inbox' = [inbox EXCEPT ![m] = Tail(@)]
    /\ Goes(m, "failed") /\ Closes(m)
    /\ UNCHANGED <<mls, peer, shown>>

Accept(c) ==
    /\ pc[Listener] = "accept" /\ c \in open
    /\ peer' = {c}
    /\ Goes(Listener, "write_kp")
    /\ UNCHANGED <<mls, inbox, open, shown>>

ListenerWritesKeyPackage ==
    /\ pc[Listener] = "write_kp" /\ Up(Listener)
    /\ inbox' = [m \in Member |-> IF m \in peer THEN Append(inbox[m], "key package")
                                  ELSE inbox[m]]
    /\ Goes(Listener, "read_welcome")
    /\ UNCHANGED <<mls, peer, open, shown>>

\* read_blob, validate, invite_full, finalize_pending_commit.
ConnectorInvites(c) ==
    /\ pc[c] = "read_kp" /\ inbox[c] # <<>>
    /\ inbox' = [inbox EXCEPT ![c] = Tail(@)]
    /\ mls' = [mls EXCEPT ![c] = FinalizePendingCommit(InviteFull(@, Invitation(c)))]
    /\ Goes(c, "write_welcome")
    /\ UNCHANGED <<peer, open, shown>>

\* The Welcome describes the group with the invitation merged.
ConnectorWritesWelcome(c) ==
    /\ pc[c] = "write_welcome" /\ Up(c)
    /\ inbox' = [inbox EXCEPT ![Listener] =
                    Append(@, [welcome |-> <<Invitation(c)>>])]
    /\ Goes(c, "write_frame")
    /\ UNCHANGED <<mls, peer, open, shown>>

\* seal, GbpFrame::new, write_frame; then run_connector returns.
ConnectorWritesFrame(c) ==
    /\ pc[c] = "write_frame" /\ Up(c)
    /\ inbox' = [inbox EXCEPT ![Listener] =
                    Append(@, [sealed |-> mls[c].group, text |-> c])]
    /\ Goes(c, "done") /\ Closes(c)
    /\ UNCHANGED <<mls, peer, shown>>

ListenerJoins ==
    /\ pc[Listener] = "read_welcome" /\ inbox[Listener] # <<>>
    /\ mls' = [mls EXCEPT ![Listener] = AcceptWelcome(@, Head(inbox[Listener]).welcome)]
    /\ inbox' = [inbox EXCEPT ![Listener] = Tail(@)]
    /\ Goes(Listener, "read_frame")
    /\ UNCHANGED <<peer, open, shown>>

\* read_frame, open, from_cbor; then run_listener returns.
ListenerReadsFrame ==
    /\ pc[Listener] = "read_frame" /\ inbox[Listener] # <<>>
    /\ LET f == Head(inbox[Listener]) IN
        IF Opens(mls[Listener], f.sealed)
        THEN shown' = {f.text} /\ Goes(Listener, "done")
        ELSE Goes(Listener, "failed") /\ UNCHANGED shown
    /\ inbox' = [inbox EXCEPT ![Listener] = Tail(@)]
    /\ Closes(Listener)
    /\ UNCHANGED <<mls, peer>>

\* A connection drops: what has not been read yet may be lost, from the end.
ConnectionDrops(c) ==
    /\ c \in open
    /\ open' = open \ {c}
    /\ \E a \in 0..Len(inbox[c]), b \in 0..Len(inbox[Listener]) :
        inbox' = [m \in Member |->
                    IF m = c THEN SubSeq(inbox[c], 1, a)
                    ELSE IF m = Listener /\ c \in peer
                         THEN SubSeq(inbox[m], 1, b) ELSE inbox[m]]
    /\ UNCHANGED <<mls, pc, peer, shown>>

Step(m) ==
    \/ Fail(m) \/ Rejects(m)
    \/ m = Listener /\ ((\E c \in Connector : Accept(c))
                        \/ ListenerWritesKeyPackage \/ ListenerJoins
                        \/ ListenerReadsFrame)
    \/ m # Listener /\ (ConnectorInvites(m) \/ ConnectorWritesWelcome(m)
                        \/ ConnectorWritesFrame(m))

Next ==
    \/ \E m \in Member : Step(m)
    \/ \E c \in Connector : ConnectionDrops(c)

Spec == Init /\ [][Next]_vars /\ \A m \in Member : WF_vars(Step(m))

-------------------------------------------------------------------------------
\* Once the listener has accepted a peer every program ends, also the connectors
\* it never serves and also when connections drop half-way.
EveryoneEnds == peer # {} ~> \A m \in Member : pc[m] \in Over

\* Once the listener has joined it gives up only for want of bytes: a frame that reaches it opens
\* under the epoch its Welcome put it in, and is the frame of the peer it
\* accepted.
FrameOpens ==
    /\ \A m \in Connector : pc[m] = "done" => m \in peer
    /\ pc[Listener] = "done" => shown = peer
    /\ pc[Listener] \in {"read_frame", "done"} /\ inbox[Listener] # <<>> =>
          Opens(mls[Listener], Head(inbox[Listener]).sealed)

===============================================================================
