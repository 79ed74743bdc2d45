------------------------------ MODULE Transition ------------------------------
(* How a transition ends.  The coordinator's application prepares a           *)
(* transition, waits for READY from every other member (the default quorum of *)
(* gbp-control-plane.md section 5), executes it, and aborts it when its node   *)
(* reports PREPARE_TIMEOUT (gbp-state-machine.md section 6).  The Delivery     *)
(* Service forwards control frames reliably and in one order; what may fail is *)
(* a member's application, which then never answers a PREPARE.  Safety over a  *)
(* lossy network is the subject of ControlPlane; this module asks whether      *)
(* every transition comes to an end.                                           *)
EXTENDS GroupNode, Sequences

CONSTANTS Coordinator,   \* the member whose application originates transitions
          SilentSets,    \* sets of members whose application does not answer
          Polls,         \* does the binding in use offer check_timeouts?
          MaxTid         \* bound: transitions started

VARIABLES node,       \* node[m]: the GroupNode of member m
          inbox,      \* inbox[m]: frames on their way to m, in order
          acks,       \* members whose READY for the pending tid was reported
          answered,   \* answered[m]: the last tid m's application said READY to
          tried,      \* the last tid the coordinator's application prepared
          task,       \* what that application does next
          silent      \* the members that do not answer in this behaviour

vars == <<node, inbox, acks, answered, tried, task, silent>>

Others == Member \ {Coordinator}

Idle == [do |-> "wait", tid |-> 0]

Init ==
    /\ node = [m \in Member |-> IF m = Coordinator THEN BootstrapAsCreator(New, 0)
                                                   ELSE BootstrapAsJoiner(New, 0, 0)]
    /\ inbox = [m \in Member |-> << >>]
    /\ acks = {}
    /\ answered = [m \in Member |-> 0]
    /\ tried = 0
    /\ task = Idle
    /\ silent \in SilentSets

------------------------------------------------------------------------------
\* send_control with the returned frame handed to the Delivery Service
Send(m, to, op, tid) ==
    LET frame == [from |-> m, epoch |-> node[m].current_epoch,
                  seq |-> node[m].out_seq["Control"] + 1, op |-> op, tid |-> tid]
    IN  /\ node' = [node EXCEPT ![m] = SendControl(@, op, tid)]
        /\ inbox' = [x \in Member |-> IF x \in to THEN Append(inbox[x], frame) ELSE inbox[x]]

\* TransitionIDs are monotonic: an aborted one is not used again
Prepare ==
    /\ task = Idle
    /\ node[Coordinator].pending_transition_id = 0
    /\ tried < MaxTid
    /\ Send(Coordinator, Others, "Prepare", tried + 1)
    /\ tried' = tried + 1
    /\ acks' = {}
    /\ UNCHANGED <<answered, task, silent>>

Ready(m) ==
    /\ m \in Others \ silent
    /\ node[m].pending_transition_id \notin {0, answered[m]}
    /\ Send(m, {Coordinator}, "Ready", node[m].pending_transition_id)
    /\ answered' = [answered EXCEPT ![m] = node[m].pending_transition_id]
    /\ UNCHANGED <<acks, tried, task, silent>>

Execute ==
    /\ task = Idle
    /\ node[Coordinator].pending_transition_id # 0
    /\ acks = Others
    /\ Send(Coordinator, Others, "Execute", node[Coordinator].pending_transition_id)
    /\ task' = [do |-> "apply", tid |-> node[Coordinator].pending_transition_id]
    /\ UNCHANGED <<acks, answered, tried, silent>>

\* Mutant: the coordinator records the transition and stays in its epoch
ApplyDecidedSameEpoch ==
    /\ task.do = "apply"
    /\ node' = [node EXCEPT ![Coordinator] = ApplyTransitionSameEpoch(@, task.tid)]
    /\ task' = Idle
    /\ UNCHANGED <<inbox, acks, answered, tried, silent>>

\* The coordinator's own apply_transition, after its EXECUTE
ApplyDecided ==
    /\ task.do = "apply"
    /\ node' = [node EXCEPT ![Coordinator] = ApplyTransition(@, task.tid)]
    /\ task' = Idle
    /\ UNCHANGED <<inbox, acks, answered, tried, silent>>

Abort ==
    /\ task.do = "abort"
    /\ Send(Coordinator, Others, "Abort", task.tid)
    /\ task' = Idle
    /\ UNCHANGED <<acks, answered, tried, silent>>

------------------------------------------------------------------------------
\* on_wire for the next frame; the coordinator's application notes each READY
\* its node reports for the pending transition
Deliver(m) ==
    /\ inbox[m] # << >>
    /\ LET f == Head(inbox[m])
           valid == /\ f.epoch = node[m].current_epoch
                    /\ Fresh(node[m], "Control", f.from, f.seq)
       IN  /\ node' = [node EXCEPT ![m] =
                 CASE f.epoch # @.current_epoch -> TriggerResync(@)
                   [] valid -> HandleControl(Record(@, "Control", f.from, f.seq),
                                             m, f.from, f.op, f.tid)
                   [] OTHER -> @]
           /\ acks' = IF valid /\ f.op = "Ready" /\ TidOk(node[m], f.op, f.tid)
                      THEN acks \cup {f.from} ELSE acks
    /\ inbox' = [inbox EXCEPT ![m] = Tail(@)]
    /\ UNCHANGED <<answered, tried, task, silent>>

\* check_timeouts when an armed deadline has passed.  Reported PREPARE_TIMEOUT
\* makes the application abort; EXECUTE_TIMEOUT changes nothing more.
Poll(m) ==
    /\ Polls
    /\ node[m].prepare_deadline \/ node[m].execute_deadline
    /\ node' = [node EXCEPT ![m] =
                  CheckTimeouts(@, @.prepare_deadline, @.execute_deadline, FALSE)]
    /\ task' = IF node[m].prepare_deadline
               THEN [do |-> "abort", tid |-> node[m].pending_transition_id] ELSE task
    /\ UNCHANGED <<inbox, acks, answered, tried, silent>>

Next ==
    \/ Prepare
    \/ Execute
    \/ ApplyDecided
    \/ Abort
    \/ \E m \in Member : Ready(m) \/ Deliver(m) \/ Poll(m)

\* The transport delivers, running applications go on with what they have
\* started, and an armed deadline passes and is polled for.  Starting a
\* transition is nobody's obligation.
Fairness ==
    /\ WF_vars(Execute) /\ WF_vars(ApplyDecided) /\ WF_vars(Abort)
    /\ \A m \in Member : WF_vars(Ready(m)) /\ WF_vars(Deliver(m)) /\ WF_vars(Poll(m))

Spec == Init /\ [][Next]_vars /\ Fairness

------------------------------------------------------------------------------
(* Properties *)

\* A transition that is pending at a member is executed or given up there: no
\* node waits for ever (send_control, handle_control, check_timeouts and the
\* deadlines they arm, with an application that follows the documents).
TransitionEnds ==
    \A m \in Member :
        node[m].pending_transition_id # 0 ~> node[m].pending_transition_id = 0

\* Whatever mixture of executions, timeouts and aborts takes place, the members
\* end up in one epoch with one last transition (apply_transition at the
\* coordinator against handle_control at the others).
GroupConverges ==
    <>[](\A a, b \in Member :
            /\ node[a].current_epoch = node[b].current_epoch
            /\ node[a].last_transition_id = node[b].last_transition_id)

==============================================================================
