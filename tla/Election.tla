------------------------------- MODULE Election -------------------------------
(* Coordinator election: check_timeouts reports a silent coordinator, the      *)
(* application answers with claim_coordinator when its node has the lowest     *)
(* MemberId it believes active, and claims that meet are settled in            *)
(* handle_control.                                                             *)
(*                                                                             *)
(* The members are the survivors of a group whose coordinator has just         *)
(* executed transition 1 and vanished.  Which members a node believes active   *)
(* comes from transport notifications the application gets, so a view may lag  *)
(* behind and differ from the others.                                          *)
EXTENDS GroupNode

CONSTANT MaxClaims   \* bound: MaxClaims[m] claims by member m

ASSUME MaxClaimsAssumption == MaxClaims \in [Member -> Nat]

VARIABLES peer,    \* peer[m]: the GroupNode of member m
          claims,  \* every claim frame sent
          needed,  \* members whose CoordinatorElectionNeeded is not yet handled
          view,    \* view[m]: the members m's application believes active
          knew     \* knew[m][a]: last claim of a that m had handled when m
                   \* last claimed (history)

electionvars == <<peer, claims, needed, view, knew>>

Claim == [from : Member, epoch : Nat, seq : Nat, tid : Nat]

TypeOK ==
    /\ peer \in [Member -> GroupNodeType]
    /\ claims \in SUBSET Claim
    /\ needed \in SUBSET Member
    /\ view \in [Member -> SUBSET Member]
    /\ knew \in [Member -> [Member -> Nat]]

\* Every survivor has handled the last coordinator's EXECUTE.
ElectionInit ==
    /\ peer = [m \in Member |-> OnExecute(BootstrapAsJoiner(New, 0, 1), 1)]
    /\ claims = {}
    /\ needed = {}
    /\ view = [m \in Member |-> Member]
    /\ knew = [m \in Member |-> [a \in Member |-> 0]]

------------------------------------------------------------------------------
\* The silence timer has run out when the application polls.
Silence(m) ==
    /\ peer[m].coordinator_last_seen
    /\ peer' = [peer EXCEPT ![m] = CheckTimeouts(@, FALSE, FALSE, TRUE)]
    /\ needed' = needed \cup {m}
    /\ UNCHANGED <<claims, view, knew>>

\* Mutant: the member itself, which its view contains, is not excepted
LowestStrict(m) == \A x \in view[m] : m < x

Lowest(m) == \A x \in view[m] : m <= x

\* The application handles the event: it claims when it believes itself lowest.
HandleNeeded(m) ==
    /\ m \in needed
    /\ Lowest(m)
    /\ peer[m].out_seq["Control"] < MaxClaims[m]
    /\ peer' = [peer EXCEPT ![m] = ClaimCoordinator(@)]
    /\ claims' = claims \cup {[from |-> m, epoch |-> peer[m].current_epoch,
                               seq |-> peer[m].out_seq["Control"] + 1,
                               tid |-> peer[m].last_transition_id]}
    /\ needed' = needed \ {m}
    /\ knew' = [knew EXCEPT ![m] = peer[m].in_hw["Control"]]
    /\ UNCHANGED view

\* ... and leaves the claim to the lowest member otherwise.
IgnoreNeeded(m) ==
    /\ m \in needed
    /\ ~ Lowest(m)
    /\ needed' = needed \ {m}
    /\ UNCHANGED <<peer, claims, view, knew>>

DeliverClaim(m, f) ==
    /\ f.from # m
    /\ f.epoch = peer[m].current_epoch
    /\ Fresh(peer[m], "Control", f.from, f.seq)
    /\ peer' = [peer EXCEPT ![m] =
                  HandleControl(Record(@, "Control", f.from, f.seq), m, f.from, "Claim", f.tid)]
    /\ UNCHANGED <<claims, needed, view, knew>>

\* Transport notifications: a member seems gone, or is back.  Only the lower
\* members of a view matter to Lowest.
SeeLeft(m, x) ==
    /\ x \in view[m] /\ x < m
    /\ view' = [view EXCEPT ![m] = @ \ {x}]
    /\ UNCHANGED <<peer, claims, needed, knew>>

SeeBack(m, x) ==
    /\ x \in Member \ view[m]
    /\ view' = [view EXCEPT ![m] = @ \cup {x}]
    /\ UNCHANGED <<peer, claims, needed, knew>>

ElectionNext ==
    \E m \in Member :
        \/ Silence(m)
        \/ HandleNeeded(m)
        \/ IgnoreNeeded(m)
        \/ \E f \in claims : DeliverClaim(m, f)
        \/ \E x \in Member : SeeLeft(m, x) \/ SeeBack(m, x)

ElectionSpec == ElectionInit /\ [][ElectionNext]_electionvars

------------------------------------------------------------------------------
(* Properties *)

LastClaim(m) == peer[m].out_seq["Control"]

HandledLastClaim(b, a) == peer[b].in_hw["Control"][a] >= LastClaim(a)

\* Two members both hold the role and know of each other's latest claim only if
\* the higher one claimed after it had handled the lower one's claim: claims
\* that cross are settled for the lower MemberId, whatever the order in which
\* claims arrive, are lost or are repeated (handle_control, claim_coordinator).
CrossingClaimsResolve ==
    \A a, b \in Member :
        /\ a < b
        /\ peer[a].is_coordinator /\ peer[b].is_coordinator
        /\ HandledLastClaim(b, a)
        => knew[b][a] = LastClaim(a)

\* When every claim has been handled by everyone and no election is pending
\* there is at most one coordinator (gbp-control-plane.md section 5.1).
AtMostOneCoordinator ==
    (/\ needed = {}
     /\ \A f \in claims, m \in Member : f.from = m \/ ~ Fresh(peer[m], "Control", f.from, f.seq))
    => \A a, b \in Member : peer[a].is_coordinator /\ peer[b].is_coordinator => a = b

------------------------------------------------------------------------------
(* The inductive invariant behind CrossingClaimsResolve *)

\* The survivors stay active in one epoch, and every claim is numbered within
\* its sender's counter.
SteadyGroup ==
    /\ \A m \in Member : peer[m].current_epoch = 1 /\ peer[m].state = "Active"
    /\ \A f \in claims : f.seq <= LastClaim(f.from)

\* No window runs ahead of the sender's counter.
WindowsBehindSenders ==
    \A a, b \in Member : peer[b].in_hw["Control"][a] <= LastClaim(a)

\* A node in the role has handled no lower member's claim since its own.
NoLowerSinceClaim ==
    \A a, b \in Member :
        a < b /\ peer[b].is_coordinator => peer[b].in_hw["Control"][a] = knew[b][a]

\* What every step of an election preserves (claim_coordinator, handle_control
\* and check_timeouts together).
ElectionInv ==
    /\ TypeOK
    /\ SteadyGroup
    /\ WindowsBehindSenders
    /\ NoLowerSinceClaim

==============================================================================
