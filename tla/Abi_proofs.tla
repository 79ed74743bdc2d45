----------------------------- MODULE Abi_proofs ------------------------------
(* Proofs about what the threads of an application share through the library:  *)
(* FfiCalls, the registries, locks and error texts behind the C ABI, and       *)
(* MediaKeys, the encryptors and the decryptors of media frames.               *)
EXTENDS FfiCalls, MediaKeys, TLAPS

-------------------------------------------------------------------------------
(* The exports *)

Does == {"body", "insert", "insertBoth", "remove", "bundle"}

Export ==
    [does : Does, uses : Seq(Kind), clears : BOOLEAN, checks : BOOLEAN,
     fails : BOOLEAN, tells : {"slot", "reply", "silent"}]

\* What the proofs need of an export: creating and destroying concern one
\* object, and the bundle map belongs to the MLS contexts.
Described(c) ==
    /\ c \in Export
    /\ c.does \in {"insert", "remove"} => Len(c.uses) = 1
    /\ c.does \in {"insertBoth", "bundle"} => c.uses = <<"mls">>

\* The ways an export is described are all of that kind.
LEMMA WrapsDescribed ==
    ASSUME NEW uses \in Seq(Kind), NEW checks \in BOOLEAN
    PROVE  Described(Wraps(uses, checks))
BY Zenon DEF Wraps, Export, Does, Described

LEMMA OneObjectDescribed ==
    ASSUME NEW kind \in Kind
    PROVE  /\ Described(Touches(kind)) /\ Described(Accepts(kind))
           /\ Described(Destroys(kind))
           /\ Described(Creates(kind, TRUE, TRUE))
           /\ Described(Creates(kind, TRUE, FALSE))
           /\ Described(Creates(kind, FALSE, FALSE))
<1>1. <<kind>> \in Seq(Kind) /\ Len(<<kind>>) = 1
  OBVIOUS
<1>2. QED
  BY <1>1, Zenon DEF Touches, Accepts, Destroys, Creates, Export, Does, Described

LEMMA KindsOfUses ==
    /\ Kind = {"mls", "node", "gtp", "gap", "gsp"}
    /\ << >> \in Seq(Kind) /\ <<"mls">> \in Seq(Kind) /\ <<"node", "mls">> \in Seq(Kind)
    /\ \A kind \in Kind : <<kind, "node", "mls">> \in Seq(Kind)
BY DEF Kind

\* Every table describes its exports.
LEMMA MlsObjectsDescribed == \A name \in DOMAIN MlsObjects : Described(MlsObjects[name])
<1> DEFINE creates == [Creates("mls", TRUE, TRUE) EXCEPT !.does = "insertBoth"]
           destroys == Destroys("mls")
           touches == Touches("mls")
           wraps == [Wraps(<<"mls">>, FALSE) EXCEPT !.fails = FALSE]
           wraps2 == [Wraps(<<"mls">>, FALSE) EXCEPT !.does = "bundle"]
<1>1. /\ Described(creates) /\ Described(destroys) /\ Described(touches)
      /\ Described(wraps) /\ Described(wraps2)
  <2>1. <<"mls">> \in Seq(Kind)
    BY KindsOfUses, Zenon
  <2>2. Described(creates) /\ Described(wraps) /\ Described(wraps2)
    BY <2>1, Zenon DEF Wraps, Creates, Described, Export, Does
  <2>3. Described(destroys) /\ Described(touches)
    BY KindsOfUses, OneObjectDescribed, Zenon
  <2>4. QED
    BY <2>2, <2>3, Zenon
<1>2. MlsObjects =
        [gbp_mls_create |-> creates, gbp_mls_destroy |-> destroys,
         gbp_mls_epoch |-> touches, gbp_mls_group_id |-> wraps,
         gbp_mls_export_key_package |-> wraps2]
  BY Zenon DEF MlsObjects
<1> HIDE DEF creates, destroys, touches, wraps, wraps2
<1>3. QED
  BY <1>1, <1>2

LEMMA MlsMembershipDescribed ==
    \A name \in DOMAIN MlsMembership : Described(MlsMembership[name])
<1> DEFINE wraps == Wraps(<<"mls">>, FALSE)
<1>1. Described(wraps)
  BY KindsOfUses, WrapsDescribed, Zenon
<1>2. MlsMembership =
        [gbp_mls_invite |-> wraps, gbp_mls_invite_full |-> wraps,
         gbp_mls_remove |-> wraps]
  BY Zenon DEF MlsMembership
<1> HIDE DEF wraps
<1>3. QED
  BY <1>1, <1>2

LEMMA MlsCommitsDescribed == \A name \in DOMAIN MlsCommits : Described(MlsCommits[name])
<1> DEFINE wraps == Wraps(<<"mls">>, FALSE)
<1>1. Described(wraps)
  BY KindsOfUses, WrapsDescribed, Zenon
<1>2. MlsCommits =
        [gbp_mls_process_message |-> wraps, gbp_mls_finalize_commit |-> wraps,
         gbp_mls_clear_pending_commit |-> wraps,
         gbp_mls_accept_welcome |-> wraps]
  BY Zenon DEF MlsCommits
<1> HIDE DEF wraps
<1>3. QED
  BY <1>1, <1>2

LEMMA MlsStateDescribed == \A name \in DOMAIN MlsState : Described(MlsState[name])
<1> DEFINE wraps == Wraps(<<"mls">>, FALSE)
           creates == Creates("mls", TRUE, TRUE)
<1>1. Described(wraps) /\ Described(creates)
  BY KindsOfUses, WrapsDescribed, OneObjectDescribed, Zenon
<1>2. MlsState =
        [gbp_mls_export_state |-> wraps, gbp_mls_restore_state |-> creates]
  BY Zenon DEF MlsState
<1> HIDE DEF wraps, creates
<1>3. QED
  BY <1>1, <1>2

LEMMA NodeObjectsDescribed ==
    \A name \in DOMAIN NodeObjects : Described(NodeObjects[name])
<1> DEFINE creates == Creates("node", TRUE, FALSE)
           destroys == Destroys("node")
           touches == Touches("node")
<1>1. Described(creates) /\ Described(destroys) /\ Described(touches)
  BY KindsOfUses, OneObjectDescribed, Zenon
<1>2. NodeObjects =
        [gbp_node_create |-> creates, gbp_node_destroy |-> destroys,
         gbp_node_bootstrap_creator |-> touches,
         gbp_node_bootstrap_joiner |-> touches, gbp_node_state |-> touches,
         gbp_node_epoch |-> touches, gbp_node_last_transition_id |-> touches,
         gbp_node_set_epoch |-> touches, gbp_node_apply_transition |-> touches]
  BY Zenon DEF NodeObjects
<1> HIDE DEF creates, destroys, touches
<1>3. QED
  BY <1>1, <1>2

LEMMA NodeTrafficDescribed ==
    \A name \in DOMAIN NodeTraffic : Described(NodeTraffic[name])
<1> DEFINE wraps == Wraps(<<"node", "mls">>, TRUE)
           wraps2 == Wraps(<<"node", "mls">>, FALSE)
           touches == Touches("node")
<1>1. Described(wraps) /\ Described(wraps2) /\ Described(touches)
  BY KindsOfUses, WrapsDescribed, OneObjectDescribed, Zenon
<1>2. NodeTraffic =
        [gbp_node_send_control |-> wraps, gbp_node_on_wire |-> wraps2,
         gbp_node_drain_events |-> touches]
  BY Zenon DEF NodeTraffic
<1> HIDE DEF wraps, wraps2, touches
<1>3. QED
  BY <1>1, <1>2

LEMMA GtpCallsDescribed == \A name \in DOMAIN GtpCalls : Described(GtpCalls[name])
<1> DEFINE creates == Creates("gtp", FALSE, FALSE)
           destroys == Destroys("gtp")
           touches == Touches("gtp")
           wraps == Wraps(<<"gtp", "node", "mls">>, TRUE)
           accepts == Accepts("gtp")
<1>1. /\ Described(creates) /\ Described(destroys) /\ Described(touches)
      /\ Described(wraps) /\ Described(accepts)
  BY KindsOfUses, WrapsDescribed, OneObjectDescribed, Zenon
<1>2. GtpCalls =
        [gtp_client_create |-> creates, gtp_client_destroy |-> destroys,
         gtp_client_reset |-> touches, gtp_client_send |-> wraps,
         gtp_client_accept |-> accepts]
  BY Zenon DEF GtpCalls
<1> HIDE DEF creates, destroys, touches, wraps, accepts
<1>3. QED
  BY <1>1, <1>2

LEMMA GapCallsDescribed == \A name \in DOMAIN GapCalls : Described(GapCalls[name])
<1> DEFINE creates == Creates("gap", FALSE, FALSE)
           destroys == Destroys("gap")
           touches == Touches("gap")
           wraps == Wraps(<<"gap", "node", "mls">>, FALSE)
           accepts == Accepts("gap")
<1>1. /\ Described(creates) /\ Described(destroys) /\ Described(touches)
      /\ Described(wraps) /\ Described(accepts)
  BY KindsOfUses, WrapsDescribed, OneObjectDescribed, Zenon
<1>2. GapCalls =
        [gap_client_create |-> creates, gap_client_destroy |-> destroys,
         gap_client_reset |-> touches, gap_client_send |-> wraps,
         gap_client_accept |-> accepts]
  BY Zenon DEF GapCalls
<1> HIDE DEF creates, destroys, touches, wraps, accepts
<1>3. QED
  BY <1>1, <1>2

LEMMA GspObjectsDescribed == \A name \in DOMAIN GspObjects : Described(GspObjects[name])
<1> DEFINE creates == Creates("gsp", FALSE, FALSE)
           destroys == Destroys("gsp")
           touches == Touches("gsp")
<1>1. Described(creates) /\ Described(destroys) /\ Described(touches)
  BY KindsOfUses, OneObjectDescribed, Zenon
<1>2. GspObjects =
        [gsp_client_create |-> creates, gsp_client_destroy |-> destroys,
         gsp_client_reset |-> touches]
  BY Zenon DEF GspObjects
<1> HIDE DEF creates, destroys, touches
<1>3. QED
  BY <1>1, <1>2

LEMMA GspSendsDescribed == \A name \in DOMAIN GspSends : Described(GspSends[name])
<1> DEFINE wraps == Wraps(<<"gsp", "node", "mls">>, TRUE)
<1>1. Described(wraps)
  BY KindsOfUses, WrapsDescribed, Zenon
<1>2. GspSends =
        [gsp_client_send |-> wraps, gsp_client_send_with_args |-> wraps]
  BY Zenon DEF GspSends
<1> HIDE DEF wraps
<1>3. QED
  BY <1>1, <1>2

LEMMA GspAcceptsDescribed == \A name \in DOMAIN GspAccepts : Described(GspAccepts[name])
<1> DEFINE accepts == Accepts("gsp")
<1>1. Described(accepts)
  BY KindsOfUses, OneObjectDescribed, Zenon
<1>2. GspAccepts =
        [gsp_client_accept |-> accepts]
  BY Zenon DEF GspAccepts
<1> HIDE DEF accepts
<1>3. QED
  BY <1>1, <1>2

LEMMA HelpersDescribed == \A name \in DOMAIN Helpers : Described(Helpers[name])
<1> DEFINE wraps == [Wraps(<<>>, FALSE) EXCEPT !.fails = FALSE]
           wraps2 == [Wraps(<<>>, FALSE) EXCEPT !.clears = FALSE]
<1>1. Described(wraps) /\ Described(wraps2)
  BY KindsOfUses, Zenon DEF Wraps, Creates, Described, Export, Does
<1>2. Helpers =
        [gbp_frame_encode_v |-> wraps, gbp_error_lookup |-> wraps2]
  BY Zenon DEF Helpers
<1> HIDE DEF wraps, wraps2
<1>3. QED
  BY <1>1, <1>2

LEMMA ExportsDescribed ==
    ASSUME NEW name \in Used
    PROVE  Described(Exports[name])
<1>1. name \in UNION {DOMAIN table : table \in Tables}
  BY FfiAssumption, Zenon DEF Exports
<1>2. PICK table \in Tables : name \in DOMAIN table /\ Exports[name] = table[name]
  <2> DEFINE t == CHOOSE table \in Tables : name \in DOMAIN table
  <2>1. t \in Tables /\ name \in DOMAIN t
    BY <1>1, Zenon
  <2>2. Exports[name] = t[name]
    BY <1>1, Zenon DEF Exports
  <2>3. QED
    BY <2>1, <2>2, Zenon
<1>3. QED
  BY <1>2, MlsObjectsDescribed, MlsMembershipDescribed, MlsCommitsDescribed,
     MlsStateDescribed, NodeObjectsDescribed, NodeTrafficDescribed, GtpCallsDescribed,
     GapCallsDescribed, GspObjectsDescribed, GspSendsDescribed, GspAcceptsDescribed,
     HelpersDescribed, Zenon DEF Tables

-------------------------------------------------------------------------------
(* The inductive invariants *)

Result == {"none", "ok"} \cup Failure

Call ==
    [pc : {"idle", "entered", "locking", "storing", "dropping"},
     c : Export, args : Seq(Nat), held : Nat, result : Result]

TypeOK ==
    /\ live \in [Kind -> SUBSET Nat] /\ next \in [Kind -> Nat]
    /\ given \in [Kind -> SUBSET Nat] /\ doomed \in [Kind -> SUBSET Nat]
    /\ bundles \in SUBSET Nat /\ restored \in SUBSET Nat
    /\ slot \in [Thread -> {<< >>} \cup (Thread \X Nat)]
    /\ calls \in [Thread -> Nat]
    /\ run \in [Thread -> Call]
    /\ \A t \in Thread :
          Described(run[t].c) /\ (run[t].pc = "storing" => 1 \in DOMAIN run[t].args)

\* The slot of thread t is empty from the start of a call that clears it until
\* the call ends.
SlotOk(t) ==
    run[t].c.clears =>
        /\ run[t].pc # "idle" => slot[t] = << >>
        /\ run[t].pc = "idle" /\ calls[t] > 0 =>
              slot[t] = IF run[t].result \in Failure /\ run[t].c.tells = "slot"
                        THEN <<t, calls[t]>> ELSE << >>

SlotInv == TypeOK /\ \A t \in Thread : SlotOk(t)

\* The arguments r of a call between its lookups
ArgsOk(r) ==
    /\ r.pc = "entered" =>
          \A i \in DOMAIN r.args : i \in DOMAIN r.c.uses /\ r.args[i] \in given[r.c.uses[i]]
    /\ r.pc = "entered" /\ r.c.does \in {"remove", "bundle"} => 1 \in DOMAIN r.args
    /\ r.pc = "entered" /\ r.c.does = "remove" => r.args[1] \in doomed[r.c.uses[1]]
    /\ r.pc = "dropping" => r.args[1] \in doomed["mls"]
    /\ r.pc = "storing" => r.args[1] \in live["mls"] \cup doomed["mls"]

\* An invalid handle was asked to be destroyed, or never had a bundle.
Excused(r) ==
    /\ r.pc # "idle" => r.result = "none"
    /\ r.result = "badHandle" =>
          \/ \E i \in DOMAIN r.args \cap DOMAIN r.c.uses : r.args[i] \in doomed[r.c.uses[i]]
          \/ r.c.does = "bundle" /\ r.args[1] \in restored

\* A handle the application was given is in its registry until the application
\* asks to destroy it, and an MLS context has a bundle unless it was restored.
Kept ==
    /\ \A kind \in Kind : given[kind] \subseteq live[kind] \cup doomed[kind]
    /\ given["mls"] \subseteq bundles \cup restored \cup doomed["mls"]

HandleInv ==
    /\ TypeOK /\ Kept
    /\ \A t \in Thread : ArgsOk(run[t]) /\ Excused(run[t])

-------------------------------------------------------------------------------
(* What the pieces of a step do *)

\* The call of thread t becomes r and its slot w.
Turns(t, r, w) ==
    /\ run' \in [Thread -> Call] /\ run'[t] = r /\ Described(r.c)
    /\ r.pc = "storing" => 1 \in DOMAIN r.args
    /\ slot' \in [Thread -> {<< >>} \cup (Thread \X Nat)] /\ slot'[t] = w
    /\ \A u \in Thread : u # t => run'[u] = run[u] /\ slot'[u] = slot[u]

LEMMA TurnsIntro ==
    ASSUME TypeOK, NEW t \in Thread, NEW r \in Call, Described(r.c),
           r.pc = "storing" => 1 \in DOMAIN r.args,
           NEW w \in {<< >>} \cup (Thread \X Nat),
           run' = [run EXCEPT ![t] = r], slot' = [slot EXCEPT ![t] = w]
    PROVE  Turns(t, r, w)
BY Zenon DEF TypeOK, Turns

\* A call that has ended with this result
Ended(r, result) ==
    [r EXCEPT !.pc = "idle", !.result = result, !.held = 0]

LEMMA EndedCall ==
    ASSUME NEW r \in Call, NEW result \in Result
    PROVE  /\ Ended(r, result) \in Call /\ Ended(r, result).pc = "idle"
           /\ Ended(r, result).c = r.c /\ Ended(r, result).args = r.args
           /\ Ended(r, result).result = result
BY Zenon DEF Ended, Call

\* What is in the slot of thread t after a call with this result
Told(t, result) ==
    IF result \in Failure /\ run[t].c.tells = "slot" THEN <<t, calls[t]>> ELSE slot[t]

LEMMA ReturnTurns ==
    ASSUME TypeOK, NEW t \in Thread, NEW result \in Result, Return(t, result)
    PROVE  Turns(t, Ended(run[t], result), Told(t, result))
<1>1. /\ run \in [Thread -> Call] /\ run[t] \in Call /\ Described(run[t].c)
      /\ slot \in [Thread -> {<< >>} \cup (Thread \X Nat)] /\ calls[t] \in Nat
  BY Zenon DEF TypeOK
<1>2. run' = [run EXCEPT ![t] = Ended(run[t], result)]
  BY <1>1, Zenon DEF Return, Ended
<1>3. slot' = [slot EXCEPT ![t] = Told(t, result)]
  BY <1>1, Zenon DEF Return, Told, SlotOf, Own
<1>4. Told(t, result) \in {<< >>} \cup (Thread \X Nat)
  BY <1>1, Zenon DEF Told
<1>5. /\ Ended(run[t], result) \in Call /\ Described(Ended(run[t], result).c)
      /\ Ended(run[t], result).pc # "storing"
  BY <1>1, EndedCall, Zenon
<1>6. QED
  BY <1>2, <1>3, <1>4, <1>5, TurnsIntro, Zenon

LEMMA FailuresAreResults == Failure \subseteq Result /\ "ok" \in Result
BY Zenon DEF Result

\* The maps and counters are of their types after a step.
MapsOk ==
    /\ live \in [Kind -> SUBSET Nat] /\ next \in [Kind -> Nat]
    /\ given \in [Kind -> SUBSET Nat] /\ doomed \in [Kind -> SUBSET Nat]
    /\ bundles \in SUBSET Nat /\ restored \in SUBSET Nat
    /\ calls \in [Thread -> Nat]

LEMMA TurnsTyped ==
    ASSUME TypeOK, NEW t \in Thread, NEW r, NEW w, Turns(t, r, w), MapsOk'
    PROVE  TypeOK'
<1>1. \A u \in Thread :
          Described(run'[u].c) /\ (run'[u].pc = "storing" => 1 \in DOMAIN run'[u].args)
  BY Zenon DEF TypeOK, Turns
<1>2. run' \in [Thread -> Call] /\ slot' \in [Thread -> {<< >>} \cup (Thread \X Nat)]
  BY Zenon DEF Turns
<1>3. QED
  BY <1>1, <1>2, Zenon DEF TypeOK, MapsOk, Described

\* A call goes on, or it returns.
Proceeds(t) ==
    \E r \in Call : Turns(t, r, slot[t]) /\ r.c = run[t].c /\ r.pc # "idle"
                                         /\ r.result = run[t].result

Returns(t) ==
    \E result \in Result : Turns(t, Ended(run[t], result), Told(t, result))

\* The registry of an object that is created or destroyed
LEMMA FirstKind ==
    ASSUME NEW c, Described(c), c.does \in {"insert", "insertBoth", "remove", "bundle"}
    PROVE  c.uses[1] \in Kind /\ 1 \in DOMAIN c.uses
<1>1. c.uses \in Seq(Kind)
  BY Zenon DEF Described, Export
<1>2. Len(c.uses) = 1
  BY DEF Described
<1>3. QED
  BY <1>1, <1>2

LEMMA MovedCall ==
    ASSUME TypeOK, NEW t \in Thread, NEW r \in Call, run' = [run EXCEPT ![t] = r],
           r.c = run[t].c, r.pc # "idle", r.result = run[t].result,
           r.pc = "storing" => 1 \in DOMAIN r.args, slot' = slot
    PROVE  Proceeds(t)
<1>1. /\ Described(r.c) /\ slot[t] \in {<< >>} \cup (Thread \X Nat)
      /\ slot' = [slot EXCEPT ![t] = slot[t]]
  BY Zenon DEF TypeOK
<1>2. Turns(t, r, slot[t])
  BY <1>1, TurnsIntro, Zenon
<1>3. QED
  BY <1>2, Zenon DEF Proceeds

\* Steps that leave the maps alone
LEMMA BodySteps ==
    ASSUME TypeOK, NEW t \in Thread, Refuse(t) \/ Resolve(t) \/ Lock(t) \/ Body(t)
    PROVE  /\ TypeOK' /\ run[t].pc # "idle" /\ calls' = calls
           /\ Proceeds(t) \/ Returns(t)
<1>1. /\ run[t].pc # "idle" /\ UNCHANGED <<live, next, bundles, restored, calls, given, doomed>>
  BY Zenon DEF Refuse, Resolve, Lock, Body
<1>2. MapsOk'
  BY <1>1, Zenon DEF TypeOK, MapsOk
<1>3. run[t] \in Call /\ run \in [Thread -> Call]
  BY Zenon DEF TypeOK
<1>4. Proceeds(t) \/ Returns(t)
  <2>1. CASE \E result \in Result : Return(t, result)
    BY <2>1, ReturnTurns, Zenon DEF Returns
  <2>2. CASE run' = [run EXCEPT ![t].pc = "locking"] /\ slot' = slot
    <3> DEFINE r == [run[t] EXCEPT !.pc = "locking"]
    <3>1. /\ r \in Call /\ r.c = run[t].c /\ r.pc = "locking" /\ r.result = run[t].result
      BY <1>3, Zenon DEF Call
    <3>2. run' = [run EXCEPT ![t] = r]
      BY <2>2, Zenon
    <3> HIDE DEF r
    <3>3. QED
      BY <2>2, <3>1, <3>2, MovedCall, Zenon
  <2>3. CASE Lock(t)
    <3> DEFINE r == [run[t] EXCEPT !.held = @ + 1]
    <3>0. run[t].held + 1 \in Nat /\ run[t].pc = "locking"
      BY <1>3, <2>3 DEF Call, Lock
    <3>1. /\ r \in Call /\ r.c = run[t].c /\ r.pc = "locking" /\ r.result = run[t].result
      BY <1>3, <3>0, Zenon DEF Call
    <3>2. run' = [run EXCEPT ![t] = r] /\ slot' = slot
      BY <2>3, Zenon DEF Lock
    <3> HIDE DEF r
    <3>3. QED
      BY <3>1, <3>2, MovedCall, Zenon
  <2>4. QED
    BY <2>1, <2>2, <2>3, FailuresAreResults, Zenon DEF Refuse, Resolve, Body, Failure
<1>5. QED
  BY <1>1, <1>2, <1>4, TurnsTyped, Zenon DEF Proceeds, Returns

\* Creating an object
LEMMA InsertStep ==
    ASSUME TypeOK, NEW t \in Thread, Insert(t)
    PROVE  /\ TypeOK' /\ run[t].pc # "idle" /\ calls' = calls
           /\ Proceeds(t) \/ Returns(t)
<1> DEFINE kind == run[t].c.uses[1]
           id == next[kind]
<1>1. run[t] \in Call /\ run \in [Thread -> Call] /\ Described(run[t].c)
  BY Zenon DEF TypeOK
<1>2. /\ run[t].pc = "entered" /\ run[t].c.does \in {"insert", "insertBoth"}
      /\ UNCHANGED <<bundles, calls, doomed>>
  BY Zenon DEF Insert
<1>3. kind \in Kind
  BY <1>1, <1>2, FirstKind, Zenon
<1>4. id \in Nat /\ id + 1 \in Nat
  BY <1>3 DEF TypeOK
<1>5. MapsOk'
  <2>1. /\ next' = next \/ next' = [next EXCEPT ![kind] = @ + 1]
        /\ live' = live \/ live' = [live EXCEPT ![kind] = @ \cup {id}]
        /\ given' = given \/ given' = [given EXCEPT ![kind] = @ \cup {id}]
        /\ restored' = restored \/ restored' = restored \cup {id}
    BY Zenon DEF Insert, Publish
  <2>2. /\ live \in [Kind -> SUBSET Nat] /\ given \in [Kind -> SUBSET Nat]
        /\ next \in [Kind -> Nat] /\ restored \in SUBSET Nat /\ next[kind] + 1 \in Nat
    BY <1>4, Zenon DEF TypeOK
  <2>3. /\ bundles' \in SUBSET Nat /\ doomed' \in [Kind -> SUBSET Nat]
        /\ calls' \in [Thread -> Nat]
    BY <1>2, Zenon DEF TypeOK
  <2> HIDE DEF kind, id
  <2>4. next' \in [Kind -> Nat] /\ restored' \in SUBSET Nat
    BY <1>4, <2>1, <2>2, Zenon
  <2>5. live' \in [Kind -> SUBSET Nat]
    BY <1>4, <2>1, <2>2
  <2>6. given' \in [Kind -> SUBSET Nat]
    BY <1>4, <2>1, <2>2
  <2>7. QED
    BY <2>3, <2>4, <2>5, <2>6, Zenon DEF MapsOk
<1>6. CASE Return(t, "failed") \/ Return(t, "ok")
  BY <1>2, <1>5, <1>6, FailuresAreResults, ReturnTurns, TurnsTyped, Zenon DEF Returns, Failure
<1>7. CASE /\ run' = [run EXCEPT ![t].pc = "storing", ![t].args = <<id>>]
           /\ slot' = slot
  <2> DEFINE r == [run[t] EXCEPT !.pc = "storing", !.args = <<id>>]
  <2>1. <<id>> \in Seq(Nat) /\ 1 \in DOMAIN <<id>>
    BY <1>4
  <2>2. /\ r \in Call /\ r.c = run[t].c /\ r.pc = "storing" /\ r.result = run[t].result
        /\ r.args = <<id>>
    BY <1>1, <2>1, Zenon DEF Call
  <2>3. run' = [run EXCEPT ![t] = r]
    BY <1>7, Zenon
  <2> HIDE DEF r, id
  <2>4. Proceeds(t)
    BY <1>7, <2>1, <2>2, <2>3, MovedCall, Zenon
  <2>5. QED
    BY <1>2, <1>5, <2>4, TurnsTyped, Zenon DEF Proceeds
<1>8. QED
  BY <1>6, <1>7, Zenon DEF Insert, Publish

\* The steps after an insertion or a removal, and reading a bundle
LEMMA BundleSteps ==
    ASSUME TypeOK, NEW t \in Thread, StoreBundle(t) \/ DropBundle(t) \/ ReadBundle(t)
    PROVE  /\ TypeOK' /\ run[t].pc # "idle" /\ calls' = calls
           /\ Proceeds(t) \/ Returns(t)
<1>1. run[t].pc # "idle" /\ UNCHANGED <<live, next, restored, calls, doomed>>
  BY Zenon DEF StoreBundle, DropBundle, ReadBundle
<1>2. "mls" \in Kind
  BY KindsOfUses, Zenon
<1>3. StoreBundle(t) => run[t].args[1] \in Nat
  BY DEF TypeOK, Call, StoreBundle
<1>4. given' \in [Kind -> SUBSET Nat] /\ bundles' \in SUBSET Nat
  <2> DEFINE h == run[t].args[1]
  <2>1. \/ /\ StoreBundle(t) /\ given' = [given EXCEPT !["mls"] = @ \cup {h}]
           /\ bundles' = bundles \cup {h}
        \/ given' = given /\ bundles' \subseteq bundles
    BY Zenon DEF StoreBundle, DropBundle, ReadBundle, Publish
  <2>2. given \in [Kind -> SUBSET Nat] /\ bundles \in SUBSET Nat
    BY Zenon DEF TypeOK
  <2> HIDE DEF h
  <2>3. StoreBundle(t) => h \in Nat
    BY <1>3, Zenon DEF h
  <2>4. QED
    BY <1>2, <2>1, <2>2, <2>3, Zenon
<1>5. MapsOk'
  BY <1>1, <1>4, Zenon DEF TypeOK, MapsOk
<1>6. \E result \in Result : Return(t, result)
  BY FailuresAreResults, Zenon DEF StoreBundle, DropBundle, ReadBundle, Publish, Failure
<1>7. QED
  BY <1>1, <1>5, <1>6, ReturnTurns, TurnsTyped, Zenon DEF Returns

\* Destroying an object
LEMMA RemoveStep ==
    ASSUME TypeOK, NEW t \in Thread, Remove(t)
    PROVE  /\ TypeOK' /\ run[t].pc # "idle" /\ calls' = calls
           /\ Proceeds(t) \/ Returns(t)
<1>1. run[t] \in Call /\ run \in [Thread -> Call]
  BY Zenon DEF TypeOK
<1>2. run[t].pc # "idle" /\ UNCHANGED <<next, bundles, restored, calls, given, doomed>>
  BY Zenon DEF Remove
<1>3. live' \in [Kind -> SUBSET Nat]
  BY Zenon DEF TypeOK, Remove
<1>4. MapsOk'
  BY <1>2, <1>3, Zenon DEF TypeOK, MapsOk
<1>5. CASE Return(t, "ok")
  BY <1>2, <1>4, <1>5, FailuresAreResults, ReturnTurns, TurnsTyped, Zenon DEF Returns
<1>6. CASE run' = [run EXCEPT ![t].pc = "dropping"] /\ slot' = slot
  <2> DEFINE r == [run[t] EXCEPT !.pc = "dropping"]
  <2>1. /\ r \in Call /\ r.c = run[t].c /\ r.pc = "dropping" /\ r.result = run[t].result
    BY <1>1, Zenon DEF Call
  <2>2. run' = [run EXCEPT ![t] = r]
    BY <1>6, Zenon
  <2> HIDE DEF r
  <2>3. Proceeds(t)
    BY <1>6, <2>1, <2>2, MovedCall, Zenon
  <2>4. QED
    BY <1>2, <1>4, <2>3, TurnsTyped, Zenon DEF Proceeds
<1>7. QED
  BY <1>5, <1>6, Zenon DEF Remove

LEMMA StepGoesOnOrReturns ==
    ASSUME TypeOK, NEW t \in Thread, Step(t)
    PROVE  /\ TypeOK' /\ run[t].pc # "idle" /\ calls' = calls
           /\ Proceeds(t) \/ Returns(t)
BY BodySteps, InsertStep, BundleSteps, RemoveStep, Zenon DEF Step

\* A call of export c with arguments hs begins.
Begins(t, c, hs) ==
    /\ Described(c) /\ hs \in Seq(Nat)
    /\ Turns(t, [pc |-> "entered", c |-> c, args |-> hs, held |-> 0, result |-> "none"],
             IF c.clears THEN << >> ELSE slot[t])
    /\ c.does \in {"insert", "insertBoth"} => hs = << >>
    /\ c.does \notin {"insert", "insertBoth"} =>
          /\ DOMAIN hs = DOMAIN c.uses
          /\ \A i \in DOMAIN hs : hs[i] \in given[c.uses[i]]
    /\ doomed' = IF c.does = "remove"
                 THEN [doomed EXCEPT ![c.uses[1]] = @ \cup {hs[1]}] ELSE doomed

LEMMA EnterStep ==
    ASSUME TypeOK, NEW t \in Thread, Enter(t)
    PROVE  /\ TypeOK' /\ calls' = [calls EXCEPT ![t] = @ + 1]
           /\ UNCHANGED <<live, next, bundles, restored, given>>
           /\ \E c, hs : Begins(t, c, hs)
<1>0. PICK name \in Used : \E hs \in Handles(Exports[name]) :
          /\ run' = [run EXCEPT ![t] = [pc |-> "entered", c |-> Exports[name], args |-> hs,
                                        held |-> 0, result |-> "none"]]
          /\ slot' = IF Exports[name].clears THEN [slot EXCEPT ![SlotOf(t)] = << >>] ELSE slot
          /\ doomed' = IF Exports[name].does = "remove"
                       THEN [doomed EXCEPT ![Exports[name].uses[1]] = @ \cup {hs[1]}]
                       ELSE doomed
  BY Zenon DEF Enter
<1> DEFINE c == Exports[name]
<1>1. PICK hs \in Handles(c) :
          /\ run' = [run EXCEPT ![t] = [pc |-> "entered", c |-> c, args |-> hs,
                                        held |-> 0, result |-> "none"]]
          /\ slot' = IF c.clears THEN [slot EXCEPT ![SlotOf(t)] = << >>] ELSE slot
          /\ doomed' = IF c.does = "remove"
                       THEN [doomed EXCEPT ![c.uses[1]] = @ \cup {hs[1]}] ELSE doomed
  BY <1>0, Zenon
<1> DEFINE r == [pc |-> "entered", c |-> c, args |-> hs, held |-> 0, result |-> "none"]
           w == IF c.clears THEN << >> ELSE slot[t]
<1>2. Described(c)
  BY ExportsDescribed, Zenon
<1>3. c \in Export /\ c.uses \in Seq(Kind) /\ Len(c.uses) \in Nat
  BY <1>2 DEF Described, Export
<1>4. c.does \in {"insert", "insertBoth"} => hs = << >>
  BY <1>1, Zenon DEF Handles
<1>5. c.does \notin {"insert", "insertBoth"} =>
          /\ hs \in [1 .. Len(c.uses) -> 1 .. MaxHandle]
          /\ \A i \in DOMAIN hs : hs[i] \in given[c.uses[i]]
  BY <1>1, Zenon DEF Handles
<1>6. DOMAIN c.uses = 1 .. Len(c.uses)
  BY <1>3
<1>7. hs \in Seq(Nat)
  <2>1. << >> \in Seq(Nat)
    OBVIOUS
  <2>2. 1 .. MaxHandle \subseteq Nat
    BY FfiAssumption
  <2> HIDE DEF c
  <2>3. hs \in [1 .. Len(c.uses) -> 1 .. MaxHandle] => hs \in [1 .. Len(c.uses) -> Nat]
    BY <2>2, Zenon
  <2>4. hs \in [1 .. Len(c.uses) -> Nat] => hs \in Seq(Nat)
    BY <1>3
  <2>5. QED
    BY <1>4, <1>5, <2>1, <2>3, <2>4, Zenon
<1>8. "none" \in Result
  BY Zenon DEF Result
<1> HIDE DEF c
<1>9. r \in Call /\ r.c = c /\ r.pc = "entered"
  BY <1>3, <1>7, <1>8, Zenon DEF Call
<1>10. /\ w \in {<< >>} \cup (Thread \X Nat) /\ slot' = [slot EXCEPT ![t] = w]
       /\ run' = [run EXCEPT ![t] = r]
  BY <1>1, Zenon DEF TypeOK, SlotOf, c
<1>11. Turns(t, r, w)
  BY <1>2, <1>9, <1>10, TurnsIntro, Zenon
<1>12. doomed' = IF c.does = "remove"
                 THEN [doomed EXCEPT ![c.uses[1]] = @ \cup {hs[1]}] ELSE doomed
  BY <1>1, Zenon DEF c
<1>13. Begins(t, c, hs)
  BY <1>2, <1>4, <1>5, <1>6, <1>7, <1>11, <1>12, Zenon DEF Begins
<1>14. /\ calls' = [calls EXCEPT ![t] = @ + 1]
       /\ UNCHANGED <<live, next, bundles, restored, owner, given>>
  BY Zenon DEF Enter
<1>15. MapsOk'
  <2>1. calls' \in [Thread -> Nat]
    BY <1>14 DEF TypeOK
  <2>2. doomed' \in [Kind -> SUBSET Nat]
    <3>1. CASE c.does = "remove"
      <4>1. 1 \in DOMAIN c.uses
        BY <1>2, <3>1, FirstKind, Zenon
      <4>2. hs[1] \in Nat
        BY <1>5, <1>6, <1>7, <3>1, <4>1
      <4>3. QED
        BY <1>12, <3>1, <4>2, Zenon DEF TypeOK
    <3>2. CASE c.does # "remove"
      BY <1>12, <3>2, Zenon DEF TypeOK
    <3>3. QED
      BY <3>1, <3>2, Zenon
  <2>3. QED
    BY <1>14, <2>1, <2>2, Zenon DEF TypeOK, MapsOk
<1>16. TypeOK'
  BY <1>11, <1>15, TurnsTyped, Zenon
<1>17. QED
  BY <1>13, <1>14, <1>16, Zenon

-------------------------------------------------------------------------------
(* The last-error slot *)

LEMMA InitTypeOK ==
    ASSUME Init
    PROVE  TypeOK
<1> DEFINE r == [pc |-> "idle", c |-> Destroys("gtp"), args |-> <<1>>, held |-> 0,
                 result |-> "none"]
<1>1. Described(Destroys("gtp"))
  BY KindsOfUses, OneObjectDescribed, Zenon
<1>2. r \in Call /\ r.c = Destroys("gtp") /\ r.pc = "idle"
  <2>1. Destroys("gtp") \in Export /\ <<1>> \in Seq(Nat) /\ "none" \in Result
    BY <1>1 DEF Described, Result
  <2>2. QED
    BY <2>1, Zenon DEF Call
<1>3. run = [t \in Thread |-> r]
  BY Zenon DEF Init
<1>4. \A t \in Thread :
          Described(run[t].c) /\ (run[t].pc = "storing" => 1 \in DOMAIN run[t].args)
  BY <1>1, <1>2, <1>3, Zenon
<1>5. run \in [Thread -> Call]
  BY <1>2, <1>3, Zenon
<1> HIDE DEF r
<1>6. /\ live \in [Kind -> SUBSET Nat] /\ next \in [Kind -> Nat]
      /\ given \in [Kind -> SUBSET Nat] /\ doomed \in [Kind -> SUBSET Nat]
      /\ bundles \in SUBSET Nat /\ restored \in SUBSET Nat
      /\ slot \in [Thread -> {<< >>} \cup (Thread \X Nat)]
      /\ calls \in [Thread -> Nat]
  BY DEF Init
<1>7. QED
  BY <1>4, <1>5, <1>6, Zenon DEF TypeOK

\* A step of thread t leaves the slot of every other thread as it is.
LEMMA OthersSlotOk ==
    ASSUME NEW t \in Thread, NEW u \in Thread, u # t, NEW r, NEW w, Turns(t, r, w),
           calls'[u] = calls[u], SlotOk(u)
    PROVE  SlotOk(u)'
BY Zenon DEF Turns, SlotOk

LEMMA NextSlotInv ==
    ASSUME SlotInv, [Next]_vars
    PROVE  SlotInv'
<1>1. CASE UNCHANGED vars
  BY <1>1, Zenon DEF vars, SlotInv, TypeOK, SlotOk, Described
<1>2. ASSUME NEW t \in Thread, Step(t)
      PROVE  SlotInv'
  <2>1. /\ TypeOK' /\ run[t].pc # "idle" /\ calls' = calls /\ SlotOk(t) /\ run[t] \in Call
        /\ Proceeds(t) \/ Returns(t)
    BY <1>2, StepGoesOnOrReturns, Zenon DEF SlotInv, TypeOK
  <2>2. SlotOk(t)'
    <3>1. CASE Proceeds(t)
      BY <2>1, <3>1, Zenon DEF Proceeds, Turns, SlotOk
    <3>2. ASSUME NEW result \in Result, Turns(t, Ended(run[t], result), Told(t, result))
          PROVE  SlotOk(t)'
      <4>1. /\ run'[t].c = run[t].c /\ run'[t].pc = "idle" /\ run'[t].result = result
        BY <2>1, <3>2, EndedCall DEF Turns
      <4>2. slot'[t] = Told(t, result)
        BY <3>2, Zenon DEF Turns
      <4>3. run[t].c.clears => slot[t] = << >>
        BY <2>1, Zenon DEF SlotOk
      <4>4. QED
        BY <2>1, <4>1, <4>2, <4>3, Zenon DEF SlotOk, Told
    <3>3. QED
      BY <2>1, <3>1, <3>2, Zenon DEF Returns
  <2>3. \A u \in Thread : u # t => SlotOk(u)'
    BY <2>1, OthersSlotOk, Zenon DEF Proceeds, Returns, SlotInv
  <2>4. QED
    BY <2>1, <2>2, <2>3, Zenon DEF SlotInv
<1>3. ASSUME NEW t \in Thread, Enter(t)
      PROVE  SlotInv'
  <2>1. /\ TypeOK' /\ calls' = [calls EXCEPT ![t] = @ + 1] /\ calls \in [Thread -> Nat]
    BY <1>3, EnterStep, Zenon DEF SlotInv, TypeOK
  <2>2. PICK c, hs : Begins(t, c, hs)
    BY <1>3, EnterStep, Zenon DEF SlotInv
  <2>3. PICK r, w : Turns(t, r, w) /\ r.c = c /\ r.pc = "entered" /\ (c.clears => w = << >>)
    BY <2>2 DEF Begins
  <2>4. SlotOk(t)'
    BY <2>3, Zenon DEF SlotOk, Turns
  <2>5. \A u \in Thread : u # t => SlotOk(u)'
    BY <2>1, <2>3, OthersSlotOk, Zenon DEF SlotInv
  <2>6. QED
    BY <2>1, <2>4, <2>5, Zenon DEF SlotInv
<1>4. QED
  BY <1>1, <1>2, <1>3, Zenon DEF Next, Done

\* However the threads interleave, after a call that clears the slot the
\* thread's gbp_last_error is the text of that call if it failed and does not
\* answer in its reply, and empty otherwise (clear_last_error, set_last_error
\* and the thread-local slot of stack-ffi).
THEOREM SlotIsOwn == Spec => []SlotTellsOutcome
<1>1. Init => SlotInv
  <2> SUFFICES ASSUME Init PROVE SlotInv
    OBVIOUS
  <2>1. \A t \in Thread : run[t].pc = "idle" /\ calls[t] = 0
    BY Zenon DEF Init
  <2>2. QED
    BY <2>1, InitTypeOK DEF SlotInv, SlotOk
<1>2. SlotInv /\ [Next]_vars => SlotInv'
  BY NextSlotInv, Zenon
<1>3. SlotInv => SlotTellsOutcome
  BY Zenon DEF SlotInv, SlotOk, SlotTellsOutcome, LastError, SlotOf, Own
<1>4. QED
  BY <1>1, <1>2, <1>3, PTL DEF Spec

-------------------------------------------------------------------------------
(* Handles *)

\* Nothing the invariant counts on is taken back.
Grown ==
    /\ \A kind \in Kind :
          /\ given[kind] \subseteq given'[kind] /\ doomed[kind] \subseteq doomed'[kind]
          /\ live[kind] \cup doomed[kind] \subseteq live'[kind] \cup doomed'[kind]
    /\ restored \subseteq restored'

CallOk(t) == ArgsOk(run[t]) /\ Excused(run[t])

LEMMA OthersCallOk ==
    ASSUME TypeOK, NEW u \in Thread, run'[u] = run[u], Grown, CallOk(u)
    PROVE  CallOk(u)'
<1>1. Described(run[u].c) /\ "mls" \in Kind
  BY KindsOfUses, Zenon DEF TypeOK
<1>2. \A i \in DOMAIN run[u].c.uses : run[u].c.uses[i] \in Kind
  BY <1>1 DEF Described, Export
<1>3. run[u].c.does = "remove" => run[u].c.uses[1] \in Kind
  BY <1>1, FirstKind, Zenon
<1>4. ArgsOk(run[u])'
  BY <1>1, <1>2, <1>3, Zenon DEF CallOk, ArgsOk, Grown
<1>5. Excused(run[u])'
  BY <1>2, Zenon DEF CallOk, Excused, Grown
<1>6. QED
  BY <1>4, <1>5, Zenon DEF CallOk

\* A step of t keeps the invariant if it does so for t and for the maps.
Alone(t) == \A u \in Thread : u # t => run'[u] = run[u]

LEMMA HandlesCombine ==
    ASSUME HandleInv, NEW t \in Thread, Alone(t), TypeOK', Grown, Kept', CallOk(t)'
    PROVE  HandleInv'
<1>1. ASSUME NEW u \in Thread PROVE CallOk(u)'
  <2>1. CASE u = t
    BY <2>1, Zenon
  <2>2. CASE u # t
    BY <2>2, OthersCallOk, Zenon DEF HandleInv, CallOk, Alone
  <2>3. QED
    BY <2>1, <2>2, Zenon
<1>2. QED
  BY <1>1, Zenon DEF HandleInv, CallOk

LEMMA StepIsAlone ==
    ASSUME TypeOK, NEW t \in Thread, Step(t)
    PROVE  TypeOK' /\ Alone(t)
BY StepGoesOnOrReturns, Zenon DEF Proceeds, Returns, Turns, Alone

\* A call that returns without having met an invalid handle
LEMMA ReturnOk ==
    ASSUME TypeOK, NEW t \in Thread, NEW result \in Result \ {"badHandle"}, Return(t, result)
    PROVE  CallOk(t)'
<1>1. Turns(t, Ended(run[t], result), Told(t, result)) /\ run[t] \in Call
  BY ReturnTurns, Zenon DEF TypeOK
<1>2. run'[t].pc = "idle" /\ run'[t].result = result
  BY <1>1, EndedCall DEF Turns
<1>3. QED
  BY <1>2, Zenon DEF CallOk, ArgsOk, Excused

\* One that has, with an excuse
LEMMA ReturnBadHandle ==
    ASSUME TypeOK, NEW t \in Thread, Return(t, "badHandle"), doomed' = doomed,
           restored' = restored,
           \/ \E i \in DOMAIN run[t].args \cap DOMAIN run[t].c.uses :
                 run[t].args[i] \in doomed[run[t].c.uses[i]]
           \/ run[t].c.does = "bundle" /\ run[t].args[1] \in restored
    PROVE  CallOk(t)'
<1>1. "badHandle" \in Result
  BY FailuresAreResults, Zenon DEF Failure
<1>2. Turns(t, Ended(run[t], "badHandle"), Told(t, "badHandle")) /\ run[t] \in Call
  BY <1>1, ReturnTurns, Zenon DEF TypeOK
<1>3. run'[t].pc = "idle" /\ run'[t].c = run[t].c /\ run'[t].args = run[t].args
  BY <1>1, <1>2, EndedCall DEF Turns
<1>4. QED
  BY <1>3, Zenon DEF CallOk, ArgsOk, Excused

LEMMA UnchangedMaps ==
    ASSUME HandleInv, UNCHANGED <<live, next, bundles, restored, calls, given, doomed>>
    PROVE  Grown /\ Kept'
BY Zenon DEF HandleInv, Kept, Grown

\* Refusing an argument, taking a guard and running the body meet no handle.
LEMMA PlainSteps ==
    ASSUME HandleInv, NEW t \in Thread, Refuse(t) \/ Lock(t) \/ Body(t)
    PROVE  HandleInv'
<1>1. TypeOK /\ TypeOK' /\ Alone(t)
  BY StepIsAlone, Zenon DEF HandleInv, Step
<1>2. Grown /\ Kept'
  BY UnchangedMaps, Zenon DEF Refuse, Lock, Body
<1>3. CASE \E result \in Result \ {"badHandle"} : Return(t, result)
  BY <1>1, <1>2, <1>3, ReturnOk, HandlesCombine, Zenon
<1>4. CASE Lock(t)
  <2>1. run'[t].pc = "locking" /\ run'[t].result = run[t].result
    BY <1>1, <1>4 DEF Lock, TypeOK, Call
  <2>2. run[t].result = "none"
    BY <1>4, Zenon DEF HandleInv, Excused, Lock
  <2>3. CallOk(t)'
    BY <2>1, <2>2, Zenon DEF CallOk, ArgsOk, Excused
  <2>4. QED
    BY <1>1, <1>2, <2>3, HandlesCombine, Zenon
<1>5. QED
  BY <1>3, <1>4, FailuresAreResults, Zenon DEF Refuse, Body, Failure

\* A handle that is not in its registry is one the application gave up.
LEMMA ResolveStep ==
    ASSUME HandleInv, NEW t \in Thread, Resolve(t)
    PROVE  HandleInv'
<1>1. TypeOK /\ TypeOK' /\ Alone(t)
  BY StepIsAlone, Zenon DEF HandleInv, Step
<1>2. Grown /\ Kept'
  BY UnchangedMaps, Zenon DEF Resolve
<1>3. CASE run' = [run EXCEPT ![t].pc = "locking"]
  <2>1. run'[t].pc = "locking" /\ run'[t].result = run[t].result
    BY <1>1, <1>3, Zenon DEF TypeOK, Call
  <2>2. run[t].result = "none"
    BY Zenon DEF HandleInv, Excused, Resolve
  <2>3. CallOk(t)'
    BY <2>1, <2>2, Zenon DEF CallOk, ArgsOk, Excused
  <2>4. QED
    BY <1>1, <1>2, <2>3, HandlesCombine, Zenon
<1>4. CASE /\ Return(t, "badHandle")
           /\ \E i \in DOMAIN run[t].args : Object(t, i)[2] \notin live[Object(t, i)[1]]
  <2>1. PICK i \in DOMAIN run[t].args : run[t].args[i] \notin live[run[t].c.uses[i]]
    BY <1>4, Zenon DEF Object
  <2>2. i \in DOMAIN run[t].c.uses /\ run[t].args[i] \in given[run[t].c.uses[i]]
    BY <2>1, Zenon DEF HandleInv, ArgsOk, Resolve
  <2>3. run[t].c.uses[i] \in Kind
    BY <1>1, <2>2 DEF TypeOK, Described, Export
  <2>4. run[t].args[i] \in doomed[run[t].c.uses[i]]
    BY <2>1, <2>2, <2>3, Zenon DEF HandleInv, Kept
  <2>5. doomed' = doomed /\ restored' = restored
    BY Zenon DEF Resolve
  <2>6. CallOk(t)'
    BY <1>1, <1>4, <2>2, <2>4, <2>5, ReturnBadHandle, Zenon
  <2>7. QED
    BY <1>1, <1>2, <2>6, HandlesCombine, Zenon
<1>5. QED
  BY <1>3, <1>4, Zenon DEF Resolve

\* The only context without a bundle is a restored one.
LEMMA ReadBundleStep ==
    ASSUME HandleInv, NEW t \in Thread, ReadBundle(t)
    PROVE  HandleInv'
<1>1. TypeOK /\ TypeOK' /\ Alone(t)
  BY StepIsAlone, Zenon DEF HandleInv, Step
<1>2. Grown /\ Kept'
  BY UnchangedMaps, Zenon DEF ReadBundle
<1>3. CASE \E result \in Result \ {"badHandle"} : Return(t, result)
  BY <1>1, <1>2, <1>3, ReturnOk, HandlesCombine, Zenon
<1>4. CASE run[t].args[1] \notin bundles /\ Return(t, "badHandle")
  <2>1. run[t].c.does = "bundle" /\ run[t].c.uses = <<"mls">>
    BY <1>1, Zenon DEF ReadBundle, TypeOK, Described
  <2>2. /\ 1 \in DOMAIN run[t].args /\ 1 \in DOMAIN run[t].c.uses
        /\ run[t].args[1] \in given[run[t].c.uses[1]]
    BY <2>1, Zenon DEF HandleInv, ArgsOk, ReadBundle
  <2>3. run[t].args[1] \in given["mls"] /\ run[t].c.uses[1] = "mls"
    BY <2>1, <2>2
  <2>4. run[t].args[1] \in restored \cup doomed["mls"]
    BY <1>4, <2>3, Zenon DEF HandleInv, Kept
  <2>5. doomed' = doomed /\ restored' = restored
    BY Zenon DEF ReadBundle
  <2>6. CallOk(t)'
    BY <1>1, <1>4, <2>1, <2>2, <2>3, <2>4, <2>5, ReturnBadHandle, Zenon
  <2>7. QED
    BY <1>1, <1>2, <2>6, HandlesCombine, Zenon
<1>5. QED
  BY <1>3, <1>4, FailuresAreResults, Zenon DEF ReadBundle, Failure

\* An object is published once it is in its registry.
LEMMA InsertKeeps ==
    ASSUME HandleInv, NEW t \in Thread, Insert(t)
    PROVE  HandleInv'
<1> DEFINE kind == run[t].c.uses[1]
           id == next[kind]
<1>1. TypeOK /\ TypeOK' /\ Alone(t)
  BY StepIsAlone, Zenon DEF HandleInv, Step
<1>2. /\ run[t].pc = "entered" /\ run[t].c.does \in {"insert", "insertBoth"}
      /\ doomed' = doomed /\ bundles' = bundles
  BY Zenon DEF Insert
<1>3. kind \in Kind /\ "mls" \in Kind
  BY <1>1, <1>2, FirstKind, KindsOfUses, Zenon DEF TypeOK
<1>4. run[t].c.does = "insertBoth" => kind = "mls"
  BY <1>1 DEF TypeOK, Described
<1>5. /\ live \in [Kind -> SUBSET Nat] /\ given \in [Kind -> SUBSET Nat] /\ Kept
      /\ run \in [Thread -> Call]
  BY <1>1, Zenon DEF HandleInv, TypeOK
<1>6. CASE Return(t, "failed") /\ UNCHANGED <<live, restored, given>>
  <2>1. Grown /\ Kept'
    BY <1>2, <1>5, <1>6, Zenon DEF Kept, Grown
  <2>2. CallOk(t)'
    BY <1>1, <1>6, ReturnOk, FailuresAreResults, Zenon DEF Failure
  <2>3. QED
    BY <1>1, <2>1, <2>2, HandlesCombine, Zenon
<1>7. CASE /\ live' = [live EXCEPT ![kind] = @ \cup {id}]
           /\ restored' = IF kind = "mls" THEN restored \cup {id} ELSE restored
           /\ Return(t, "ok") /\ given' = [given EXCEPT ![kind] = @ \cup {id}]
  <2> HIDE DEF kind, id
  <2>1. Grown /\ Kept'
    BY <1>2, <1>3, <1>5, <1>7, Zenon DEF Kept, Grown
  <2>2. CallOk(t)'
    BY <1>1, <1>7, ReturnOk, FailuresAreResults, Zenon
  <2>3. QED
    BY <1>1, <2>1, <2>2, HandlesCombine, Zenon
<1>8. CASE /\ live' = [live EXCEPT ![kind] = @ \cup {id}] /\ kind = "mls"
           /\ restored' = restored /\ given' = given
           /\ run' = [run EXCEPT ![t].pc = "storing", ![t].args = <<id>>]
  <2>1. run[t].result = "none"
    BY <1>2, Zenon DEF HandleInv, Excused
  <2> HIDE DEF kind, id
  <2>2. Grown /\ Kept'
    BY <1>2, <1>3, <1>5, <1>8, Zenon DEF Kept, Grown
  <2>3. run'[t].pc = "storing" /\ run'[t].args = <<id>> /\ run'[t].result = run[t].result
    BY <1>5, <1>8, Zenon DEF Call
  <2>4. run'[t].args[1] \in live'["mls"]
    BY <1>5, <1>3, <1>8, <2>3
  <2>5. CallOk(t)'
    BY <2>1, <2>3, <2>4, Zenon DEF CallOk, ArgsOk, Excused
  <2>6. QED
    BY <1>1, <2>2, <2>5, HandlesCombine, Zenon
<1>9. QED
  BY <1>4, <1>6, <1>7, <1>8, <1>2, Zenon DEF Insert, Publish

\* The context of a bundle is in its registry, or already given up.
LEMMA StoreBundleKeeps ==
    ASSUME HandleInv, NEW t \in Thread, StoreBundle(t)
    PROVE  HandleInv'
<1> DEFINE h == run[t].args[1]
<1>1. TypeOK /\ TypeOK' /\ Alone(t)
  BY StepIsAlone, Zenon DEF HandleInv, Step
<1>2. h \in live["mls"] \cup doomed["mls"]
  BY Zenon DEF HandleInv, ArgsOk, StoreBundle
<1>3. /\ bundles' = bundles \cup {h} /\ given' = [given EXCEPT !["mls"] = @ \cup {h}]
      /\ UNCHANGED <<live, restored, doomed>> /\ Return(t, "ok")
  BY Zenon DEF StoreBundle, Publish
<1>4. given \in [Kind -> SUBSET Nat] /\ Kept
  BY <1>1, Zenon DEF HandleInv, TypeOK
<1> HIDE DEF h
<1>5. Grown /\ Kept'
  BY <1>2, <1>3, <1>4, KindsOfUses, Zenon DEF Kept, Grown
<1>6. CallOk(t)'
  BY <1>1, <1>3, ReturnOk, FailuresAreResults, Zenon
<1>7. QED
  BY <1>1, <1>5, <1>6, HandlesCombine, Zenon

\* What a destroy export takes out of a registry or the bundle map is the
\* handle it was called with.
LEMMA RemoveKeeps ==
    ASSUME HandleInv, NEW t \in Thread, Remove(t)
    PROVE  HandleInv'
<1> DEFINE kind == run[t].c.uses[1]
           h == run[t].args[1]
<1>1. TypeOK /\ TypeOK' /\ Alone(t)
  BY StepIsAlone, Zenon DEF HandleInv, Step
<1>2. h \in doomed[kind] /\ run[t].result = "none"
  BY Zenon DEF HandleInv, ArgsOk, Excused, Remove
<1>3. live' = [live EXCEPT ![kind] = @ \ {h}] /\ UNCHANGED <<bundles, restored, given, doomed>>
  BY Zenon DEF Remove
<1>4. kind \in Kind
  BY <1>1, FirstKind, Zenon DEF TypeOK, Remove
<1>5. live \in [Kind -> SUBSET Nat] /\ Kept /\ run \in [Thread -> Call]
  BY <1>1, Zenon DEF HandleInv, TypeOK
<1>6. Grown /\ Kept'
  <2> HIDE DEF kind, h
  <2>1. QED
    BY <1>2, <1>3, <1>4, <1>5, Zenon DEF Kept, Grown
<1>7. CASE Return(t, "ok")
  <2>1. CallOk(t)'
    BY <1>1, <1>7, ReturnOk, FailuresAreResults, Zenon
  <2>2. QED
    BY <1>1, <1>6, <2>1, HandlesCombine, Zenon
<1>8. CASE kind = "mls" /\ run' = [run EXCEPT ![t].pc = "dropping"]
  <2>1. /\ run'[t].pc = "dropping" /\ run'[t].args = run[t].args
        /\ run'[t].result = run[t].result
    BY <1>5, <1>8, Zenon DEF Call
  <2>2. CallOk(t)'
    BY <1>2, <1>3, <1>8, <2>1, Zenon DEF CallOk, ArgsOk, Excused
  <2>3. QED
    BY <1>1, <1>6, <2>2, HandlesCombine, Zenon
<1>9. QED
  BY <1>7, <1>8, Zenon DEF Remove

LEMMA DropBundleKeeps ==
    ASSUME HandleInv, NEW t \in Thread, DropBundle(t)
    PROVE  HandleInv'
<1>1. TypeOK /\ TypeOK' /\ Alone(t)
  BY StepIsAlone, Zenon DEF HandleInv, Step
<1>2. run[t].args[1] \in doomed["mls"]
  BY Zenon DEF HandleInv, ArgsOk, DropBundle
<1>3. /\ bundles' = bundles \ {run[t].args[1]} /\ Return(t, "ok")
      /\ UNCHANGED <<live, restored, given, doomed>>
  BY Zenon DEF DropBundle
<1>4. Grown /\ Kept'
  BY <1>2, <1>3, Zenon DEF HandleInv, Kept, Grown
<1>5. CallOk(t)'
  BY <1>1, <1>3, ReturnOk, FailuresAreResults, Zenon
<1>6. QED
  BY <1>1, <1>4, <1>5, HandlesCombine, Zenon

\* A call begins with handles the application was given.
LEMMA EnterKeeps ==
    ASSUME HandleInv, NEW t \in Thread, Enter(t)
    PROVE  HandleInv'
<1>1. /\ TypeOK /\ TypeOK' /\ UNCHANGED <<live, bundles, restored, given>>
  BY EnterStep, Zenon DEF HandleInv
<1>2. PICK c, hs : Begins(t, c, hs)
  BY <1>1, EnterStep, Zenon
<1>3. /\ run'[t] = [pc |-> "entered", c |-> c, args |-> hs, held |-> 0, result |-> "none"]
      /\ Alone(t) /\ Described(c)
  BY <1>2, Zenon DEF Begins, Turns, Alone
<1>4. c.does \in {"remove", "bundle"} => c.uses[1] \in Kind /\ 1 \in DOMAIN c.uses
  BY <1>3, FirstKind, Zenon
<1>5. doomed \in [Kind -> SUBSET Nat] /\ Kept
  BY <1>1, Zenon DEF HandleInv, TypeOK
<1>6. /\ \A kind \in Kind : doomed[kind] \subseteq doomed'[kind]
      /\ c.does = "remove" => hs[1] \in doomed'[c.uses[1]]
  BY <1>2, <1>4, <1>5, Zenon DEF Begins
<1>7. Grown /\ Kept'
  BY <1>1, <1>5, <1>6, KindsOfUses, Zenon DEF Kept, Grown
<1>8. /\ \A i \in DOMAIN hs : i \in DOMAIN c.uses /\ hs[i] \in given[c.uses[i]]
      /\ c.does \in {"remove", "bundle"} => 1 \in DOMAIN hs
  <2>1. CASE c.does \in {"insert", "insertBoth"}
    <3>1. hs = << >> /\ c.does \notin {"remove", "bundle"}
      BY <1>2, <2>1, Zenon DEF Begins
    <3>2. QED
      BY <3>1
  <2>2. CASE c.does \notin {"insert", "insertBoth"}
    BY <1>2, <1>4, <2>2, Zenon DEF Begins
  <2>3. QED
    BY <2>1, <2>2, Zenon
<1>9. CallOk(t)'
  BY <1>1, <1>3, <1>6, <1>8 DEF CallOk, ArgsOk, Excused
<1>10. QED
  BY <1>1, <1>3, <1>7, <1>9, HandlesCombine, Zenon

LEMMA NextHandleInv == HandleInv /\ [Next]_vars => HandleInv'
<1> SUFFICES ASSUME HandleInv, [Next]_vars PROVE HandleInv'
  OBVIOUS
<1>1. CASE UNCHANGED vars
  BY <1>1, Zenon DEF HandleInv, TypeOK, Kept, ArgsOk, Excused, vars
<1>2. ASSUME NEW t \in Thread, Enter(t) \/ Step(t) PROVE HandleInv'
  BY <1>2, EnterKeeps, PlainSteps, ResolveStep, InsertKeeps, StoreBundleKeeps, RemoveKeeps,
     DropBundleKeeps, ReadBundleStep, Zenon DEF Step
<1>3. QED
  BY <1>1, <1>2, Zenon DEF Next, Done

\* With any number of threads creating, using and destroying objects at once,
\* an export answers "invalid handle" only for a handle the application has
\* asked to destroy, or for the bundle of a restored MLS context
\* (Registry::insert, get and remove, and the key-package bundle map).
THEOREM InvalidWasDestroyed == Spec => []InvalidOnlyIfDestroyed
<1>1. Init => HandleInv
  <2> SUFFICES ASSUME Init PROVE HandleInv
    OBVIOUS
  <2>1. \A t \in Thread : run[t].pc = "idle" /\ run[t].result = "none"
    BY Zenon DEF Init
  <2>2. Kept
    BY KindsOfUses, Zenon DEF Init, Kept
  <2>3. QED
    BY <2>1, <2>2, InitTypeOK, Zenon DEF HandleInv, ArgsOk, Excused
<1>2. HandleInv /\ [Next]_vars => HandleInv'
  BY NextHandleInv, Zenon
<1>3. HandleInv => InvalidOnlyIfDestroyed
  BY Zenon DEF HandleInv, Excused, InvalidOnlyIfDestroyed, Object
<1>4. QED
  BY <1>1, <1>2, <1>3, PTL DEF Spec

-------------------------------------------------------------------------------
(* The inductive invariants *)

CellState == [epoch : Nat, leaf : Leaf, ctr : Nat]

Session == [epoch : Nat, live : BOOLEAN, seen : SUBSET CellState, opened : Seq(Nat)]

Creation == [thread : FfiThread, session : Nat, leaf : Leaf]

KeysTypeOK ==
    /\ mls_epoch \in Nat
    /\ sessions \in Seq(Session)
    /\ cells \in Seq(CellState)
    /\ cache \in SUBSET [session : Nat, leaf : Leaf, cell : Nat]
    /\ checked \in SUBSET Creation /\ creating \in SUBSET Creation
    /\ wire \in Seq(CellState)

SameKey(f, g) == f.epoch = g.epoch /\ f.leaf = g.leaf

\* The cell belongs to a session of its epoch, and is found there while the
\* session is live.
Covered(k) ==
    \E s \in DOMAIN sessions :
        /\ sessions[s].epoch = cells[k].epoch
        /\ sessions[s].live => Cached(s, cells[k].leaf) # {}

\* A frame's counter is one that the cell of its key has passed.
Passed(i) ==
    \E k \in DOMAIN cells : SameKey(wire[i], cells[k]) /\ wire[i].ctr < cells[k].ctr

\* The session that a call of encryptor_create found is still the one to use.
StillChecked(c) ==
    /\ c.session \in DOMAIN sessions
    /\ sessions[c.session].live /\ sessions[c.session].epoch = mls_epoch

\* A call that missed the cache is about to make the first cell of its key.
AboutToCreate(c) ==
    /\ c.session \in DOMAIN sessions
    /\ sessions[c.session].epoch = mls_epoch
    /\ \A k \in DOMAIN cells : cells[k].epoch = mls_epoch => cells[k].leaf # c.leaf

OneSessionPerEpoch ==
    \A r, s \in DOMAIN sessions : r # s => sessions[r].epoch # sessions[s].epoch

OneCellPerKey == \A k, l \in DOMAIN cells : k # l => ~ SameKey(cells[k], cells[l])

KeyInv ==
    /\ KeysTypeOK /\ OneSessionPerEpoch /\ OneCellPerKey
    /\ \A k \in DOMAIN cells : Covered(k)
    /\ \A i \in DOMAIN wire : Passed(i)
    /\ \A c \in checked : StillChecked(c)
    /\ \A c \in creating : AboutToCreate(c)
    /\ ~ ffi => checked \cup creating = {}
    /\ \A c, d \in checked \cup creating : c = d
    /\ CounterUsedOnce

OpenedInv ==
    /\ KeysTypeOK /\ WindowIsOpened
    /\ \A s \in DOMAIN sessions : \A i \in DOMAIN sessions[s].opened :
          sessions[s].opened[i] \in DOMAIN wire
-------------------------------------------------------------------------------
(* Sequences that grow at the end *)

LEMMA Grows ==
    ASSUME NEW S, NEW seq \in Seq(S), NEW e \in S
    PROVE  /\ Append(seq, e) \in Seq(S)
           /\ DOMAIN Append(seq, e) = DOMAIN seq \cup {Len(seq) + 1}
           /\ \A i \in DOMAIN seq : Append(seq, e)[i] = seq[i] /\ i # Len(seq) + 1
           /\ Append(seq, e)[Len(seq) + 1] = e
OBVIOUS

LEMMA Element ==
    ASSUME NEW S, NEW seq \in Seq(S), NEW i \in DOMAIN seq
    PROVE  seq[i] \in S /\ i \in Nat /\ Len(seq) \in Nat
OBVIOUS

\* Sessions keep their epoch, and one that is not live never is again.
Lasts ==
    /\ DOMAIN sessions \subseteq DOMAIN sessions'
    /\ \A s \in DOMAIN sessions :
          /\ sessions'[s].epoch = sessions[s].epoch
          /\ sessions'[s].live => sessions[s].live

-------------------------------------------------------------------------------
(* Keys and counters *)

LEMMA SameCover ==
    ASSUME KeyInv, UNCHANGED <<sessions, cells, cache>>
    PROVE  \A k \in DOMAIN cells : Covered(k)'
<1>1. \A k \in DOMAIN cells : Covered(k)
  BY Zenon DEF KeyInv
<1>2. \A r, leaf : Cached(r, leaf)' = Cached(r, leaf)
  BY Zenon DEF Cached
<1>3. QED
  BY <1>1, <1>2, Zenon DEF Covered

\* A session, an epoch or a decryption does not touch cells or frames.
LEMMA SessionsStep ==
    ASSUME KeyInv, KeysTypeOK', Lasts, OneSessionPerEpoch', mls_epoch' = mls_epoch,
           UNCHANGED <<ffi, cells, checked, creating, wire>>,
           checked = {} \/ \A s \in DOMAIN sessions : sessions'[s].live = sessions[s].live,
           \A s \in DOMAIN sessions, leaf \in Leaf :
               sessions'[s].live => Cached(s, leaf)' = Cached(s, leaf)
    PROVE  KeyInv'
<1>1. ASSUME NEW k \in DOMAIN cells PROVE Covered(k)'
  <2>1. PICK s \in DOMAIN sessions :
            /\ sessions[s].epoch = cells[k].epoch
            /\ sessions[s].live => Cached(s, cells[k].leaf) # {}
    BY Zenon DEF KeyInv, Covered
  <2>2. cells[k].leaf \in Leaf
    <3>1. cells[k] \in CellState
      BY Element, Zenon DEF KeyInv, KeysTypeOK
    <3>2. QED
      BY <3>1, Zenon DEF CellState
  <2>3. s \in DOMAIN sessions' /\ sessions'[s].epoch = cells'[k].epoch
    BY <2>1, Zenon DEF Lasts
  <2>4. sessions'[s].live => Cached(s, cells[k].leaf)' # {}
    BY <2>1, <2>2, Zenon DEF Lasts
  <2>5. QED
    BY <2>3, <2>4, Zenon DEF Covered
<1>2. \A i \in DOMAIN wire : Passed(i)'
  BY Zenon DEF KeyInv, Passed
<1>3. /\ \A c \in checked : StillChecked(c)'
      /\ \A c \in creating : AboutToCreate(c)'
  BY Zenon DEF KeyInv, StillChecked, AboutToCreate, Lasts
<1>4. OneCellPerKey' /\ CounterUsedOnce'
  BY Zenon DEF KeyInv, OneCellPerKey, CounterUsedOnce
<1>5. QED
  BY <1>1, <1>2, <1>3, <1>4, Zenon DEF KeyInv

LEMMA NewCellTyped ==
    ASSUME KeysTypeOK, NEW t, NEW s \in Nat, NEW leaf \in Leaf, NEW e \in Nat,
           NewCell(t, s, leaf, e)
    PROVE  /\ cells' \in Seq(CellState)
           /\ cache' \in SUBSET [session : Nat, leaf : Leaf, cell : Nat]
<1>1. [epoch |-> e, leaf |-> leaf, ctr |-> 0] \in CellState
  BY Zenon DEF CellState
<1>2. Len(cells) + 1 \in Nat /\ cells \in Seq(CellState)
  BY DEF KeysTypeOK
<1>3. [session |-> s, leaf |-> leaf, cell |-> Len(cells) + 1]
        \in [session : Nat, leaf : Leaf, cell : Nat]
  BY <1>2, Zenon
<1>4. QED
  BY <1>1, <1>2, <1>3 DEF NewCell, KeysTypeOK

\* The only cell of a new key
LEMMA NewCellStep ==
    ASSUME KeyInv, NEW t, NEW s \in DOMAIN sessions, NEW leaf \in Leaf, NEW e,
           NewCell(t, s, leaf, e), sessions[s].epoch = e,
           \A k \in DOMAIN cells : cells[k].epoch = e => cells[k].leaf # leaf,
           UNCHANGED <<ffi, mls_epoch, sessions, wire>>, creating' = {}, checked' = checked
    PROVE  KeyInv'
<1> DEFINE new == [epoch |-> e, leaf |-> leaf, ctr |-> 0]
           entry == [session |-> s, leaf |-> leaf, cell |-> Len(cells) + 1]
           n == Len(cells) + 1
<1>1. /\ KeysTypeOK /\ OneCellPerKey /\ OneSessionPerEpoch /\ CounterUsedOnce
      /\ cells \in Seq(CellState)
  BY Zenon DEF KeyInv, KeysTypeOK
<1>2. /\ cells' = Append(cells, new) /\ cache' = (cache \ Cached(s, leaf)) \cup {entry}
      /\ mls_epoch' = mls_epoch /\ sessions' = sessions /\ wire' = wire
  BY Zenon DEF NewCell
<1>3. s \in Nat /\ e \in Nat /\ Len(cells) + 1 \in Nat
  <2>1. sessions[s] \in Session /\ s \in Nat
    BY <1>1, Element, Zenon DEF KeysTypeOK
  <2>2. QED
    BY <1>1, <2>1 DEF Session
<1>4. /\ new \in CellState /\ new.epoch = e /\ new.leaf = leaf
      /\ entry \in [session : Nat, leaf : Leaf, cell : Nat]
      /\ entry.session = s /\ entry.leaf = leaf
  BY <1>3, Zenon DEF CellState
<1> HIDE DEF new, entry
<1>5. /\ cells' \in Seq(CellState) /\ DOMAIN cells' = DOMAIN cells \cup {n}
      /\ \A k \in DOMAIN cells : cells'[k] = cells[k] /\ k # n
      /\ cells'[n] = new
  BY <1>1, <1>2, <1>4, Grows
<1> HIDE DEF n
<1>6. OneCellPerKey'
  <2>1. ASSUME NEW k \in DOMAIN cells PROVE ~ SameKey(cells[k], new) /\ ~ SameKey(new, cells[k])
    BY <1>4, Zenon DEF SameKey
  <2>2. QED
    BY <1>1, <1>5, <2>1, Zenon DEF OneCellPerKey
<1>7. OneSessionPerEpoch' /\ CounterUsedOnce'
  BY <1>1, <1>2, Zenon DEF OneSessionPerEpoch, CounterUsedOnce
<1>8. ASSUME NEW k \in DOMAIN cells PROVE Covered(k)'
  <2>1. PICK r \in DOMAIN sessions :
            /\ sessions[r].epoch = cells[k].epoch
            /\ sessions[r].live => Cached(r, cells[k].leaf) # {}
    BY Zenon DEF KeyInv, Covered
  <2>2. ASSUME sessions[r].live PROVE Cached(r, cells[k].leaf)' # {}
    <3>1. PICK c \in cache : c.session = r /\ c.leaf = cells[k].leaf
      BY <2>1, <2>2, Zenon DEF Cached
    <3>2. CASE c \in Cached(s, leaf)
      BY <1>2, <1>4, <1>5, <3>1, <3>2, Zenon DEF Cached
    <3>3. CASE c \notin Cached(s, leaf)
      BY <1>2, <1>5, <3>1, <3>3, Zenon DEF Cached
    <3>4. QED
      BY <3>2, <3>3, Zenon
  <2>3. QED
    BY <1>2, <1>5, <2>1, <2>2, Zenon DEF Covered
<1>9. ASSUME NEW k, k = n PROVE Covered(k)'
  <2>1. entry \in Cached(s, leaf)'
    BY <1>2, <1>4, Zenon DEF Cached
  <2>2. QED
    BY <1>2, <1>4, <1>5, <1>9, <2>1 DEF Covered
<1>10. ASSUME NEW i \in DOMAIN wire PROVE Passed(i)'
  <2>1. PICK k \in DOMAIN cells : SameKey(wire[i], cells[k]) /\ wire[i].ctr < cells[k].ctr
    BY Zenon DEF KeyInv, Passed
  <2>2. QED
    BY <1>2, <1>5, <2>1, Zenon DEF Passed
<1>11. cache' \in SUBSET [session : Nat, leaf : Leaf, cell : Nat]
  BY <1>1, <1>3, NewCellTyped, Zenon
<1>12. KeysTypeOK'
  BY <1>1, <1>2, <1>5, <1>11, Zenon DEF KeysTypeOK
<1>13. /\ \A c \in checked' : StillChecked(c)'
       /\ ~ ffi => checked' \cup creating' = {}
       /\ \A c, d \in checked' \cup creating' : c = d
  BY <1>2, Zenon DEF KeyInv, StillChecked
<1>14. QED
  BY <1>2, <1>5, <1>6, <1>7, <1>8, <1>9, <1>10, <1>12, <1>13, Zenon DEF KeyInv

LEMMA SessionCreateEffect ==
    ASSUME KeysTypeOK, SessionCreate
    PROVE  /\ KeysTypeOK' /\ Lasts
           /\ UNCHANGED <<ffi, mls_epoch, cells, cache, handles, checked, creating, wire>>
           /\ DOMAIN sessions' = DOMAIN sessions \cup {Len(sessions) + 1}
           /\ \A s \in DOMAIN sessions :
                 /\ sessions'[s] = sessions[s] /\ s # Len(sessions) + 1
                 /\ sessions[s].epoch # mls_epoch
           /\ sessions'[Len(sessions) + 1].epoch = mls_epoch
           /\ sessions'[Len(sessions) + 1].seen = {}
           /\ sessions'[Len(sessions) + 1].opened = << >>
<1> DEFINE new == [epoch |-> mls_epoch, live |-> TRUE, seen |-> {}, opened |-> << >>]
<1>1. mls_epoch \in Nat /\ sessions \in Seq(Session)
  BY Zenon DEF KeysTypeOK
<1>2. /\ sessions' = Append(sessions, new)
      /\ \A s \in DOMAIN sessions : sessions[s].epoch # mls_epoch
      /\ UNCHANGED <<ffi, mls_epoch, cells, cache, handles, checked, creating, wire>>
  BY Zenon DEF SessionCreate
<1>3. new \in Session /\ new.epoch = mls_epoch /\ new.seen = {} /\ new.opened = << >>
  BY <1>1 DEF Session
<1> HIDE DEF new
<1>4. /\ sessions' \in Seq(Session)
      /\ DOMAIN sessions' = DOMAIN sessions \cup {Len(sessions) + 1}
      /\ \A s \in DOMAIN sessions : sessions'[s] = sessions[s] /\ s # Len(sessions) + 1
      /\ sessions'[Len(sessions) + 1] = new
  BY <1>1, <1>2, <1>3, Grows
<1>5. KeysTypeOK' /\ Lasts
  BY <1>2, <1>4, Zenon DEF KeysTypeOK, Lasts
<1>6. QED
  BY <1>2, <1>3, <1>4, <1>5, Zenon

LEMMA SessionCreateKeeps ==
    ASSUME KeyInv, SessionCreate
    PROVE  KeyInv'
<1> DEFINE n == Len(sessions) + 1
<1>1. OneSessionPerEpoch
  BY Zenon DEF KeyInv
<1>2. /\ KeysTypeOK' /\ Lasts /\ UNCHANGED <<ffi, mls_epoch, cells, cache, checked, creating, wire>>
      /\ DOMAIN sessions' = DOMAIN sessions \cup {n}
      /\ \A s \in DOMAIN sessions :
            sessions'[s] = sessions[s] /\ s # n /\ sessions[s].epoch # mls_epoch
      /\ sessions'[n].epoch = mls_epoch
  BY SessionCreateEffect, Zenon DEF KeyInv
<1> HIDE DEF n
<1>3. OneSessionPerEpoch'
  <2>1. ASSUME NEW r \in DOMAIN sessions', NEW s \in DOMAIN sessions', r # s
        PROVE  sessions'[r].epoch # sessions'[s].epoch
    <3>1. CASE r \in DOMAIN sessions /\ s \in DOMAIN sessions
      BY <1>1, <1>2, <2>1, <3>1, Zenon DEF OneSessionPerEpoch
    <3>2. CASE r = n
      BY <1>2, <2>1, <3>2, Zenon
    <3>3. CASE s = n
      BY <1>2, <2>1, <3>3, Zenon
    <3>4. QED
      BY <1>2, <3>1, <3>2, <3>3, Zenon
  <2>2. QED
    BY <2>1, Zenon DEF OneSessionPerEpoch
<1>4. /\ \A s \in DOMAIN sessions, leaf \in Leaf : Cached(s, leaf)' = Cached(s, leaf)
      /\ \A s \in DOMAIN sessions : sessions'[s].live = sessions[s].live
  BY <1>2, Zenon DEF Cached
<1>5. QED
  BY <1>2, <1>3, <1>4, SessionsStep, Zenon

\* A thread outside encryptor_create that is the only one to use the C ABI
LEMMA NoCall ==
    ASSUME OneFfiThread, KeyInv, NEW t \in Caller, Outside(t)
    PROVE  checked = {} /\ creating = {}
<1>1. CASE ~ ffi
  BY <1>1, Zenon DEF KeyInv
<1>2. CASE ffi
  <2>1. t \in FfiThread
    BY <1>2, Zenon DEF Caller
  <2>2. \A c \in checked \cup creating : c.thread \in FfiThread
    BY Zenon DEF KeyInv, KeysTypeOK, Creation
  <2>3. QED
    BY <2>1, <2>2, Zenon DEF OneFfiThread, Outside
<1>3. QED
  BY <1>1, <1>2, Zenon

\* Sessions that keep their epochs are still of different epochs.
LEMMA LastingEpochs ==
    ASSUME OneSessionPerEpoch, Lasts, DOMAIN sessions' = DOMAIN sessions
    PROVE  OneSessionPerEpoch'
BY Zenon DEF OneSessionPerEpoch, Lasts

LEMMA SessionFreeEffect ==
    ASSUME KeysTypeOK, NEW s \in DOMAIN sessions, SessionFree(s)
    PROVE  /\ KeysTypeOK' /\ Lasts
           /\ UNCHANGED <<ffi, mls_epoch, cells, handles, checked, creating, wire>>
           /\ cache' = {c \in cache : c.session # s}
           /\ DOMAIN sessions' = DOMAIN sessions /\ ~ sessions'[s].live
           /\ \A r \in DOMAIN sessions : /\ sessions'[r].seen = sessions[r].seen
                                         /\ sessions'[r].opened = sessions[r].opened
<1> DEFINE freed == [sessions[s] EXCEPT !.live = FALSE]
<1>1. sessions \in Seq(Session) /\ sessions[s] \in Session
  BY Element, Zenon DEF KeysTypeOK
<1>2. /\ sessions' = [sessions EXCEPT ![s] = freed] /\ cache' = {c \in cache : c.session # s}
      /\ UNCHANGED <<ffi, mls_epoch, cells, handles, checked, creating, wire>>
  BY Zenon DEF SessionFree
<1>3. /\ freed \in Session /\ freed.epoch = sessions[s].epoch /\ freed.live = FALSE
      /\ freed.seen = sessions[s].seen /\ freed.opened = sessions[s].opened
  BY <1>1, Zenon DEF Session
<1> HIDE DEF freed
<1>4. /\ sessions' \in Seq(Session) /\ DOMAIN sessions' = DOMAIN sessions
      /\ sessions'[s] = freed
      /\ \A r \in DOMAIN sessions : r # s => sessions'[r] = sessions[r]
  BY <1>1, <1>2, <1>3
<1>5. Lasts
  BY <1>3, <1>4, Zenon DEF Lasts
<1>6. KeysTypeOK'
  BY <1>2, <1>4, Zenon DEF KeysTypeOK
<1>7. QED
  BY <1>2, <1>3, <1>4, <1>5, <1>6, Zenon

LEMMA SessionFreeKeeps ==
    ASSUME OneFfiThread, KeyInv, NEW s \in DOMAIN sessions, SessionFree(s)
    PROVE  KeyInv'
<1>1. KeysTypeOK /\ OneSessionPerEpoch /\ checked = {}
  BY NoCall, Zenon DEF KeyInv, SessionFree
<1>2. /\ KeysTypeOK' /\ Lasts /\ UNCHANGED <<ffi, mls_epoch, cells, checked, creating, wire>>
      /\ cache' = {c \in cache : c.session # s}
      /\ DOMAIN sessions' = DOMAIN sessions /\ ~ sessions'[s].live
  BY <1>1, SessionFreeEffect, Zenon
<1>3. ASSUME NEW r \in DOMAIN sessions, NEW leaf \in Leaf, sessions'[r].live
      PROVE  Cached(r, leaf)' = Cached(r, leaf)
  <2>1. r # s
    BY <1>2, <1>3, Zenon
  <2>2. QED
    BY <1>2, <2>1, Zenon DEF Cached
<1>4. QED
  BY <1>1, <1>2, <1>3, LastingEpochs, SessionsStep, Zenon

LEMMA DecryptSessions ==
    ASSUME KeysTypeOK, NEW s \in DOMAIN sessions, NEW i \in DOMAIN wire, NEW genuine \in BOOLEAN,
           Decrypt(s, i, genuine)
    PROVE  /\ UNCHANGED <<ffi, mls_epoch, cells, cache, handles, checked, creating, wire>>
           /\ \/ sessions' = sessions
              \/ /\ InWindow(sessions[s], wire[i]) /\ wire[i].epoch = sessions[s].epoch
                 /\ sessions' = [sessions EXCEPT
                       ![s] = [sessions[s] EXCEPT !.seen = @ \cup {wire[i]},
                                                  !.opened = Append(@, i)]]
           /\ sessions' \in Seq(Session) /\ DOMAIN sessions' = DOMAIN sessions /\ Lasts
           /\ \A r \in DOMAIN sessions : sessions'[r].live = sessions[r].live
<1> DEFINE opening == [sessions[s] EXCEPT !.seen = @ \cup {wire[i]}, !.opened = Append(@, i)]
<1>1. sessions \in Seq(Session) /\ sessions[s] \in Session /\ wire[i] \in CellState /\ i \in Nat
  BY Element, Zenon DEF KeysTypeOK
<1>2. UNCHANGED <<ffi, mls_epoch, cells, cache, handles, checked, creating, wire>>
  BY Zenon DEF Decrypt
<1>3. \/ sessions' = sessions
      \/ /\ InWindow(sessions[s], wire[i]) /\ wire[i].epoch = sessions[s].epoch
         /\ sessions' = [sessions EXCEPT ![s] = opening]
  BY Zenon DEF Decrypt, Screened
<1>4. opening \in Session /\ opening.epoch = sessions[s].epoch /\ opening.live = sessions[s].live
  <2>1. sessions[s].opened \in Seq(Nat) /\ sessions[s].seen \in SUBSET CellState
    BY <1>1, Zenon DEF Session
  <2>2. /\ Append(sessions[s].opened, i) \in Seq(Nat)
        /\ sessions[s].seen \cup {wire[i]} \in SUBSET CellState
    BY <1>1, <2>1
  <2>3. QED
    BY <1>1, <2>2, Zenon DEF Session
<1>5. /\ sessions' \in Seq(Session) /\ DOMAIN sessions' = DOMAIN sessions /\ Lasts
      /\ \A r \in DOMAIN sessions : sessions'[r].live = sessions[r].live
  <2> HIDE DEF opening
  <2>1. QED
    BY <1>1, <1>3, <1>4 DEF Lasts
<1>6. QED
  BY <1>2, <1>3, <1>5, Zenon

LEMMA DecryptKeepsKeys ==
    ASSUME KeyInv, NEW s \in DOMAIN sessions, NEW i \in DOMAIN wire, NEW genuine \in BOOLEAN,
           Decrypt(s, i, genuine)
    PROVE  KeyInv'
<1>1. KeysTypeOK /\ OneSessionPerEpoch
  BY Zenon DEF KeyInv
<1>2. /\ UNCHANGED <<ffi, mls_epoch, cells, cache, handles, checked, creating, wire>>
      /\ sessions' \in Seq(Session) /\ DOMAIN sessions' = DOMAIN sessions /\ Lasts
      /\ \A r \in DOMAIN sessions : sessions'[r].live = sessions[r].live
  BY <1>1, DecryptSessions, Zenon
<1>3. KeysTypeOK' /\ OneSessionPerEpoch'
  BY <1>1, <1>2, LastingEpochs, Zenon DEF KeysTypeOK
<1>4. \A r \in DOMAIN sessions, leaf \in Leaf : Cached(r, leaf)' = Cached(r, leaf)
  BY <1>2, Zenon DEF Cached
<1>5. QED
  BY <1>2, <1>3, <1>4, SessionsStep, Zenon

LEMMA CommitKeeps ==
    ASSUME OneFfiThread, KeyInv, Commit
    PROVE  KeyInv'
<1>1. checked = {} /\ creating = {}
  BY NoCall, Zenon DEF Commit
<1>2. /\ mls_epoch' = mls_epoch + 1
      /\ UNCHANGED <<ffi, sessions, cells, cache, handles, checked, creating, wire>>
  BY Zenon DEF Commit
<1>3. KeysTypeOK' /\ OneSessionPerEpoch' /\ OneCellPerKey' /\ CounterUsedOnce'
  BY <1>2 DEF KeyInv, KeysTypeOK, OneSessionPerEpoch, OneCellPerKey, CounterUsedOnce
<1>4. \A k \in DOMAIN cells : Covered(k)'
  BY <1>2, SameCover, Zenon
<1>5. \A i \in DOMAIN wire : Passed(i)'
  BY <1>2, Zenon DEF KeyInv, Passed
<1>6. QED
  BY <1>1, <1>2, <1>3, <1>4, <1>5, Zenon DEF KeyInv

\* A key whose session is live and has no cached cell has none at all.
LEMMA NotCachedIsNew ==
    ASSUME KeyInv, NEW s \in DOMAIN sessions, sessions[s].live, NEW leaf, Cached(s, leaf) = {},
           NEW k \in DOMAIN cells, cells[k].epoch = sessions[s].epoch
    PROVE  cells[k].leaf # leaf
<1>1. PICK r \in DOMAIN sessions :
          /\ sessions[r].epoch = cells[k].epoch
          /\ sessions[r].live => Cached(r, cells[k].leaf) # {}
  BY Zenon DEF KeyInv, Covered
<1>2. r = s
  BY <1>1, Zenon DEF KeyInv, OneSessionPerEpoch
<1>3. QED
  BY <1>1, <1>2, Zenon

LEMMA HandlesOnly ==
    ASSUME KeyInv, UNCHANGED <<ffi, mls_epoch, sessions, cells, cache, checked, creating, wire>>
    PROVE  KeyInv'
<1>1. KeysTypeOK' /\ OneSessionPerEpoch' /\ OneCellPerKey' /\ CounterUsedOnce'
  <2>1. KeysTypeOK'
    BY Zenon DEF KeyInv, KeysTypeOK
  <2>2. OneSessionPerEpoch'
    BY Zenon DEF KeyInv, OneSessionPerEpoch
  <2>3. OneCellPerKey'
    BY Zenon DEF KeyInv, OneCellPerKey
  <2>4. CounterUsedOnce'
    BY Zenon DEF KeyInv, CounterUsedOnce
  <2>5. QED
    BY <2>1, <2>2, <2>3, <2>4, Zenon
<1>2. \A k \in DOMAIN cells : Covered(k)'
  BY SameCover, Zenon
<1>3. \A i \in DOMAIN wire : Passed(i)'
  BY Zenon DEF KeyInv, Passed
<1>4. /\ \A c \in checked : StillChecked(c)'
      /\ \A c \in creating : AboutToCreate(c)'
  BY Zenon DEF KeyInv, StillChecked, AboutToCreate
<1>5. QED
  BY <1>1, <1>2, <1>3, <1>4, Zenon DEF KeyInv

LEMMA EncryptorKeeps ==
    ASSUME KeyInv, NEW t \in Caller, NEW s \in DOMAIN sessions, NEW leaf \in Leaf,
           Encryptor(t, s, leaf)
    PROVE  KeyInv'
<1>1. /\ ~ ffi /\ sessions[s].live /\ creating = {} /\ creating' = {}
      /\ UNCHANGED <<ffi, mls_epoch, sessions, checked, creating, wire>>
  BY Zenon DEF Encryptor, KeyInv
<1>2. CASE Reconnect(t, s, leaf)
  BY <1>1, <1>2, HandlesOnly, Zenon DEF Reconnect
<1>3. CASE Cached(s, leaf) = {} /\ NewCell(t, s, leaf, sessions[s].epoch)
  <2>1. \A k \in DOMAIN cells : cells[k].epoch = sessions[s].epoch => cells[k].leaf # leaf
    BY <1>1, <1>3, NotCachedIsNew, Zenon
  <2>2. UNCHANGED <<ffi, mls_epoch, sessions, wire>> /\ creating' = {} /\ checked' = checked
    BY <1>1, Zenon
  <2>3. QED
    BY <1>3, <2>1, <2>2, NewCellStep, Zenon
<1>4. QED
  BY <1>2, <1>3, Zenon DEF Encryptor

\* Only the calls under way change.
LEMMA CallsOnly ==
    ASSUME KeyInv, checked' \in SUBSET Creation, creating' \in SUBSET Creation,
           UNCHANGED <<ffi, mls_epoch, sessions, cells, cache, wire>>,
           \A c \in checked' : StillChecked(c), \A c \in creating' : AboutToCreate(c),
           ffi, \A c, d \in checked' \cup creating' : c = d
    PROVE  KeyInv'
<1>6. KeysTypeOK /\ OneSessionPerEpoch /\ OneCellPerKey /\ CounterUsedOnce
  BY Zenon DEF KeyInv
<1>1. KeysTypeOK' /\ OneSessionPerEpoch' /\ OneCellPerKey' /\ CounterUsedOnce'
  BY <1>6, Zenon DEF KeysTypeOK, OneSessionPerEpoch, OneCellPerKey, CounterUsedOnce
<1>2. \A k \in DOMAIN cells : Covered(k)'
  BY SameCover, Zenon
<1>3. \A i \in DOMAIN wire : Passed(i)'
  BY Zenon DEF KeyInv, Passed
<1>4. /\ \A c \in checked' : StillChecked(c)'
      /\ \A c \in creating' : AboutToCreate(c)'
  BY Zenon DEF StillChecked, AboutToCreate
<1>5. QED
  BY <1>1, <1>2, <1>3, <1>4, Zenon DEF KeyInv

LEMMA CreateChecksEffect ==
    ASSUME KeysTypeOK, NEW t \in Caller, NEW s \in DOMAIN sessions, NEW leaf \in Leaf,
           CreateChecks(t, s, leaf)
    PROVE  \E c \in Creation :
              /\ c.session = s /\ checked' = checked \cup {c}
              /\ UNCHANGED <<ffi, mls_epoch, sessions, cells, cache, creating, wire>>
<1> DEFINE c == [thread |-> t, session |-> s, leaf |-> leaf]
<1>1. s \in Nat
  BY Element, Zenon DEF KeysTypeOK
<1>2. /\ checked' = checked \cup {c} /\ ffi
      /\ UNCHANGED <<ffi, mls_epoch, sessions, cells, cache, creating, wire>>
  BY Zenon DEF CreateChecks
<1>3. t \in FfiThread
  BY <1>2, Zenon DEF Caller
<1>4. c \in Creation /\ c.session = s
  BY <1>1, <1>3, Zenon DEF Creation
<1> HIDE DEF c
<1>5. QED
  BY <1>2, <1>4, Zenon

LEMMA CreateChecksKeeps ==
    ASSUME OneFfiThread, KeyInv, NEW t \in Caller, NEW s \in DOMAIN sessions,
           NEW leaf \in Leaf, CreateChecks(t, s, leaf)
    PROVE  KeyInv'
<1>1. KeysTypeOK /\ checked = {} /\ creating = {}
  BY NoCall, Zenon DEF KeyInv, CreateChecks
<1>2. PICK c \in Creation :
          /\ c.session = s /\ checked' = checked \cup {c}
          /\ UNCHANGED <<ffi, mls_epoch, sessions, cells, cache, creating, wire>>
  BY <1>1, CreateChecksEffect, Zenon
<1>3. ffi /\ sessions[s].live /\ sessions[s].epoch = mls_epoch
  BY Zenon DEF CreateChecks
<1>4. StillChecked(c)
  BY <1>2, <1>3, Zenon DEF StillChecked
<1>5. checked' = {c} /\ creating' = {}
  BY <1>1, <1>2, Zenon
<1>6. QED
  BY <1>2, <1>3, <1>4, <1>5, CallsOnly, Zenon

\* At most one call is under way.
LEMMA OneCall ==
    ASSUME KeyInv, NEW c \in checked \cup creating
    PROVE  ffi /\ c \in Creation /\ checked \subseteq {c} /\ creating \subseteq {c}
<1>1. ffi
  <2>1. ~ ffi => checked \cup creating = {}
    BY Zenon DEF KeyInv
  <2>2. QED
    BY <2>1, Zenon
<1>2. \A d \in checked \cup creating : d = c
  BY Zenon DEF KeyInv
<1>3. checked \in SUBSET Creation /\ creating \in SUBSET Creation
  BY Zenon DEF KeyInv, KeysTypeOK
<1>4. QED
  BY <1>1, <1>2, <1>3, Zenon

LEMMA CreateLooksUpKeeps ==
    ASSUME KeyInv, NEW c \in checked, CreateLooksUp(c)
    PROVE  KeyInv'
<1>1. /\ ffi /\ StillChecked(c) /\ c \in Creation
      /\ checked' = {} /\ creating \subseteq {c} /\ creating \subseteq Creation
      /\ UNCHANGED <<ffi, mls_epoch, sessions, wire>>
  <2>1. ffi /\ c \in Creation /\ checked \subseteq {c} /\ creating \subseteq {c}
    BY OneCall, Zenon
  <2>2. checked' = checked \ {c} /\ UNCHANGED <<ffi, mls_epoch, sessions, wire>>
    BY Zenon DEF CreateLooksUp
  <2>3. StillChecked(c)
    BY Zenon DEF KeyInv
  <2>4. QED
    BY <2>1, <2>2, <2>3, Zenon
<1>2. CASE Reconnect(c.thread, c.session, c.leaf) /\ UNCHANGED creating
  <2>1. UNCHANGED <<ffi, mls_epoch, sessions, cells, cache, wire>>
    BY <1>1, <1>2, Zenon DEF Reconnect
  <2>2. \A d \in creating' : AboutToCreate(d)
    BY <1>2, Zenon DEF KeyInv
  <2>3. QED
    BY <1>1, <1>2, <2>1, <2>2, CallsOnly, Zenon
<1>3. CASE /\ Cached(c.session, c.leaf) = {} /\ creating' = creating \cup {c}
           /\ UNCHANGED <<cells, cache, handles>>
  <2>1. \A k \in DOMAIN cells : cells[k].epoch = mls_epoch => cells[k].leaf # c.leaf
    BY <1>1, <1>3, NotCachedIsNew, Zenon DEF StillChecked
  <2>2. creating' = {c} /\ AboutToCreate(c)
    BY <1>1, <1>3, <2>1, Zenon DEF StillChecked, AboutToCreate
  <2>3. UNCHANGED <<ffi, mls_epoch, sessions, cells, cache, wire>>
    BY <1>1, <1>3, Zenon
  <2>4. QED
    BY <1>1, <2>2, <2>3, CallsOnly, Zenon
<1>4. QED
  BY <1>2, <1>3, Zenon DEF CreateLooksUp

LEMMA CreateInsertsKeeps ==
    ASSUME KeyInv, NEW c \in creating, CreateInserts(c)
    PROVE  KeyInv'
<1>1. c \in Creation /\ creating = {c}
  BY OneCall, Zenon
<1>3. /\ creating' = {} /\ NewCell(c.thread, c.session, c.leaf, mls_epoch)
      /\ checked' = checked /\ UNCHANGED <<ffi, mls_epoch, sessions, wire>>
  BY <1>1, Zenon DEF CreateInserts
<1>4. AboutToCreate(c)
  BY Zenon DEF KeyInv
<1>5. /\ c.session \in DOMAIN sessions /\ c.leaf \in Leaf
      /\ sessions[c.session].epoch = mls_epoch
      /\ \A k \in DOMAIN cells : cells[k].epoch = mls_epoch => cells[k].leaf # c.leaf
  BY <1>1, <1>4, Zenon DEF AboutToCreate, Creation
<1>6. PICK e : e = mls_epoch
  OBVIOUS
<1>7. PICK t, s, leaf : t = c.thread /\ s = c.session /\ leaf = c.leaf
  OBVIOUS
<1>8. s \in DOMAIN sessions /\ leaf \in Leaf
  BY <1>5, <1>7, Zenon
<1>9. NewCell(t, s, leaf, e) /\ sessions[s].epoch = e
  BY <1>3, <1>5, <1>6, <1>7, Zenon
<1>10. \A k \in DOMAIN cells : cells[k].epoch = e => cells[k].leaf # leaf
  BY <1>5, <1>6, <1>7, Zenon
<1>11. UNCHANGED <<ffi, mls_epoch, sessions, wire>> /\ creating' = {} /\ checked' = checked
  BY <1>3, Zenon
<1>12. QED
  BY <1>8, <1>9, <1>10, <1>11, NewCellStep, Zenon

\* What encrypting a frame does to the cells and the frames
LEMMA EncryptEffect ==
    ASSUME KeysTypeOK, NEW t, NEW k \in DOMAIN cells, Encrypt(t, k)
    PROVE  /\ KeysTypeOK'
           /\ UNCHANGED <<ffi, mls_epoch, sessions, cache, handles, checked, creating>>
           /\ DOMAIN cells' = DOMAIN cells
           /\ \A l \in DOMAIN cells : SameKey(cells'[l], cells[l]) /\ cells[l].ctr \in Nat
                                      /\ (l # k => cells'[l] = cells[l])
           /\ cells'[k].ctr = cells[k].ctr + 1
           /\ DOMAIN wire' = DOMAIN wire \cup {Len(wire) + 1}
           /\ \A i \in DOMAIN wire : wire'[i] = wire[i] /\ i # Len(wire) + 1
           /\ wire'[Len(wire) + 1] = cells[k]
<1> DEFINE bumped == [cells[k] EXCEPT !.ctr = @ + 1]
<1>1. cells \in Seq(CellState) /\ wire \in Seq(CellState) /\ cells[k] \in CellState
  BY Element, Zenon DEF KeysTypeOK
<1>2. /\ cells' = [cells EXCEPT ![k] = bumped] /\ wire' = Append(wire, cells[k])
      /\ UNCHANGED <<ffi, mls_epoch, sessions, cache, handles, checked, creating>>
  BY Zenon DEF Encrypt
<1>3. bumped \in CellState /\ SameKey(bumped, cells[k]) /\ bumped.ctr = cells[k].ctr + 1
  <2>1. cells[k].ctr + 1 \in Nat
    BY <1>1 DEF CellState
  <2>2. QED
    BY <1>1, <2>1, Zenon DEF CellState, SameKey
<1> HIDE DEF bumped
<1>4. /\ cells' \in Seq(CellState) /\ DOMAIN cells' = DOMAIN cells /\ cells'[k] = bumped
      /\ \A l \in DOMAIN cells : l # k => cells'[l] = cells[l]
  BY <1>1, <1>2, <1>3
<1>5. /\ wire' \in Seq(CellState) /\ DOMAIN wire' = DOMAIN wire \cup {Len(wire) + 1}
      /\ \A i \in DOMAIN wire : wire'[i] = wire[i] /\ i # Len(wire) + 1
      /\ wire'[Len(wire) + 1] = cells[k]
  BY <1>1, <1>2, Grows
<1>6. \A l \in DOMAIN cells : cells[l].ctr \in Nat
  <2>1. \A l \in DOMAIN cells : cells[l] \in CellState
    BY <1>1, Element, Zenon
  <2>2. QED
    BY <2>1, Zenon DEF CellState
<1>7. \A l \in DOMAIN cells : SameKey(cells'[l], cells[l])
  BY <1>3, <1>4, Zenon DEF SameKey
<1>8. KeysTypeOK'
  BY <1>2, <1>4, <1>5, Zenon DEF KeysTypeOK
<1>9. QED
  BY <1>2, <1>3, <1>4, <1>5, <1>6, <1>7, <1>8, Zenon

LEMMA EncryptKeepsKeys ==
    ASSUME KeyInv, NEW t \in Caller, NEW k \in DOMAIN cells, Encrypt(t, k)
    PROVE  KeyInv'
<1> DEFINE n == Len(wire) + 1
<1>1. /\ KeysTypeOK' /\ UNCHANGED <<ffi, mls_epoch, sessions, cache, handles, checked, creating>>
      /\ DOMAIN cells' = DOMAIN cells
      /\ \A l \in DOMAIN cells : SameKey(cells'[l], cells[l]) /\ cells[l].ctr \in Nat
                                 /\ (l # k => cells'[l] = cells[l])
      /\ cells'[k].ctr = cells[k].ctr + 1
      /\ DOMAIN wire' = DOMAIN wire \cup {n}
      /\ \A i \in DOMAIN wire : wire'[i] = wire[i] /\ i # n
      /\ wire'[n] = cells[k]
  BY EncryptEffect, Zenon DEF KeyInv
<1> HIDE DEF n
<1>9. \A l \in DOMAIN cells : cells'[l].epoch = cells[l].epoch /\ cells'[l].leaf = cells[l].leaf
  BY <1>1, Zenon DEF SameKey
<1>2. OneSessionPerEpoch' /\ OneCellPerKey'
  <2>1. OneSessionPerEpoch /\ OneCellPerKey
    BY Zenon DEF KeyInv
  <2>2. OneSessionPerEpoch'
    BY <1>1, <2>1, Zenon DEF OneSessionPerEpoch
  <2>3. OneCellPerKey'
    BY <1>1, <1>9, <2>1 DEF OneCellPerKey, SameKey
  <2>4. QED
    BY <2>2, <2>3, Zenon
<1>3. \A l \in DOMAIN cells : Covered(l)'
  <2>1. \A l \in DOMAIN cells : Covered(l)
    BY Zenon DEF KeyInv
  <2>2. \A q, leaf : Cached(q, leaf)' = Cached(q, leaf)
    BY <1>1, Zenon DEF Cached
  <2>3. QED
    BY <1>1, <1>9, <2>1, <2>2 DEF Covered
<1>4. ASSUME NEW i \in DOMAIN wire PROVE Passed(i)' /\ wire[i] # cells[k]
  <2>1. PICK l \in DOMAIN cells : SameKey(wire[i], cells[l]) /\ wire[i].ctr < cells[l].ctr
    BY Zenon DEF KeyInv, Passed
  <2>2. wire[i].ctr \in Nat
    <3>1. wire[i] \in CellState
      BY Element, Zenon DEF KeyInv, KeysTypeOK
    <3>2. QED
      BY <3>1, Zenon DEF CellState
  <2>3. cells[l].ctr \in Nat /\ SameKey(cells'[l], cells[l])
    BY <1>1, Zenon
  <2>4. wire[i].ctr < cells'[l].ctr
    <3>1. CASE l = k
      <4>1. cells'[l].ctr = cells[l].ctr + 1
        BY <1>1, <3>1, Zenon
      <4>2. QED
        BY <2>1, <2>2, <2>3, <4>1
    <3>2. CASE l # k
      BY <1>1, <2>1, <3>2, Zenon
    <3>3. QED
      BY <3>1, <3>2, Zenon
  <2>5. Passed(i)'
    BY <1>1, <2>1, <2>3, <2>4, Zenon DEF Passed, SameKey
  <2>6. wire[i] # cells[k]
    <3>1. SUFFICES ASSUME wire[i] = cells[k] PROVE FALSE
      OBVIOUS
    <3>2. l = k
      BY <2>1, <3>1, Zenon DEF KeyInv, OneCellPerKey, SameKey
    <3>3. QED
      BY <2>1, <2>2, <3>1, <3>2
  <2>7. QED
    BY <2>5, <2>6, Zenon
<1>5. ASSUME NEW i, i = n PROVE Passed(i)'
  <2>1. cells[k].ctr < cells'[k].ctr /\ SameKey(wire'[i], cells'[k])
    BY <1>1, <1>5 DEF SameKey
  <2>2. QED
    BY <1>1, <1>5, <2>1, Zenon DEF Passed
<1>6. CounterUsedOnce'
  BY <1>1, <1>4 DEF KeyInv, CounterUsedOnce
<1>7. /\ \A c \in checked : StillChecked(c)'
      /\ \A c \in creating : AboutToCreate(c)'
  <2>1. /\ \A c \in checked : StillChecked(c)
        /\ \A c \in creating : AboutToCreate(c)
    BY Zenon DEF KeyInv
  <2>2. \A c \in checked : StillChecked(c)'
    BY <1>1, <2>1, Zenon DEF StillChecked
  <2>3. \A c \in creating : AboutToCreate(c)'
    BY <1>1, <1>9, <2>1 DEF AboutToCreate
  <2>4. QED
    BY <2>2, <2>3, Zenon
<1>8. QED
  BY <1>1, <1>2, <1>3, <1>4, <1>5, <1>6, <1>7, Zenon DEF KeyInv

LEMMA NextKeyInv ==
    ASSUME OneFfiThread, KeyInv, [KeysNext]_keyvars
    PROVE  KeyInv'
<1>1. CASE UNCHANGED keyvars
  BY <1>1, HandlesOnly, Zenon DEF keyvars
<1>2. ASSUME NEW h \in handles, EncryptorFree(h) PROVE KeyInv'
  BY <1>2, HandlesOnly, Zenon DEF EncryptorFree
<1>3. QED
  BY <1>1, <1>2, SessionCreateKeeps, CommitKeeps, SessionFreeKeeps, EncryptorKeeps,
     CreateChecksKeeps, CreateLooksUpKeeps, CreateInsertsKeeps, EncryptKeepsKeys,
     DecryptKeepsKeys, Zenon
  DEF KeysNext, Cell

\* For any number of sessions, leaves, threads and frames, no two frames carry
\* the same key and counter, provided that encryptors come from
\* SFrameSession::encryptor, which looks up and fills its map under one lock, or
\* that one thread calls gbp_sframe_encryptor_create.
THEOREM NoCounterTwice ==
    ASSUME OneFfiThread
    PROVE  KeysSpec => []CounterUsedOnce
<1>1. KeysInit => KeyInv
  BY DEF KeysInit, KeyInv, KeysTypeOK, OneSessionPerEpoch, OneCellPerKey, CounterUsedOnce
<1>2. KeyInv /\ [KeysNext]_keyvars => KeyInv'
  BY NextKeyInv, Zenon
<1>3. KeyInv => CounterUsedOnce
  BY Zenon DEF KeyInv
<1>4. QED
  BY <1>1, <1>2, <1>3, PTL DEF KeysSpec

-------------------------------------------------------------------------------
(* Replay windows *)

\* What the invariant says of one decryptor
WindowOk(session, frames) ==
    /\ session.seen = {frames[session.opened[i]] : i \in DOMAIN session.opened}
    /\ \A i, j \in DOMAIN session.opened : i # j => session.opened[i] # session.opened[j]
    /\ \A i \in DOMAIN session.opened :
          /\ session.opened[i] \in DOMAIN frames
          /\ frames[session.opened[i]].epoch = session.epoch

LEMMA WindowsAreOk ==
    OpenedInv <=> KeysTypeOK /\ \A s \in DOMAIN sessions : WindowOk(sessions[s], wire)
BY Zenon DEF OpenedInv, WindowIsOpened, WindowOk

\* Frames stay on the wire.
LEMMA WindowOfMore ==
    ASSUME NEW session, NEW frames, NEW more, WindowOk(session, frames),
           DOMAIN frames \subseteq DOMAIN more, \A i \in DOMAIN frames : more[i] = frames[i]
    PROVE  WindowOk(session, more)
<1>1. \A i \in DOMAIN session.opened :
          /\ session.opened[i] \in DOMAIN frames
          /\ more[session.opened[i]] = frames[session.opened[i]]
  BY Zenon DEF WindowOk
<1>2. {more[session.opened[i]] : i \in DOMAIN session.opened}
        = {frames[session.opened[i]] : i \in DOMAIN session.opened}
  BY <1>1
<1>3. QED
  BY <1>1, <1>2, Zenon DEF WindowOk

\* Opening a frame that is not in the window
LEMMA WindowOpens ==
    ASSUME NEW session \in Session, NEW frames, NEW n \in DOMAIN frames, n \in Nat,
           WindowOk(session, frames), InWindow(session, frames[n]),
           frames[n].epoch = session.epoch
    PROVE  WindowOk([session EXCEPT !.seen = @ \cup {frames[n]}, !.opened = Append(@, n)],
                    frames)
<1> DEFINE old == session.opened
           opened == Append(old, n)
           last == Len(old) + 1
           r == [session EXCEPT !.seen = @ \cup {frames[n]}, !.opened = Append(@, n)]
<1>1. old \in Seq(Nat)
  BY Zenon DEF Session
<1>2. /\ DOMAIN opened = DOMAIN old \cup {last} /\ opened[last] = n
      /\ \A i \in DOMAIN old : opened[i] = old[i] /\ i # last
  BY <1>1, Grows
<1>3. /\ r.seen = session.seen \cup {frames[n]} /\ r.opened = opened
      /\ r.epoch = session.epoch
  BY Zenon DEF Session
<1> HIDE DEF opened, last, r
<1>4. /\ session.seen = {frames[old[i]] : i \in DOMAIN old}
      /\ \A i, j \in DOMAIN old : i # j => old[i] # old[j]
      /\ \A i \in DOMAIN old : old[i] \in DOMAIN frames
                               /\ frames[old[i]].epoch = session.epoch
  BY Zenon DEF WindowOk
<1> HIDE DEF old
<1>5. \A i \in DOMAIN old : old[i] # n
  <2>1. frames[n] \notin session.seen
    BY Zenon DEF InWindow
  <2>2. QED
    BY <1>4, <2>1, Zenon
<1>6. r.seen = {frames[opened[i]] : i \in DOMAIN opened}
  BY <1>2, <1>3, <1>4
<1>7. \A i, j \in DOMAIN opened : i # j => opened[i] # opened[j]
  BY <1>2, <1>4, <1>5, Zenon
<1>8. \A i \in DOMAIN opened : opened[i] \in DOMAIN frames
                               /\ frames[opened[i]].epoch = session.epoch
  BY <1>2, <1>4, Zenon
<1>9. WindowOk(r, frames)
  BY <1>3, <1>6, <1>7, <1>8 DEF WindowOk
<1>10. QED
  BY <1>9, Zenon DEF r

LEMMA NextKeysTypeOK ==
    ASSUME KeysTypeOK, [KeysNext]_keyvars
    PROVE  KeysTypeOK'
<1>1. CASE UNCHANGED keyvars \/ Commit \/ \E h \in handles : EncryptorFree(h)
  BY <1>1 DEF keyvars, Commit, EncryptorFree, KeysTypeOK
<1>2. CASE SessionCreate \/ \E s \in DOMAIN sessions : SessionFree(s)
  BY <1>2, SessionCreateEffect, SessionFreeEffect, Zenon
<1>3. ASSUME NEW t \in Caller, NEW s \in DOMAIN sessions, NEW leaf \in Leaf,
             Encryptor(t, s, leaf)
      PROVE  KeysTypeOK'
  <2>1. s \in Nat /\ sessions[s] \in Session
    BY Element, Zenon DEF KeysTypeOK
  <2>2. sessions[s].epoch \in Nat
    BY <2>1, Zenon DEF Session
  <2>3. CASE NewCell(t, s, leaf, sessions[s].epoch)
    BY <1>3, <2>1, <2>2, <2>3, NewCellTyped, Zenon DEF Encryptor, KeysTypeOK
  <2>4. CASE Reconnect(t, s, leaf)
    BY <1>3, <2>4, Zenon DEF Encryptor, Reconnect, KeysTypeOK
  <2>5. QED
    BY <1>3, <2>3, <2>4, Zenon DEF Encryptor
<1>4. ASSUME NEW t \in Caller, NEW s \in DOMAIN sessions, NEW leaf \in Leaf,
             CreateChecks(t, s, leaf)
      PROVE  KeysTypeOK'
  BY <1>4, CreateChecksEffect, Zenon DEF KeysTypeOK
<1>9. ASSUME NEW c \in checked, CreateLooksUp(c) PROVE KeysTypeOK'
  BY <1>9, Zenon DEF CreateLooksUp, Reconnect, KeysTypeOK
<1>5. ASSUME NEW c \in creating, CreateInserts(c) PROVE KeysTypeOK'
  <2>1. c.session \in Nat /\ c.leaf \in Leaf /\ mls_epoch \in Nat
    BY Zenon DEF KeysTypeOK, Creation
  <2>2. QED
    BY <1>5, <2>1, NewCellTyped, Zenon DEF CreateInserts, KeysTypeOK
<1>6. ASSUME NEW t \in Caller, NEW k \in DOMAIN cells, Encrypt(t, k) PROVE KeysTypeOK'
  BY <1>6, EncryptEffect, Zenon
<1>7. ASSUME NEW s \in DOMAIN sessions, NEW i \in DOMAIN wire, NEW genuine \in BOOLEAN,
             Decrypt(s, i, genuine)
      PROVE  KeysTypeOK'
  BY <1>7, DecryptSessions, Zenon DEF KeysTypeOK
<1>8. QED
  BY <1>1, <1>2, <1>3, <1>4, <1>5, <1>6, <1>7, <1>9, Zenon DEF KeysNext, Cell

LEMMA NextOpenedInv ==
    ASSUME OpenedInv, [KeysNext]_keyvars
    PROVE  OpenedInv'
<1>1. KeysTypeOK /\ KeysTypeOK' /\ \A s \in DOMAIN sessions : WindowOk(sessions[s], wire)
  BY NextKeysTypeOK, WindowsAreOk, Zenon
<1>2. SUFFICES \A s \in DOMAIN sessions' : WindowOk(sessions'[s], wire')
  <2>1. OpenedInv' <=> KeysTypeOK' /\ \A s \in DOMAIN sessions' : WindowOk(sessions'[s], wire')
    BY Zenon DEF OpenedInv, WindowIsOpened, WindowOk
  <2>2. QED
    BY <1>1, <2>1, Zenon
<1>3. CASE sessions' = sessions /\ wire' = wire
  BY <1>1, <1>3, Zenon
<1>4. CASE SessionCreate
  <2>1. /\ wire' = wire /\ DOMAIN sessions' = DOMAIN sessions \cup {Len(sessions) + 1}
        /\ \A s \in DOMAIN sessions : sessions'[s] = sessions[s]
        /\ sessions'[Len(sessions) + 1].seen = {}
        /\ sessions'[Len(sessions) + 1].opened = << >>
    BY <1>1, <1>4, SessionCreateEffect, Zenon
  <2>2. WindowOk(sessions'[Len(sessions) + 1], wire)
    <3>1. DOMAIN sessions'[Len(sessions) + 1].opened = {}
      BY <2>1
    <3>2. QED
      BY <2>1, <3>1, Zenon DEF WindowOk
  <2>3. QED
    BY <1>1, <2>1, <2>2, Zenon
<1>5. ASSUME NEW s \in DOMAIN sessions, SessionFree(s), NEW r \in DOMAIN sessions'
      PROVE  WindowOk(sessions'[r], wire')
  <2>1. /\ r \in DOMAIN sessions /\ wire' = wire /\ sessions'[r].epoch = sessions[r].epoch
        /\ sessions'[r].seen = sessions[r].seen /\ sessions'[r].opened = sessions[r].opened
    BY <1>1, <1>5, SessionFreeEffect, Zenon DEF Lasts
  <2>2. WindowOk(sessions[r], wire)
    BY <1>1, <2>1, Zenon
  <2>3. QED
    BY <2>1, <2>2, Zenon DEF WindowOk
<1>6. ASSUME NEW t \in Caller, NEW k \in DOMAIN cells, Encrypt(t, k),
             NEW s \in DOMAIN sessions'
      PROVE  WindowOk(sessions'[s], wire')
  <2>1. /\ sessions' = sessions /\ DOMAIN wire \subseteq DOMAIN wire'
        /\ \A i \in DOMAIN wire : wire'[i] = wire[i]
    BY <1>1, <1>6, EncryptEffect, Zenon
  <2>2. QED
    BY <1>1, <2>1, WindowOfMore, Zenon
<1>7. ASSUME NEW s \in DOMAIN sessions, NEW i \in DOMAIN wire, NEW genuine \in BOOLEAN,
             Decrypt(s, i, genuine), NEW r \in DOMAIN sessions'
      PROVE  WindowOk(sessions'[r], wire')
  <2> DEFINE opening == [sessions[s] EXCEPT !.seen = @ \cup {wire[i]}, !.opened = Append(@, i)]
  <2>1. /\ wire' = wire /\ DOMAIN sessions' = DOMAIN sessions
        /\ \/ sessions' = sessions
           \/ /\ InWindow(sessions[s], wire[i]) /\ wire[i].epoch = sessions[s].epoch
              /\ sessions' = [sessions EXCEPT ![s] = opening]
    BY <1>1, <1>7, DecryptSessions, Zenon
  <2>2. sessions[s] \in Session /\ i \in Nat
    BY <1>1, Element, Zenon DEF KeysTypeOK
  <2>3. InWindow(sessions[s], wire[i]) /\ wire[i].epoch = sessions[s].epoch
          => WindowOk(opening, wire)
    BY <1>1, <2>2, WindowOpens, Zenon
  <2> HIDE DEF opening
  <2>4. QED
    BY <1>1, <2>1, <2>3, Zenon
<1>8. ASSUME \/ UNCHANGED keyvars \/ Commit \/ \E c \in creating : CreateInserts(c)
             \/ \E h \in handles : EncryptorFree(h)
             \/ \E c \in checked : CreateLooksUp(c)
             \/ \E t \in Caller, s \in DOMAIN sessions, leaf \in Leaf :
                   Encryptor(t, s, leaf) \/ CreateChecks(t, s, leaf)
      PROVE  sessions' = sessions /\ wire' = wire
  BY <1>8, Zenon DEF keyvars, Commit, CreateInserts, EncryptorFree, Encryptor,
     CreateChecks, CreateLooksUp
<1>9. QED
  BY <1>3, <1>4, <1>5, <1>6, <1>7, <1>8, Zenon DEF KeysNext, Cell

\* For any number of threads and frames, and however frames are damaged,
\* repeated or of a colliding epoch, a decryptor returns a frame at most once
\* and its windows hold exactly the frames it returned (SFrameDecryptor::decrypt).
THEOREM WindowHoldsOpened == KeysSpec => []WindowIsOpened
<1>1. KeysInit => OpenedInv
  <2>1. SUFFICES ASSUME KeysInit PROVE OpenedInv
    OBVIOUS
  <2>2. DOMAIN sessions = {}
    BY <2>1 DEF KeysInit
  <2>3. KeysTypeOK
    BY <2>1 DEF KeysInit, KeysTypeOK
  <2>4. QED
    BY <2>2, <2>3, Zenon DEF OpenedInv, WindowIsOpened
<1>2. OpenedInv /\ [KeysNext]_keyvars => OpenedInv'
  BY NextOpenedInv, Zenon
<1>3. OpenedInv => WindowIsOpened
  BY Zenon DEF OpenedInv
<1>4. QED
  BY <1>1, <1>2, <1>3, PTL DEF KeysSpec

==============================================================================
