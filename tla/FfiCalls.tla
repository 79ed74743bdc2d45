------------------------------- MODULE FfiCalls -------------------------------
(* The C ABI of the stack (stack-ffi/src/lib.rs): exports called by the        *)
(* threads of one process.  Objects live in one registry per kind, each behind *)
(* its own mutex; key-package bundles live in a map of their own; a failure is *)
(* told through a thread-local slot, in the reply, or not at all.              *)
(*                                                                             *)
(* An export is described by what it does around the one method it wraps; what *)
(* that method computes is the subject of the other modules.  A registry or    *)
(* the bundle map is locked for one access at a time and never while waiting,  *)
(* so such an access is one step.                                              *)
EXTENDS Naturals, Sequences, FiniteSets

CONSTANTS Thread,
          Used,       \* names of the exports the threads call
          MaxCalls,   \* calls of one thread
          MaxHandle   \* handles given out per registry

Kind == {"mls", "node", "gtp", "gap", "gsp"}

VARIABLES live,      \* registries: handles in the map, per kind
          next,      \* registries: the next handle, per kind
          bundles,   \* MLS handles that have a key-package bundle
          restored,  \* MLS handles made by gbp_mls_restore_state (history)
          owner,     \* thread that holds an object's mutex
          slot,      \* last-error text, by the call that wrote it
          calls,     \* calls a thread has begun
          run,       \* the call a thread is in, or the last one it made
          given,     \* handles returned to the application
          doomed     \* handles the application has asked to destroy

vars == <<live, next, bundles, restored, owner, slot, calls, run, given, doomed>>

-------------------------------------------------------------------------------
\* Descriptions of exports.
\*   does    "body": resolve `uses`, lock them in that order, run the method
\*           "insert", "remove": create or destroy an object
\*           "bundle": read the key-package map
\*   clears  starts with clear_last_error
\*   checks  may refuse its arguments before it looks a handle up
\*   fails   the method may return an error
\*   tells   a failure goes to the "slot", into the "reply", or is "silent"

Wraps(uses, checks) ==
    [does |-> "body", uses |-> uses, clears |-> TRUE, checks |-> checks,
     fails |-> TRUE, tells |-> "slot"]

\* Accessors and setters: a bad handle gives 0, false or "[]".
Touches(kind) ==
    [does |-> "body", uses |-> <<kind>>, clears |-> FALSE, checks |-> FALSE,
     fails |-> FALSE, tells |-> "silent"]

Accepts(kind) ==
    [does |-> "body", uses |-> <<kind>>, clears |-> TRUE, checks |-> FALSE,
     fails |-> TRUE, tells |-> "reply"]

Creates(kind, clears, fails) ==
    [does |-> "insert", uses |-> <<kind>>, clears |-> clears, checks |-> FALSE,
     fails |-> fails, tells |-> "slot"]

Destroys(kind) ==
    [does |-> "remove", uses |-> <<kind>>, clears |-> FALSE, checks |-> FALSE,
     fails |-> FALSE, tells |-> "silent"]

MlsObjects ==
    [gbp_mls_create |-> [Creates("mls", TRUE, TRUE) EXCEPT !.does = "insertBoth"],
     gbp_mls_destroy |-> Destroys("mls"),
     gbp_mls_epoch |-> Touches("mls"),
     gbp_mls_group_id |-> [Wraps(<<"mls">>, FALSE) EXCEPT !.fails = FALSE],
     gbp_mls_export_key_package |->
        [Wraps(<<"mls">>, FALSE) EXCEPT !.does = "bundle"]]

MlsMembership ==
    [gbp_mls_invite |-> Wraps(<<"mls">>, FALSE),
     gbp_mls_invite_full |-> Wraps(<<"mls">>, FALSE),
     gbp_mls_remove |-> Wraps(<<"mls">>, FALSE)]

MlsCommits ==
    [gbp_mls_process_message |-> Wraps(<<"mls">>, FALSE),
     gbp_mls_finalize_commit |-> Wraps(<<"mls">>, FALSE),
     gbp_mls_clear_pending_commit |-> Wraps(<<"mls">>, FALSE),
     gbp_mls_accept_welcome |-> Wraps(<<"mls">>, FALSE)]

MlsState ==
    [gbp_mls_export_state |-> Wraps(<<"mls">>, FALSE),
     gbp_mls_restore_state |-> Creates("mls", TRUE, TRUE)]

NodeObjects ==
    [gbp_node_create |-> Creates("node", TRUE, FALSE),
     gbp_node_destroy |-> Destroys("node"),
     gbp_node_bootstrap_creator |-> Touches("node"),
     gbp_node_bootstrap_joiner |-> Touches("node"),
     gbp_node_state |-> Touches("node"),
     gbp_node_epoch |-> Touches("node"),
     gbp_node_last_transition_id |-> Touches("node"),
     gbp_node_set_epoch |-> Touches("node"),
     gbp_node_apply_transition |-> Touches("node")]

\* Variation: feeding the wire locks the MLS context before the node.
NodeTrafficMlsFirst ==
    [gbp_node_send_control |-> Wraps(<<"node", "mls">>, TRUE),
     gbp_node_on_wire |-> Wraps(<<"mls", "node">>, FALSE),
     gbp_node_drain_events |-> Touches("node")]

NodeTraffic ==
    [gbp_node_send_control |-> Wraps(<<"node", "mls">>, TRUE),
     gbp_node_on_wire |-> Wraps(<<"node", "mls">>, FALSE),
     gbp_node_drain_events |-> Touches("node")]

GtpCalls ==
    [gtp_client_create |-> Creates("gtp", FALSE, FALSE),
     gtp_client_destroy |-> Destroys("gtp"),
     gtp_client_reset |-> Touches("gtp"),
     gtp_client_send |-> Wraps(<<"gtp", "node", "mls">>, TRUE),
     gtp_client_accept |-> Accepts("gtp")]

GapCalls ==
    [gap_client_create |-> Creates("gap", FALSE, FALSE),
     gap_client_destroy |-> Destroys("gap"),
     gap_client_reset |-> Touches("gap"),
     gap_client_send |-> Wraps(<<"gap", "node", "mls">>, FALSE),
     gap_client_accept |-> Accepts("gap")]

GspObjects ==
    [gsp_client_create |-> Creates("gsp", FALSE, FALSE),
     gsp_client_destroy |-> Destroys("gsp"),
     gsp_client_reset |-> Touches("gsp")]

GspSends ==
    [gsp_client_send |-> Wraps(<<"gsp", "node", "mls">>, TRUE),
     gsp_client_send_with_args |-> Wraps(<<"gsp", "node", "mls">>, TRUE)]

GspAccepts ==
    [gsp_client_accept |-> Accepts("gsp")]

\* gbp_error_lookup sets the slot and never clears it.
Helpers ==
    [gbp_frame_encode_v |-> [Wraps(<<>>, FALSE) EXCEPT !.fails = FALSE],
     gbp_error_lookup |-> [Wraps(<<>>, FALSE) EXCEPT !.clears = FALSE]]

Tables ==
    {MlsObjects, MlsMembership, MlsCommits, MlsState, NodeObjects, NodeTraffic,
     GtpCalls, GapCalls, GspObjects, GspSends, GspAccepts, Helpers}

Exports ==
    [name \in UNION {DOMAIN table : table \in Tables} |->
        (CHOOSE table \in Tables : name \in DOMAIN table)[name]]

ASSUME FfiAssumption ==
    /\ Used \subseteq DOMAIN Exports
    /\ MaxCalls \in Nat /\ MaxHandle \in Nat \ {0}

-------------------------------------------------------------------------------
\* Variation: one slot for the process.
SlotOfProcess(t) == CHOOSE u \in Thread : TRUE

\* thread_local!: each thread reads and writes a slot of its own.
SlotOf(t) == t

\* The text gbp_last_error gives thread t: which call of which thread wrote it.
LastError(t) == slot[SlotOf(t)]

Own(t) == <<t, calls[t]>>

Failure == {"refused", "badHandle", "failed"}

Object(t, i) == <<run[t].c.uses[i], run[t].args[i]>>

\* A call ends with `result` and lets go of its guards.
Return(t, result) ==
    /\ run' = [run EXCEPT ![t].pc = "idle", ![t].result = result,
                          ![t].held = 0]
    /\ owner' = [o \in DOMAIN owner |-> IF owner[o] = {t} THEN {} ELSE owner[o]]
    /\ slot' = IF result \in Failure /\ run[t].c.tells = "slot"
               THEN [slot EXCEPT ![SlotOf(t)] = Own(t)] ELSE slot

\* Arguments: handles the application was given, destroyed ones included.
Handles(c) ==
    IF c.does \in {"insert", "insertBoth"} THEN {<<>>}
    ELSE {hs \in [1..Len(c.uses) -> 1..MaxHandle] :
             \A i \in DOMAIN hs : hs[i] \in given[c.uses[i]]}

\* Handles of a kind that calls under way may still take: part of the bound.
Creating(kind) ==
    Cardinality({t \in Thread : run[t].pc = "entered"
                                /\ run[t].c.does \in {"insert", "insertBoth"}
                                /\ run[t].c.uses[1] = kind})

Enter(t) ==
    /\ run[t].pc = "idle"
    /\ calls[t] < MaxCalls
    /\ \E name \in Used : LET c == Exports[name] IN \E hs \in Handles(c) :
        /\ c.does \in {"insert", "insertBoth"} =>
              next[c.uses[1]] + Creating(c.uses[1]) <= MaxHandle
        /\ run' = [run EXCEPT ![t] = [pc |-> "entered", c |-> c, args |-> hs,
                                      held |-> 0, result |-> "none"]]
        /\ slot' = IF c.clears THEN [slot EXCEPT ![SlotOf(t)] = <<>>] ELSE slot
        /\ doomed' = IF c.does = "remove"
                     THEN [doomed EXCEPT ![c.uses[1]] = @ \cup {hs[1]}]
                     ELSE doomed
    /\ calls' = [calls EXCEPT ![t] = @ + 1]
    /\ UNCHANGED <<live, next, bundles, restored, owner, given>>

Refuse(t) ==
    /\ run[t].pc = "entered" /\ run[t].c.checks
    /\ Return(t, "refused")
    /\ UNCHANGED <<live, next, bundles, restored, calls, given, doomed>>

\* Registry::get of every handle: the Arcs keep the objects alive from here on.
Resolve(t) ==
    /\ run[t].pc = "entered" /\ run[t].c.does = "body"
    /\ IF \A i \in DOMAIN run[t].args : Object(t, i)[2] \in live[Object(t, i)[1]]
       THEN run' = [run EXCEPT ![t].pc = "locking"] /\ UNCHANGED <<owner, slot>>
       ELSE Return(t, "badHandle")
    /\ UNCHANGED <<live, next, bundles, restored, calls, given, doomed>>

Lock(t) ==
    /\ run[t].pc = "locking" /\ run[t].held < Len(run[t].c.uses)
    /\ LET o == Object(t, run[t].held + 1) IN
        /\ owner[o] = {}
        /\ owner' = [owner EXCEPT ![o] = {t}]
    /\ run' = [run EXCEPT ![t].held = @ + 1]
    /\ UNCHANGED <<live, next, bundles, restored, slot, calls, given, doomed>>

Body(t) ==
    /\ run[t].pc = "locking" /\ run[t].held = Len(run[t].c.uses)
    /\ \/ Return(t, "ok")
       \/ run[t].c.fails /\ Return(t, "failed")
    /\ UNCHANGED <<live, next, bundles, restored, calls, given, doomed>>

Publish(t, kind, h) ==
    Return(t, "ok") /\ given' = [given EXCEPT ![kind] = @ \cup {h}]

\* Variation: gbp_mls_create keeps the context and drops the bundle.
InsertContextOnly(t) ==
    LET kind == run[t].c.uses[1]
        id == next[kind]
    IN  /\ run[t].pc = "entered" /\ run[t].c.does \in {"insert", "insertBoth"}
        /\ \/ /\ run[t].c.fails /\ Return(t, "failed")
              /\ UNCHANGED <<live, next, restored, given>>
           \/ /\ next' = [next EXCEPT ![kind] = @ + 1]
              /\ live' = [live EXCEPT ![kind] = @ \cup {id}]
              /\ restored' = IF kind = "mls" /\ run[t].c.does = "insert"
                             THEN restored \cup {id} ELSE restored
              /\ Publish(t, kind, id)
        /\ UNCHANGED <<bundles, calls, doomed>>

\* Registry::insert; gbp_mls_create goes on to store the bundle.
Insert(t) ==
    LET kind == run[t].c.uses[1]
        id == next[kind]
    IN  /\ run[t].pc = "entered" /\ run[t].c.does \in {"insert", "insertBoth"}
        /\ \/ /\ run[t].c.fails /\ Return(t, "failed")
              /\ UNCHANGED <<live, next, restored, given>>
           \/ /\ next' = [next EXCEPT ![kind] = @ + 1]
              /\ live' = [live EXCEPT ![kind] = @ \cup {id}]
              /\ restored' = IF kind = "mls" /\ run[t].c.does = "insert"
                             THEN restored \cup {id} ELSE restored
              /\ IF run[t].c.does = "insert" THEN Publish(t, kind, id)
                 ELSE /\ run' = [run EXCEPT ![t].pc = "storing", ![t].args = <<id>>]
                      /\ UNCHANGED <<owner, slot, given>>
        /\ UNCHANGED <<bundles, calls, doomed>>

StoreBundle(t) ==
    /\ run[t].pc = "storing"
    /\ bundles' = bundles \cup {run[t].args[1]}
    /\ Publish(t, "mls", run[t].args[1])
    /\ UNCHANGED <<live, next, restored, calls, doomed>>

\* Registry::remove; gbp_mls_destroy goes on to remove the bundle.
Remove(t) ==
    /\ run[t].pc = "entered" /\ run[t].c.does = "remove"
    /\ live' = [live EXCEPT ![run[t].c.uses[1]] = @ \ {run[t].args[1]}]
    /\ IF run[t].c.uses[1] = "mls"
       THEN run' = [run EXCEPT ![t].pc = "dropping"] /\ UNCHANGED <<owner, slot>>
       ELSE Return(t, "ok")
    /\ UNCHANGED <<next, bundles, restored, calls, given, doomed>>

DropBundle(t) ==
    /\ run[t].pc = "dropping"
    /\ bundles' = bundles \ {run[t].args[1]}
    /\ Return(t, "ok")
    /\ UNCHANGED <<live, next, restored, calls, given, doomed>>

ReadBundle(t) ==
    /\ run[t].pc = "entered" /\ run[t].c.does = "bundle"
    /\ \/ run[t].args[1] \in bundles /\ \E r \in {"ok", "failed"} : Return(t, r)
       \/ run[t].args[1] \notin bundles /\ Return(t, "badHandle")
    /\ UNCHANGED <<live, next, bundles, restored, calls, given, doomed>>

Step(t) ==
    \/ Refuse(t) \/ Resolve(t) \/ Lock(t) \/ Body(t) \/ Insert(t)
    \/ StoreBundle(t) \/ Remove(t) \/ DropBundle(t) \/ ReadBundle(t)

\* The application has made all the calls this instance lets it make.
Done == (\A t \in Thread : run[t].pc = "idle") /\ UNCHANGED vars

Next == Done \/ \E t \in Thread : Enter(t) \/ Step(t)

\* One object of each kind exists, made with the create exports.
Init ==
    /\ live = [k \in Kind |-> {1}]
    /\ next = [k \in Kind |-> 2]
    /\ bundles = {1}
    /\ restored = {}
    /\ owner = [o \in Kind \X (1..MaxHandle) |-> {}]
    /\ slot = [t \in Thread |-> <<>>]
    /\ calls = [t \in Thread |-> 0]
    /\ run = [t \in Thread |-> [pc |-> "idle", c |-> Destroys("gtp"),
                                args |-> <<1>>, held |-> 0, result |-> "none"]]
    /\ given = [k \in Kind |-> {1}]
    /\ doomed = [k \in Kind |-> {}]

\* A thread inside the library keeps running.  A mutex promises no more: that
\* a thread gets it once nobody else competes for it.
Spec == Init /\ [][Next]_vars /\ \A t \in Thread : WF_vars(Step(t))

-------------------------------------------------------------------------------
\* Every call returns, whatever the other threads call meanwhile: the exports
\* lock client, node and MLS context in one order and nothing under the
\* registries or the bundle map.
CallsReturn == \A t \in Thread : run[t].pc # "idle" ~> run[t].pc = "idle"

\* After a call that clears the slot, gbp_last_error of the same thread is the
\* text of that call if it failed and does not answer in its reply, and empty
\* otherwise: other threads' failures and earlier ones do not show through.
SlotTellsOutcome ==
    \A t \in Thread :
        run[t].pc = "idle" /\ calls[t] > 0 /\ run[t].c.clears =>
            LastError(t) = IF run[t].result \in Failure /\ run[t].c.tells = "slot"
                           THEN Own(t) ELSE <<>>

\* An export reports an invalid handle only when the application has asked to
\* destroy one of the handles it passed, with one exception: a context made by
\* gbp_mls_restore_state has no key-package bundle to export.
InvalidOnlyIfDestroyed ==
    \A t \in Thread :
        run[t].result = "badHandle" =>
            \/ \E i \in DOMAIN run[t].args :
                  Object(t, i)[2] \in doomed[Object(t, i)[1]]
            \/ run[t].c.does = "bundle" /\ run[t].args[1] \in restored

\* "every fallible call writes to a thread-local error slot that callers can
\* read via gbp_last_error" (lib.rs:22-23).
FailureIsWritten ==
    \A t \in Thread :
        run[t].pc = "idle" /\ run[t].result \in Failure => LastError(t) = Own(t)

===============================================================================
