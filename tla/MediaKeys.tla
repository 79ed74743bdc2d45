------------------------------ MODULE MediaKeys ------------------------------
(* SFrame sessions, encryptor handles and decryptors shared by the threads of  *)
(* a process: crates/gbp-sframe and the gbp_sframe_* calls of                  *)
(* crates/gbp/stack-ffi/src/lib.rs.                                            *)
(*                                                                             *)
(* An encryptor handle points to a cell, the key and counter behind            *)
(* Arc<Mutex<EncryptorState>>; a key is determined by epoch and leaf.  What    *)
(* the code does under one lock is one step.  SFrameSession::encryptor is such *)
(* a step; gbp_sframe_encryptor_create checks the session, looks up its cache  *)
(* and fills it under three separate locks, and is three.  The AEAD and the    *)
(* replay window itself are the sframe crate's.                                *)
EXTENDS Naturals, Sequences, FiniteSets

CONSTANTS RustThread,    \* the threads of an application in Rust
          FfiThread,     \* the threads of an application that uses the C ABI
          Leaf,
          MaxCtr,        \* largest counter, 2^64 - 1
          EpochMod,      \* 2^EPOCH_BITS
          Tolerance,     \* REPLAY_WINDOW
          MaxSessions, MaxCells, MaxWire, MaxMlsEpoch  \* bounds

VARIABLES ffi,        \* encryptors come from the C ABI, not from the session
          mls_epoch,  \* of the MLS context
          sessions,   \* by session handle: epoch, live, and the decryptor's windows
          cells,      \* every EncryptorState made so far
          cache,      \* SFrameSession.encryptors, or SFrameEncryptorDedup
          handles,    \* the encryptor handles: which thread may use which cell
          checked,    \* calls of gbp_sframe_encryptor_create that found the session
          creating,   \* and those that have also missed the cache
          wire        \* the frames encrypted, in order

keyvars == <<ffi, mls_epoch, sessions, cells, cache, handles, checked, creating, wire>>

Caller == IF ffi THEN FfiThread ELSE RustThread

\* No two threads use the C ABI
OneFfiThread == \A t, u \in FfiThread : t = u

Cell == DOMAIN cells

KeysInit ==
    /\ ffi \in BOOLEAN
    /\ mls_epoch = 1
    /\ sessions = << >>
    /\ cells = << >>
    /\ cache = {}
    /\ handles = {}
    /\ checked = {}
    /\ creating = {}
    /\ wire = << >>

\* gbp_sframe_session_create, SFrameSession::from_mls and decryptor.  The
\* application keeps to "each SFrame session corresponds to one MLS epoch": two
\* sessions of an epoch would count independently under the same key.
SessionCreate ==
    /\ Len(sessions) < MaxSessions
    /\ \A s \in DOMAIN sessions : sessions[s].epoch # mls_epoch
    /\ sessions' = Append(sessions,
           [epoch |-> mls_epoch, live |-> TRUE, seen |-> {}, opened |-> << >>])
    /\ UNCHANGED <<ffi, mls_epoch, cells, cache, handles, checked, creating, wire>>

\* A thread that is not inside gbp_sframe_encryptor_create
Outside(t) == \A c \in checked \cup creating : c.thread # t

\* gbp_sframe_session_free also drops the cache entries of the session
SessionFree(s) ==
    /\ sessions[s].live
    /\ \E t \in Caller : Outside(t)
    /\ sessions' = [sessions EXCEPT ![s].live = FALSE]
    /\ cache' = {c \in cache : c.session # s}
    /\ UNCHANGED <<ffi, mls_epoch, cells, handles, checked, creating, wire>>

\* The MLS context merges a commit
Commit ==
    /\ mls_epoch < MaxMlsEpoch
    /\ \E t \in Caller : Outside(t)
    /\ mls_epoch' = mls_epoch + 1
    /\ UNCHANGED <<ffi, sessions, cells, cache, handles, checked, creating, wire>>

------------------------------------------------------------------------------
(* Encryptor handles *)

Cached(s, leaf) == {c \in cache : c.session = s /\ c.leaf = leaf}

\* A new cell for the leaf becomes the cached one, and t gets a handle to it
NewCell(t, s, leaf, e) ==
    /\ Len(cells) < MaxCells
    /\ cells' = Append(cells, [epoch |-> e, leaf |-> leaf, ctr |-> 0])
    /\ cache' = (cache \ Cached(s, leaf))
                   \cup {[session |-> s, leaf |-> leaf, cell |-> Len(cells) + 1]}
    /\ handles' = handles \cup {<<t, Len(cells) + 1>>}

\* t gets a handle to the cell that is cached
Reconnect(t, s, leaf) ==
    /\ Cached(s, leaf) # {}
    /\ handles' = handles \cup {<<t, c.cell>> : c \in Cached(s, leaf)}
    /\ UNCHANGED <<cells, cache>>

\* Mutant: every call makes an encryptor of its own
EncryptorAlwaysNew(t, s, leaf) ==
    /\ ~ ffi /\ sessions[s].live
    /\ NewCell(t, s, leaf, sessions[s].epoch)
    /\ UNCHANGED <<ffi, mls_epoch, sessions, checked, creating, wire>>

\* SFrameSession::encryptor: or_insert_with under the map's lock
Encryptor(t, s, leaf) ==
    /\ ~ ffi /\ sessions[s].live
    /\ \/ Reconnect(t, s, leaf)
       \/ Cached(s, leaf) = {} /\ NewCell(t, s, leaf, sessions[s].epoch)
    /\ UNCHANGED <<ffi, mls_epoch, sessions, checked, creating, wire>>

\* gbp_sframe_encryptor_create finds the session; "the session handle MUST be
\* the one ... for the same epoch" ...
CreateChecks(t, s, leaf) ==
    /\ ffi /\ sessions[s].live /\ sessions[s].epoch = mls_epoch
    /\ Outside(t)
    /\ checked' = checked \cup {[thread |-> t, session |-> s, leaf |-> leaf]}
    /\ UNCHANGED <<ffi, mls_epoch, sessions, cells, cache, handles, creating, wire>>

\* ... looks up the cache ...
CreateLooksUp(c) ==
    /\ c \in checked
    /\ checked' = checked \ {c}
    /\ \/ Reconnect(c.thread, c.session, c.leaf) /\ UNCHANGED creating
       \/ /\ Cached(c.session, c.leaf) = {}
          /\ creating' = creating \cup {c}
          /\ UNCHANGED <<cells, cache, handles>>
    /\ UNCHANGED <<ffi, mls_epoch, sessions, wire>>

\* ... and from the MLS lock on: the key is that of the context's epoch by then
CreateInserts(c) ==
    /\ c \in creating
    /\ creating' = creating \ {c}
    /\ NewCell(c.thread, c.session, c.leaf, mls_epoch)
    /\ UNCHANGED <<ffi, mls_epoch, sessions, checked, wire>>

\* gbp_sframe_encryptor_free; the cell stays in the cache
EncryptorFree(h) ==
    /\ h \in handles
    /\ handles' = handles \ {h}
    /\ UNCHANGED <<ffi, mls_epoch, sessions, cells, cache, checked, creating, wire>>

------------------------------------------------------------------------------
(* Frames *)

\* SFrameEncryptor::encrypt; after MaxCtr it returns CounterExhausted
Encrypt(t, k) ==
    /\ <<t, k>> \in handles /\ Len(wire) < MaxWire
    /\ cells[k].ctr <= MaxCtr
    /\ wire' = Append(wire, cells[k])
    /\ cells' = [cells EXCEPT ![k].ctr = @ + 1]
    /\ UNCHANGED <<ffi, mls_epoch, sessions, cache, handles, checked, creating>>

\* The window test of the replay store, one window per KID
InWindow(session, f) ==
    LET of_kid == {g \in session.seen : g.leaf = f.leaf}
    IN  f \notin of_kid /\ \A g \in of_kid : g.ctr <= f.ctr + Tolerance

\* decrypt up to the AEAD: the KID names the low bits of this epoch, inspect passes
Screened(session, f) ==
    f.epoch % EpochMod = session.epoch % EpochMod /\ InWindow(session, f)

\* Mutant: the counter is recorded before the frame is authenticated
DecryptRecordsFirst(s, i, genuine) ==
    /\ sessions[s].live /\ Screened(sessions[s], wire[i])
    /\ sessions' = [sessions EXCEPT
          ![s].seen = @ \cup {wire[i]},
          ![s].opened = IF genuine /\ wire[i].epoch = sessions[s].epoch
                        THEN Append(@, i) ELSE @]
    /\ UNCHANGED <<ffi, mls_epoch, cells, cache, handles, checked, creating, wire>>

\* decrypt and gbp_sframe_decrypt: a frame whose tag does not match, because it
\* is damaged or of another epoch with the same low bits, leaves no trace
Decrypt(s, i, genuine) ==
    /\ sessions[s].live /\ Screened(sessions[s], wire[i])
    /\ IF genuine /\ wire[i].epoch = sessions[s].epoch
       THEN sessions' = [sessions EXCEPT ![s].seen = @ \cup {wire[i]},
                                         ![s].opened = Append(@, i)]
       ELSE UNCHANGED sessions
    /\ UNCHANGED <<ffi, mls_epoch, cells, cache, handles, checked, creating, wire>>

KeysNext ==
    \/ SessionCreate
    \/ Commit
    \/ \E s \in DOMAIN sessions : SessionFree(s)
    \/ \E t \in Caller, s \in DOMAIN sessions, leaf \in Leaf :
          Encryptor(t, s, leaf) \/ CreateChecks(t, s, leaf)
    \/ \E c \in checked : CreateLooksUp(c)
    \/ \E c \in creating : CreateInserts(c)
    \/ \E h \in handles : EncryptorFree(h)
    \/ \E t \in Caller, k \in Cell : Encrypt(t, k)
    \/ \E s \in DOMAIN sessions, i \in DOMAIN wire, genuine \in BOOLEAN :
          Decrypt(s, i, genuine)

KeysSpec == KeysInit /\ [][KeysNext]_keyvars

------------------------------------------------------------------------------
(* Properties *)

\* Stated by gbp_sframe_encryptor_create ("returns a handle sharing the *same*
\* counter; it never resets it"): no two frames of a session's epoch and leaf
\* carry the same counter, however many handles and threads encrypt, and also
\* when the counter runs out.
CounterUsedOnce ==
    \A i, j \in DOMAIN wire : i # j => wire[i] # wire[j]

\* A decryptor returns each frame of its epoch at most once, and its replay
\* windows hold the frames it returned and no others: a damaged copy, or a frame
\* of an epoch whose low bits are the same, does not use up the counter of the
\* genuine one (decrypt commits to the window only after the AEAD).
WindowIsOpened ==
    \A s \in DOMAIN sessions : LET opened == sessions[s].opened IN
        /\ sessions[s].seen = {wire[opened[i]] : i \in DOMAIN opened}
        /\ \A i, j \in DOMAIN opened : i # j => opened[i] # opened[j]
        /\ \A i \in DOMAIN opened : wire[opened[i]].epoch = sessions[s].epoch

==============================================================================
