---------------------------- MODULE GatewayCore ----------------------------
(***************************************************************************)
(* GatewayCore and the SessionRegistry it owns: how the requests of the    *)
(* phones list, read and write the sessions of the providers.              *)
(*                                                                         *)
(* The gateway runs in one JavaScript thread.  A request is a coroutine    *)
(* that runs undisturbed from one await or yield to the next; an action of *)
(* this module is one such stretch, and the requests interleave between    *)
(* them.  A reference and the provider session it stands for are one       *)
(* value: the two maps of the registry are always extended together.       *)
(*                                                                         *)
(* The titles, the items, the revisions (compared by no code of the        *)
(* gateway) and the payloads of the events are left out.                   *)
(***************************************************************************)
EXTENDS Naturals, Sequences, FiniteSets

CONSTANTS
    Sessions,      \* provider sessions, and the references to them
    Providers,
    ProviderOf,    \* the provider of a session
    Adapters,      \* the configured adapters, in the order of the Map
    AllowTurns,    \* providers whose adapter was built with allowTurns
    ReportsBusy,   \* providers whose snapshots may say "busy" (Codex)
    Owners,        \* the sockets, each with the owner name it was given
    Requests,      \* request ids, which are the correlation ids
    OwnerOf,       \* the socket a request arrives on
    MaxItems,      \* bound: the items a provider streams in one turn
    NoOwner, NoSession, NoRequest, Gateway

ASSUME CoreAssumption ==
    /\ ProviderOf \in [Sessions -> Providers]
    /\ Adapters \in Seq(Providers) /\ Adapters # <<>>
    /\ AllowTurns \subseteq Providers /\ ReportsBusy \subseteq Providers
    /\ OwnerOf \in [Requests -> Owners]
    /\ MaxItems \in Nat
    /\ NoOwner \notin Owners
    /\ NoSession \notin Sessions /\ Gateway \notin Sessions
    /\ NoRequest \notin Requests

VARIABLES
    \* SessionRegistry
    registered,  \* sessions the registry has a reference for
    state,       \* state of each session
    writer,      \* owner of the lease of each session
    sequence,    \* last event number of each session, and of the gateway
    \* the coroutines
    kind, pc,
    target,      \* the session a request is about
    lease,       \* the request holds an unreleased lease on its target
    next,        \* the adapter a listing asks next
    seen,        \* the state a snapshot read from the provider
    items,       \* items streamed so far
    last,        \* the last event the request produced
    \* the surroundings
    exists,      \* sessions the providers have
    open         \* sockets that are still open

registry == <<registered, state, writer, sequence>>
requests == <<kind, pc, target, lease, next, seen, items, last>>
vars == <<registered, state, writer, sequence, kind, pc, target, lease,
          next, seen, items, last, exists, open>>

-----------------------------------------------------------------------------
SessionState == {"idle", "busy", "conflict", "host_offline"}
Kind == {"none", "turn", "new", "list", "snapshot", "status"}
Control == {"unsent", "listing", "listed", "claim", "start", "stream",
            "failed", "create", "announce", "newclaim", "read", "apply",
            "status", "done"}
Route == Sessions \cup {Gateway}
NoEvent == [type |-> "none", ref |-> Gateway, seq |-> 0]
EventType == {"none", "session.list", "session.snapshot", "session.state",
              "session.new", "session.conflict", "turn.start", "item",
              "provider.status", "error"}
Event == [type : EventType, ref : Route, seq : Nat]

\* The pieces of a turn during which the provider may be writing.
Driving == {"start", "stream", "failed"}

TypeOK ==
    /\ registered \subseteq Sessions
    /\ state \in [Sessions -> SessionState]
    /\ writer \in [Sessions -> Owners \cup {NoOwner}]
    /\ sequence \in [Route -> Nat]
    /\ kind \in [Requests -> Kind]
    /\ pc \in [Requests -> Control]
    /\ target \in [Requests -> Sessions \cup {NoSession}]
    /\ lease \in [Requests -> BOOLEAN]
    /\ next \in [Requests -> 1 .. Len(Adapters)]
    /\ seen \in [Requests -> {"idle", "busy"}]
    /\ items \in [Requests -> Nat]
    /\ last \in [Requests -> Event]
    /\ exists \subseteq Sessions
    /\ open \in [Owners -> BOOLEAN]

Init ==
    /\ registered = {}
    /\ state = [s \in Sessions |-> "idle"]
    /\ writer = [s \in Sessions |-> NoOwner]
    /\ sequence = [x \in Route |-> 0]
    /\ kind = [r \in Requests |-> "none"]
    /\ pc = [r \in Requests |-> "unsent"]
    /\ target = [r \in Requests |-> NoSession]
    /\ lease = [r \in Requests |-> FALSE]
    /\ next = [r \in Requests |-> 1]
    /\ seen = [r \in Requests |-> "idle"]
    /\ items = [r \in Requests |-> 0]
    /\ last = [r \in Requests |-> NoEvent]
    /\ exists \in SUBSET Sessions
    /\ open = [o \in Owners |-> TRUE]

-----------------------------------------------------------------------------
(* Registry operations.                                                    *)

\* createEvent, and gatewayEvent for the gateway's own route: the event gets
\* the next number of its route and goes to the request's socket.
Emit(r, ref, type) ==
    /\ sequence' = [sequence EXCEPT ![ref] = @ + 1]
    /\ last' = [last EXCEPT ![r] =
                  [type |-> type, ref |-> ref, seq |-> sequence[ref] + 1]]

Silent == UNCHANGED <<sequence, last>>

Goto(r, label) == pc' = [pc EXCEPT ![r] = label]

\* The step changes where the request is and what it said, no more.
OnlyTalks == UNCHANGED <<registered, state, writer, kind, target, lease, next,
                         seen, items, exists, open>>

\* The same, but for a lease and the session it is on.
LeaseMoves == UNCHANGED <<registered, kind, target, next, seen, items, exists,
                          open>>

\* registerOrGet: a known session keeps its state, its lease and its number.
RegisterOrGet(found) == registered' = registered \cup found

\* setHostOffline: every session of the provider, whoever writes it.
SetHostOffline(p) ==
    state' = [s \in Sessions |->
                IF s \in registered /\ ProviderOf[s] = p
                THEN "host_offline" ELSE state[s]]

\* Mutant of ReconciledState: the poll overrides our own turn.
AlwaysReconciles(s, observed) == observed

\* reconcileSnapshot: the observation counts only while nobody writes.
ReconciledState(s, observed) ==
    IF writer[s] = NoOwner THEN observed ELSE state[s]

\* Mutant of Refuses: the active writer is not looked at.
RefusesOffline(s) == state[s] \in {"host_offline", "conflict"}

\* claimWriter, its three refusals and the type of event each returns.
Refuses(s) ==
    \/ state[s] \in {"host_offline", "conflict"}
    \/ writer[s] # NoOwner

RefusalType(s) ==
    IF state[s] = "host_offline" THEN "error" ELSE "session.conflict"

GrantWriter(r, s) ==
    /\ writer' = [writer EXCEPT ![s] = OwnerOf[r]]
    /\ state' = [state EXCEPT ![s] = "busy"]
    /\ lease' = [lease EXCEPT ![r] = TRUE]

\* lease.release: acts once, and only while the name is still the owner's.
StillOwner(r) == lease[r] /\ writer[target[r]] = OwnerOf[r]

\* Mutants of ReleasedState: the release forgets the unreachable provider, or
\* forgets to make the session idle.
ReleasedToIdle(s) == "idle"
ReleasedAsIs(s) == state[s]

ReleasedState(s) ==
    IF state[s] \in {"conflict", "host_offline"} THEN state[s] ELSE "idle"

ReleaseLease(r) ==
    /\ lease' = [lease EXCEPT ![r] = FALSE]
    /\ IF StillOwner(r)
       THEN /\ writer' = [writer EXCEPT ![target[r]] = NoOwner]
            /\ state' = [state EXCEPT ![target[r]] = ReleasedState(target[r])]
       ELSE UNCHANGED <<writer, state>>

-----------------------------------------------------------------------------
(* Arrival of a request.                                                   *)

Arrive(r, k) ==
    /\ pc[r] = "unsent"
    /\ open[OwnerOf[r]]
    /\ kind' = [kind EXCEPT ![r] = k]
    /\ UNCHANGED <<registered, state, writer, lease, next, seen, items,
                   exists, open>>

RequestList(r) ==
    /\ Arrive(r, "list")
    /\ Goto(r, "listing")
    /\ Silent /\ UNCHANGED target

RequestStatus(r) ==
    /\ Arrive(r, "status")
    /\ Goto(r, "status")
    /\ Silent /\ UNCHANGED target

\* ensureKnown: an unknown reference makes the request list all sessions.
RequestSnapshot(r, s) ==
    /\ Arrive(r, "snapshot")
    /\ target' = [target EXCEPT ![r] = s]
    /\ Goto(r, IF s \in registered THEN "read" ELSE "listing")
    /\ Silent

RequestTurn(r, s) ==
    /\ Arrive(r, "turn")
    /\ target' = [target EXCEPT ![r] = s]
    /\ Goto(r, IF s \in registered THEN "claim" ELSE "listing")
    /\ Silent

\* EMPTY_PROMPT is reported on the session before ensureKnown has run: for
\* an unknown reference createEvent throws and the request ends in
\* INTERNAL_ERROR with no event.
RequestEmptyTurn(r, s) ==
    /\ Arrive(r, "turn")
    /\ Goto(r, "done")
    /\ IF s \in registered THEN Emit(r, s, "error") ELSE Silent
    /\ UNCHANGED target

RequestNew(r) ==
    /\ Arrive(r, "new")
    /\ Goto(r, "create")
    /\ Silent /\ UNCHANGED target

\* EMPTY_PROMPT or UNKNOWN_PROVIDER of session.new.
RequestBadNew(r) ==
    /\ Arrive(r, "new")
    /\ Goto(r, "done")
    /\ Emit(r, Gateway, "error")
    /\ UNCHANGED target

-----------------------------------------------------------------------------
(* Listing, for session.list and inside ensureKnown.                       *)

\* Mutant of AfterAdapter: the loop does not notice its last adapter.
NeverLastAdapter(r) ==
    /\ next' = [next EXCEPT ![r] = @ + 1]
    /\ Silent /\ UNCHANGED pc

\* What follows the answer of an adapter without an await: the next adapter
\* is asked, or the list is complete and takes a number of the gateway.  The
\* list made inside ensureKnown is dropped, and its number with it.
AfterAdapter(r) ==
    IF next[r] < Len(Adapters)
    THEN /\ next' = [next EXCEPT ![r] = @ + 1]
         /\ Silent /\ UNCHANGED pc
    ELSE /\ UNCHANGED next
         /\ IF kind[r] = "list"
            THEN Emit(r, Gateway, "session.list") /\ Goto(r, "done")
            ELSE /\ sequence' = [sequence EXCEPT ![Gateway] = @ + 1]
                 /\ UNCHANGED last
                 /\ Goto(r, "listed")

\* Adapters list at most a number of sessions, and those of one directory.
AdapterLists(r, found) ==
    /\ pc[r] = "listing"
    /\ \A s \in found : s \in exists /\ ProviderOf[s] = Adapters[next[r]]
    /\ RegisterOrGet(found)
    /\ AfterAdapter(r)
    /\ UNCHANGED <<state, writer, kind, target, lease, seen, items, exists,
                   open>>

AdapterFails(r) ==
    /\ pc[r] = "listing"
    /\ SetHostOffline(Adapters[next[r]])
    /\ AfterAdapter(r)
    /\ UNCHANGED <<registered, writer, kind, target, lease, seen, items,
                   exists, open>>

\* Mutant of Relook: a reference still unknown gets no reply.
RelookWithoutReply(r) ==
    /\ pc[r] = "listed"
    /\ target[r] \in registered
    /\ Goto(r, IF kind[r] = "turn" THEN "claim" ELSE "read")
    /\ Silent /\ OnlyTalks

\* The second look of ensureKnown.
Relook(r) ==
    /\ pc[r] = "listed"
    /\ IF target[r] \in registered
       THEN /\ Goto(r, IF kind[r] = "turn" THEN "claim" ELSE "read")
            /\ Silent
       ELSE /\ Goto(r, "done")
            /\ IF kind[r] = "turn" THEN Emit(r, Gateway, "error") ELSE Silent
    /\ OnlyTalks

-----------------------------------------------------------------------------
(* startTurn.                                                              *)

RejectReadOnly(r) ==
    /\ pc[r] = "claim"
    /\ ProviderOf[target[r]] \notin AllowTurns
    /\ Emit(r, target[r], "error")
    /\ Goto(r, "done")
    /\ OnlyTalks

ClaimRefused(r) ==
    /\ pc[r] = "claim"
    /\ ProviderOf[target[r]] \in AllowTurns
    /\ Refuses(target[r])
    /\ Emit(r, target[r], RefusalType(target[r]))
    /\ Goto(r, "done")
    /\ OnlyTalks

ClaimGranted(r) ==
    /\ pc[r] = "claim"
    /\ ProviderOf[target[r]] \in AllowTurns
    /\ ~Refuses(target[r])
    /\ GrantWriter(r, target[r])
    /\ Emit(r, target[r], "session.state")
    /\ Goto(r, "start")
    /\ LeaseMoves

TurnStarts(r) ==
    /\ pc[r] = "start"
    /\ Emit(r, target[r], "turn.start")
    /\ Goto(r, "stream")
    /\ OnlyTalks

ProviderItem(r) ==
    /\ pc[r] = "stream"
    /\ items[r] < MaxItems
    /\ items' = [items EXCEPT ![r] = @ + 1]
    /\ Emit(r, target[r], "item")
    /\ UNCHANGED <<registered, state, writer, kind, pc, target, lease, next,
                   seen, exists, open>>

\* Mutant of ProviderFails: the catch ends the generator without a finally.
FailsWithoutFinally(r) ==
    /\ pc[r] = "stream"
    /\ Emit(r, target[r], "error")
    /\ Goto(r, "done")
    /\ OnlyTalks

\* The error event is yielded inside the catch: the lease is still held
\* until the socket's loop asks for the next event.
ProviderFails(r) ==
    /\ pc[r] = "stream"
    /\ Emit(r, target[r], "error")
    /\ Goto(r, "failed")
    /\ OnlyTalks

\* The finally block and the last session.state event, one stretch: when the
\* provider's stream ends, and after the error event of a failed one.
TurnEnds(r) ==
    /\ pc[r] \in {"stream", "failed"}
    /\ ReleaseLease(r)
    /\ Emit(r, target[r], "session.state")
    /\ Goto(r, "done")
    /\ LeaseMoves

-----------------------------------------------------------------------------
(* startNewSession.  From "start" on it runs like startTurn, with the lease *)
(* when the claim was granted and without it when it was refused.           *)

\* The provider creates the session: listings may find it from now on.
ProviderCreates(r, s) ==
    /\ pc[r] = "create"
    /\ s \notin exists
    /\ ProviderOf[s] \in AllowTurns
    /\ exists' = exists \cup {s}
    /\ target' = [target EXCEPT ![r] = s]
    /\ Goto(r, "announce")
    /\ Silent
    /\ UNCHANGED <<registered, state, writer, kind, lease, next, seen, items,
                   open>>

\* The stream fails, or just ends, before it announced a session.
NewFails(r) ==
    /\ pc[r] \in {"create", "announce"}
    /\ Goto(r, "done")
    /\ Emit(r, Gateway, "error") \/ Silent
    /\ OnlyTalks

Announced(r) ==
    /\ pc[r] = "announce"
    /\ RegisterOrGet({target[r]})
    /\ Emit(r, target[r], "session.new")
    /\ Goto(r, "newclaim")
    /\ UNCHANGED <<state, writer, kind, target, lease, next, seen, items,
                   exists, open>>

NewClaimGranted(r) ==
    /\ pc[r] = "newclaim"
    /\ ~Refuses(target[r])
    /\ GrantWriter(r, target[r])
    /\ Emit(r, target[r], "session.state")
    /\ Goto(r, "start")
    /\ LeaseMoves

\* The refusal is sent to the phone and the turn goes on all the same.
NewClaimRefused(r) ==
    /\ pc[r] = "newclaim"
    /\ Refuses(target[r])
    /\ Emit(r, target[r], RefusalType(target[r]))
    /\ Goto(r, "start")
    /\ OnlyTalks

-----------------------------------------------------------------------------
(* readSnapshot and readProviderStatus.                                    *)

\* What the provider says when it is asked; the answer is still on its way.
ProviderReads(r, observed) ==
    /\ pc[r] = "read"
    /\ observed = "busy" => ProviderOf[target[r]] \in ReportsBusy
    /\ seen' = [seen EXCEPT ![r] = observed]
    /\ Goto(r, "apply")
    /\ Silent
    /\ UNCHANGED <<registered, state, writer, kind, target, lease, next,
                   items, exists, open>>

\* Mutant of ReadFails: the snapshot's event takes its number before the
\* provider has answered.
ReadFailsNumbered(r) ==
    /\ pc[r] = "read"
    /\ Goto(r, "done")
    /\ sequence' = [sequence EXCEPT ![target[r]] = @ + 1]
    /\ UNCHANGED last /\ OnlyTalks

ReadFails(r) ==
    /\ pc[r] = "read"
    /\ Goto(r, "done")
    /\ Silent
    /\ OnlyTalks

ReconcileSnapshot(r) ==
    /\ pc[r] = "apply"
    /\ state' = [state EXCEPT ![target[r]] = ReconciledState(target[r], seen[r])]
    /\ Emit(r, target[r], "session.snapshot")
    /\ Goto(r, "done")
    /\ UNCHANGED <<registered, writer, kind, target, lease, next, seen,
                   items, exists, open>>

\* Failures of the providers are caught one by one: the reply always comes.
StatusReady(r) ==
    /\ pc[r] = "status"
    /\ Emit(r, Gateway, "provider.status")
    /\ Goto(r, "done")
    /\ OnlyTalks

-----------------------------------------------------------------------------
\* The socket closes.  Its requests run on, and so do their leases.
SocketCloses(o) ==
    /\ open[o]
    /\ open' = [open EXCEPT ![o] = FALSE]
    /\ UNCHANGED <<registered, state, writer, sequence, kind, pc, target,
                   lease, next, seen, items, last, exists>>

\* The references a phone can hold: those of an earlier gateway process, which
\* the salt keeps valid, and those of this one, once a list or the
\* announcement of a new session has had time to reach a phone.
Referable ==
    (registered \ {target[r] : r \in {q \in Requests : pc[q] = "newclaim"}})
    \cup (exists \ {target[r] : r \in {q \in Requests : kind[q] = "new"}})

Arrivals(r) ==
    \/ RequestList(r) \/ RequestStatus(r) \/ RequestNew(r) \/ RequestBadNew(r)
    \/ \E s \in Referable :
         RequestSnapshot(r, s) \/ RequestTurn(r, s) \/ RequestEmptyTurn(r, s)

Listing(r) ==
    \/ \E found \in SUBSET exists : AdapterLists(r, found)
    \/ AdapterFails(r) \/ Relook(r)

Turn(r) ==
    \/ RejectReadOnly(r) \/ ClaimRefused(r) \/ ClaimGranted(r)
    \/ TurnStarts(r) \/ ProviderFails(r) \/ TurnEnds(r)

NewSession(r) ==
    \/ \E s \in Sessions : ProviderCreates(r, s)
    \/ NewFails(r) \/ Announced(r) \/ NewClaimGranted(r) \/ NewClaimRefused(r)

Reading(r) ==
    \/ \E observed \in {"idle", "busy"} : ProviderReads(r, observed)
    \/ ReadFails(r) \/ ReconcileSnapshot(r) \/ StatusReady(r)

\* The steps that bring a request that has arrived closer to its end.
Progress(r) == Listing(r) \/ Turn(r) \/ NewSession(r) \/ Reading(r)

Next ==
    \/ \E r \in Requests : Arrivals(r) \/ ProviderItem(r) \/ Progress(r)
    \/ \E o \in Owners : SocketCloses(o)

Spec == Init /\ [][Next]_vars

\* The event loop runs every coroutine that can run, and every call to a
\* provider ends: answered, failed, or cut off by the adapter's own timeout.
FairSpec == Spec /\ \A r \in Requests : WF_vars(Progress(r))
-----------------------------------------------------------------------------
(* Properties.                                                             *)

Holders(s) == {r \in Requests : lease[r] /\ target[r] = s}

HolderAgrees(s) ==
    /\ writer[s] # NoOwner => Holders(s) # {}
    /\ \A r \in Holders(s) : writer[s] = OwnerOf[r]
    /\ \A r1, r2 \in Holders(s) : r1 = r2

\* The registry knows a writer by the name of its socket only.  The name is
\* set exactly while one request, one of that socket, holds a lease nobody
\* has released: no lease is lost, none is doubled, and none belongs to a
\* request that was refused (claimWriter and release).
WriterIsTheHolder == \A s \in Sessions : HolderAgrees(s)

\* A snapshot poll, a listing or another phone's request never makes a
\* session look free while a turn of ours writes it (reconcileSnapshot and
\* registerOrGet run during turns).
LeasedLooksTaken ==
    \A s \in Sessions : writer[s] # NoOwner => state[s] \in {"busy", "host_offline"}

\* startTurn talks to the provider only under a lease, up to the last event
\* of a failed turn, and a request that is over holds none (try/finally).
LeaseCoversTurn ==
    \A r \in Requests :
      /\ kind[r] = "turn" /\ pc[r] \in Driving => lease[r]
      /\ lease[r] => pc[r] \in Driving

Holder == [s \in Sessions |-> IF Holders(s) = {} THEN NoRequest
                              ELSE CHOOSE r \in Requests : r \in Holders(s)]

Lock == INSTANCE SingleWriter
          WITH Turns <- Requests, NoTurn <- NoRequest, holder <- Holder

\* The owner names implement a lock on each session held by one request at a
\* time, also when two requests come from one socket and share its name.
RefinesSingleWriter == Lock!Spec

\* Once a provider was unreachable its sessions take no turn until a fresh
\* snapshot of the session was read: neither the end of a turn, nor a list
\* that works again, nor a claim brings the session back.
OfflineUntilSnapshot ==
    [][\A s \in Sessions :
         state[s] = "host_offline" /\ state'[s] # "host_offline"
           => \E r \in Requests : target[r] = s /\ pc[r] = "apply"
                                  /\ last'[r].type = "session.snapshot"]_vars

\* The lease of a session ends in the step that produces the last event of
\* the turn that held it, and that event does not call the session busy.
LeaseEndsWithItsTurn ==
    [][\A s \in Sessions :
         writer[s] # NoOwner /\ writer'[s] # writer[s]
           => /\ state'[s] # "busy"
              /\ \E r \in Holders(s) : pc'[r] = "done"
                                       /\ last'[r].type = "session.state"
                                       /\ last'[r].ref = s]_vars

\* No number of a session is taken without an event that carries it, whatever
\* the requests do at the same time, listings that fail included.
NoSequenceGap ==
    [][\A s \in Sessions :
         sequence'[s] # sequence[s]
           => /\ sequence'[s] = sequence[s] + 1
              /\ \E r \in Requests : /\ last'[r] # last[r]
                                     /\ last'[r].ref = s
                                     /\ last'[r].seq = sequence'[s]]_vars

\* Every request that reached the gateway ends, whoever hung up meanwhile.
RequestsEnd == \A r \in Requests : pc[r] # "unsent" ~> pc[r] = "done"

\* No session stays locked: the lease of a phone that went away is given
\* back when its turn is over.
WriterGone == \A s \in Sessions : writer[s] # NoOwner ~> writer[s] = NoOwner

\* The registry's promise of one writer, read for turns instead of leases:
\* at most one request drives a provider turn on a session.  startNewSession
\* breaks it: a refused claim does not stop its turn.
OneTurnPerSession ==
    \A s \in Sessions :
      Cardinality({r \in Requests : pc[r] \in Driving /\ target[r] = s}) <= 1

\* The design: a session with a turn of the IDE in progress is reported busy
\* and gets no second writer.  claimWriter does not look at "busy".
BusyIsViewOnly ==
    [][\A s \in Sessions :
         state[s] = "busy" /\ writer[s] = NoOwner => writer'[s] = NoOwner]_vars
=============================================================================
