----------------------------- MODULE Catalogue ------------------------------
(***************************************************************************)
(* One event of the catalogue: EventController with its use cases over     *)
(* PostgresEventRepository, the cache in Redis and the RequestCoalescer of *)
(* every server.                                                           *)
(*                                                                         *)
(* Readers are GET requests, editors PATCH requests; each comes back after *)
(* its answer.  Each action is one command of PostgreSQL or Redis with the *)
(* synchronous code that follows its reply.  Of an event only the status   *)
(* changes, so a copy of it is its status.  Redis may fail at any command. *)
(***************************************************************************)
EXTENDS Naturals

CONSTANTS
  Servers,  \* processes, each with a coalescer
  Readers,  \* GET /events/:id
  Editors,  \* PATCH /events/:id/status
  Targets,  \* the statuses editors ask for
  TTL,      \* ttlSeconds of a cached copy, in ticks
  None      \* no reader, no server

Status == {"DRAFT", "SCHEDULED", "LIVE", "ENDED", "CANCELLED"}

ASSUME CatalogueAssumption ==
  TTL \in Nat \ {0} /\ None \notin Readers /\ Targets \subseteq Status

VARIABLES
  event,   \* the row of events, and whether it has ticket types
  cache,   \* the copy in Redis and the ticks it has left
  flight,  \* inFlight: the reader whose load a server shares
  get,     \* the GET requests
  patch,   \* the PATCH requests
  doubt    \* history: a DEL that should have removed an old copy did not

vars == <<event, cache, flight, get, patch, doubt>>

NoEvent == "NONE"

Absent == [status |-> NoEvent, left |-> 0]
NoGet == [pc |-> "idle", server |-> None, status |-> NoEvent]
NoPatch == [pc |-> "idle", target |-> NoEvent]

Init ==
  /\ event = [status |-> NoEvent, types |-> FALSE]
  /\ cache = Absent
  /\ flight = [s \in Servers |-> None]
  /\ get = [r \in Readers |-> NoGet]
  /\ patch = [e \in Editors |-> NoPatch]
  /\ doubt = FALSE

-----------------------------------------------------------------------------
(* Event and its repository.                                               *)

\* schedule, publish and cancel.
CanMove(from, to, types) ==
  \/ to = "SCHEDULED" /\ from = "DRAFT" /\ types
  \/ to = "LIVE" /\ from \in {"DRAFT", "SCHEDULED"} /\ types
  \/ to = "CANCELLED" /\ from \notin {"CANCELLED", "ENDED"}

\* Mutant: the branch for CANCELLED is missing.
RebuiltWithoutCancelled(status) ==
  IF status \in {"SCHEDULED", "LIVE"} THEN status ELSE "DRAFT"

\* findById makes a draft and moves it; it knows no way to ENDED.
Rebuilt(status) ==
  IF status \in {"SCHEDULED", "LIVE", "CANCELLED"} THEN status ELSE "DRAFT"

\* What findById returns at this instant.
FindById == IF event.status = NoEvent THEN NoEvent ELSE Rebuilt(event.status)

\* The transaction of save commits, with the ticket types and their pools.  If it
\* rolls back there is nothing.
Save(types) == event' = [status |-> "DRAFT", types |-> types]

\* POST /events, under an id that is new.
Create(types) ==
  /\ event.status = NoEvent
  /\ Save(types)
  /\ UNCHANGED <<cache, flight, get, patch, doubt>>

-----------------------------------------------------------------------------
(* GET: CachedGetEventByIdUseCase.                                         *)

StartGet(r, s) ==
  /\ get[r].pc = "idle"
  /\ get' = [get EXCEPT ![r] = [pc |-> "get", server |-> s, status |-> NoEvent]]
  /\ UNCHANGED <<event, cache, flight, patch, doubt>>

\* A hit is answered.
CacheGet(r) ==
  /\ get[r].pc = "get"
  /\ get' = [get EXCEPT ![r] =
       IF cache.status # NoEvent THEN NoGet ELSE [@ EXCEPT !.pc = "miss"]]
  /\ UNCHANGED <<event, cache, flight, patch, doubt>>

\* Fail-open: an error is a miss.
CacheGetFails(r) ==
  /\ get[r].pc = "get"
  /\ get' = [get EXCEPT ![r].pc = "miss"]
  /\ UNCHANGED <<event, cache, flight, patch, doubt>>

\* Mutant: without the coalescer.
CoalesceNever(r) ==
  /\ get[r].pc = "miss"
  /\ get' = [get EXCEPT ![r].pc = "load"]
  /\ flight' = [flight EXCEPT ![get[r].server] = r]
  /\ UNCHANGED <<event, cache, patch, doubt>>

\* RequestCoalescer.do: share the load in flight, or start one.
Coalesce(r) ==
  LET s == get[r].server IN
  /\ get[r].pc = "miss"
  /\ IF flight[s] # None
       THEN get' = [get EXCEPT ![r].pc = "wait"] /\ UNCHANGED flight
       ELSE get' = [get EXCEPT ![r].pc = "load"] /\ flight' = [flight EXCEPT ![s] = r]
  /\ UNCHANGED <<event, cache, patch, doubt>>

\* Mutant: those who wait are forgotten.
SettleLeader(r) ==
  /\ flight' = [flight EXCEPT ![get[r].server] = None]
  /\ get' = [get EXCEPT ![r] = NoGet]

\* The promise settles: everybody who shares it is answered, and the next miss
\* loads again.
Settle(r) ==
  LET s == get[r].server IN
  /\ flight' = [flight EXCEPT ![s] = None]
  /\ get' = [q \in Readers |->
       IF q = r \/ (get[q].pc = "wait" /\ get[q].server = s) THEN NoGet ELSE get[q]]

\* An event that is not there is not cached.
Load(r) ==
  /\ get[r].pc = "load"
  /\ IF FindById = NoEvent
       THEN Settle(r)
       ELSE /\ get' = [get EXCEPT ![r].pc = "set", ![r].status = FindById]
            /\ UNCHANGED flight
  /\ UNCHANGED <<event, cache, patch, doubt>>

LoadFails(r) ==
  /\ get[r].pc = "load"
  /\ Settle(r)
  /\ UNCHANGED <<event, cache, patch, doubt>>

\* A load of somebody in R is about to store an old copy.
OldCopyIn(R) == \E q \in R : get[q].pc = "set" /\ get[q].status # event.status

CacheSet(r) ==
  /\ get[r].pc = "set"
  /\ cache' = [status |-> get[r].status, left |-> TTL]
  /\ doubt' = IF get[r].status = event.status THEN OldCopyIn(Readers) ELSE doubt
  /\ Settle(r)
  /\ UNCHANGED <<event, patch>>

CacheSetFails(r) ==
  /\ get[r].pc = "set"
  /\ Settle(r)
  /\ UNCHANGED <<event, cache, patch, doubt>>

-----------------------------------------------------------------------------
(* PATCH: UpdateEventStatusUseCase, then cacheService.del.                 *)

StartPatch(e, target) ==
  /\ patch[e].pc = "idle"
  /\ patch' = [patch EXCEPT ![e] = [pc |-> "find", target |-> target]]
  /\ UNCHANGED <<event, cache, flight, get, doubt>>

Answered(e) == patch' = [patch EXCEPT ![e] = NoPatch]
Continue(e, label) == patch' = [patch EXCEPT ![e].pc = label]

\* 404, the status it has already, an error, or on to the UPDATE.
Find(e) ==
  LET target == patch[e].target IN
  /\ patch[e].pc = "find"
  /\ CASE FindById = NoEvent -> Answered(e)
       [] FindById = target  -> Continue(e, "del")
       [] OTHER -> IF CanMove(FindById, target, event.types)
                     THEN Continue(e, "update") ELSE Answered(e)
  /\ UNCHANGED <<event, cache, flight, get, doubt>>

\* Mutant: the cache is not invalidated.
UpdateOnly(e) ==
  /\ patch[e].pc = "update"
  /\ event' = [event EXCEPT !.status = patch[e].target]
  /\ Answered(e)
  /\ UNCHANGED <<cache, flight, get, doubt>>

\* The UPDATE is by id alone.  A load that read the row before it is one whose
\* copy the DEL to come may miss.
Update(e) ==
  /\ patch[e].pc = "update"
  /\ event' = [event EXCEPT !.status = patch[e].target]
  /\ doubt' = (doubt \/ \E r \in Readers : get[r].pc = "set" /\ get[r].status # patch[e].target)
  /\ Continue(e, "del")
  /\ UNCHANGED <<cache, flight, get>>

\* The acknowledgement of the UPDATE is lost: an error, and no DEL.
UpdateUnacknowledged(e) ==
  /\ patch[e].pc = "update"
  /\ event' = [event EXCEPT !.status = patch[e].target]
  /\ doubt' = TRUE
  /\ Answered(e)
  /\ UNCHANGED <<cache, flight, get>>

CacheDel(e) ==
  /\ patch[e].pc = "del"
  /\ cache' = Absent
  /\ doubt' = OldCopyIn(Readers)
  /\ Answered(e)
  /\ UNCHANGED <<event, flight, get>>

\* A failing DEL is swallowed; a query that fails is a 500; a server that dies
\* answers nothing.  The cache keeps what it has.
PatchCut(e) ==
  /\ patch[e].pc # "idle"
  /\ doubt' = (doubt \/ patch[e].pc = "del")
  /\ Answered(e)
  /\ UNCHANGED <<event, cache, flight, get>>

-----------------------------------------------------------------------------
(* Time, and servers that die.                                             *)

\* Mutant: SET without EX.
TickForNothing ==
  /\ cache.status # NoEvent
  /\ UNCHANGED vars

\* Mutant: the copy outlives its TTL by a tick.
TickOnceMore ==
  /\ cache.status # NoEvent
  /\ IF cache.left > 0
       THEN cache' = [cache EXCEPT !.left = @ - 1] /\ UNCHANGED doubt
       ELSE cache' = Absent /\ doubt' = OldCopyIn(Readers)
  /\ UNCHANGED <<event, flight, get, patch>>

\* A copy comes to the end of its TTL.
Tick ==
  /\ cache.status # NoEvent
  /\ IF cache.left > 1
       THEN cache' = [cache EXCEPT !.left = @ - 1] /\ UNCHANGED doubt
       ELSE cache' = Absent /\ doubt' = OldCopyIn(Readers)
  /\ UNCHANGED <<event, flight, get, patch>>

\* The GET requests of the server and its coalescer are gone.
Crash(s) ==
  /\ get' = [r \in Readers |-> IF get[r].server = s THEN NoGet ELSE get[r]]
  /\ flight' = [flight EXCEPT ![s] = None]
  /\ UNCHANGED <<event, cache, patch, doubt>>

GetStep(r) == CacheGet(r) \/ Coalesce(r) \/ Load(r) \/ CacheSet(r)
PatchStep(e) == Find(e) \/ Update(e) \/ CacheDel(e)

Next ==
  \/ \E types \in BOOLEAN : Create(types)
  \/ \E r \in Readers, s \in Servers : StartGet(r, s)
  \/ \E r \in Readers : GetStep(r) \/ CacheGetFails(r) \/ LoadFails(r) \/ CacheSetFails(r)
  \/ \E e \in Editors, target \in Targets : StartPatch(e, target)
  \/ \E e \in Editors : PatchStep(e) \/ UpdateUnacknowledged(e) \/ PatchCut(e)
  \/ Tick
  \/ \E s \in Servers : Crash(s)

Spec == Init /\ [][Next]_vars

\* Queries and commands are answered, and time passes.  Nobody has to ask.
FairSpec ==
  /\ Spec
  /\ WF_vars(Tick)
  /\ \A r \in Readers : WF_vars(GetStep(r))
  /\ \A e \in Editors : WF_vars(PatchStep(e))

-----------------------------------------------------------------------------
(* Properties.                                                             *)

\* The row, the copy and the requests are well formed.
TypeOK ==
  /\ event \in [status : Status \cup {NoEvent}, types : BOOLEAN]
  /\ cache \in [status : Status \cup {NoEvent}, left : 0 .. TTL]
  /\ cache.left = 0 <=> cache.status = NoEvent
  /\ flight \in [Servers -> Readers \cup {None}]
  /\ get \in [Readers -> [pc : {"idle", "get", "miss", "wait", "load", "set"},
                          server : Servers \cup {None},
                          status : Status \cup {NoEvent}]]
  /\ patch \in [Editors -> [pc : {"idle", "find", "update", "del"},
                            target : Status \cup {NoEvent}]]
  /\ doubt \in BOOLEAN

\* An old copy in the cache has one of four causes: the PATCH is between its
\* UPDATE and its DEL, the DEL or the answer to the UPDATE was lost, or a load
\* read the row before the UPDATE and stored it after the DEL
\* (EventController.ts 103-115, CachedGetEventByIdUseCase.ts 47-49).  Without
\* them a GET never answers an old status.
OldCopyIsExplained ==
  cache.status \notin {NoEvent, event.status} =>
    doubt \/ \E e \in Editors : patch[e].pc = "del"

\* A server loads the event once at a time, and whoever waits for a load waits
\* for one that is under way (RequestCoalescer.ts 16-31).
OneLoadAtATime ==
  /\ \A r, q \in Readers :
       /\ get[r].pc \in {"load", "set"} /\ get[q].pc \in {"load", "set"}
       /\ get[r].server = get[q].server
       => r = q
  /\ \A r \in Readers : get[r].pc = "wait" =>
       \E q \in Readers : get[q].pc \in {"load", "set"} /\ get[q].server = get[r].server

\* The event is cancelled, and no PATCH is about to write what it has decided.
CancelledForGood ==
  event.status = "CANCELLED" /\ \A e \in Editors : patch[e].pc # "update"

\* The UPDATE of the status looks at no version, so a PATCH that read the event
\* before it was cancelled can undo the cancellation.  When no such PATCH is
\* left, the event stays cancelled (Event.ts 49-74, findById 82-88).
CancellationSettles == [][CancelledForGood => CancelledForGood']_vars

\* When the status no longer changes, the cache comes to agree with it for
\* good, whatever was lost or overtaken before: nothing but the TTL ensures it
\* (RedisCacheService.ts 73).
CacheConverges ==
  \A status \in Status :
    <>[](event.status = status) => <>[](cache.status \in {NoEvent, status})

\* Every GET is answered, also one that waits for the load of another.
GetsAreAnswered == \A r \in Readers : get[r].pc # "idle" ~> get[r].pc = "idle"
=============================================================================
