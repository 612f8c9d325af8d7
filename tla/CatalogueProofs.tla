-------------------------- MODULE CatalogueProofs ---------------------------
(***************************************************************************)
(* The safety properties of Catalogue, for any numbers of servers, readers *)
(* and editors, any TTL and any statuses asked for.                        *)
(*                                                                         *)
(* Two invariants: LoadInv ties every load to the entry of its server in   *)
(* inFlight, and CopyInv follows an old status from a reader to the cache. *)
(***************************************************************************)
EXTENDS Catalogue, TLAPS

Get == [pc : {"idle", "get", "miss", "wait", "load", "set"},
        server : Servers \cup {None}, status : Status \cup {NoEvent}]

Loads(r) == get[r].pc \in {"load", "set"}

\* A reader that loads, or waits for a load, is known to the coalescer.
ReaderOK(r) ==
  /\ get[r].pc # "idle" => get[r].server \in Servers
  /\ Loads(r) => flight[get[r].server] = r
  /\ get[r].pc = "wait" => flight[get[r].server] # None
  /\ get[r].pc = "set" => get[r].status # NoEvent

FlightOK(s) == flight[s] # None => Loads(flight[s]) /\ get[flight[s]].server = s

LoadInv ==
  /\ flight \in [Servers -> Readers \cup {None}]
  /\ get \in [Readers -> Get]
  /\ \A r \in Readers : ReaderOK(r)
  /\ \A s \in Servers : FlightOK(s)

\* A step by which reader r goes on, and neither starts nor ends a load.
LEMMA ReaderLoadInv ==
  ASSUME LoadInv, NEW r \in Readers, NEW new \in Get, get' = [get EXCEPT ![r] = new],
         flight' = flight,
         new.pc # "idle" => new.server \in Servers,
         new.pc = "wait" => flight[new.server] # None,
         \/ ~Loads(r) /\ new.pc \notin {"load", "set"}
         \/ Loads(r) /\ new.pc \in {"load", "set"} /\ new.server = get[r].server
                     /\ new.status # NoEvent
  PROVE  LoadInv'
  <1>1. get' \in [Readers -> Get]
    BY DEF LoadInv
  <1>2. ASSUME NEW q \in Readers PROVE ReaderOK(q)'
    BY DEF LoadInv, ReaderOK, Loads
  <1>3. ASSUME NEW s \in Servers PROVE FlightOK(s)'
    BY CatalogueAssumption DEF LoadInv, FlightOK, Loads
  <1> QED
    BY <1>1, <1>2, <1>3 DEF LoadInv

\* Settle ends a load, and answers.
LEMMA SettleLoadInv ==
  ASSUME LoadInv, NEW r \in Readers, Loads(r), Settle(r)
  PROVE  LoadInv' /\ \A q \in Readers : get'[q] \in {get[q], NoGet}
  <1> DEFINE s == get[r].server
  <1>1. s \in Servers /\ flight[s] = r
    BY DEF LoadInv, ReaderOK, Loads
  <1>2. NoGet \in Get /\ NoGet.pc = "idle"
    BY DEF NoGet, Get
  <1>3. \A q \in Readers :
          get'[q] = IF q = r \/ (get[q].pc = "wait" /\ get[q].server = s) THEN NoGet ELSE get[q]
    BY DEF Settle
  <1>4. get' \in [Readers -> Get] /\ flight' \in [Servers -> Readers \cup {None}]
    BY <1>2 DEF LoadInv, Settle
  <1>5. \A t \in Servers : flight'[t] = IF t = s THEN None ELSE flight[t]
    BY DEF LoadInv, Settle
  <1> HIDE DEF s
  <1>6. ASSUME NEW q \in Readers PROVE ReaderOK(q)'
    BY <1>1, <1>2, <1>3, <1>5 DEF LoadInv, ReaderOK, Loads
  <1>7. ASSUME NEW t \in Servers PROVE FlightOK(t)'
    BY <1>1, <1>3, <1>5 DEF LoadInv, FlightOK, Loads, s
  <1> QED
    BY <1>3, <1>4, <1>6, <1>7 DEF LoadInv

\* A crash takes the requests of a server with its coalescer.
LEMMA CrashLoadInv ==
  ASSUME LoadInv, NEW s \in Servers, Crash(s)
  PROVE  LoadInv' /\ \A q \in Readers : get'[q] \in {get[q], NoGet}
  <1>1. NoGet \in Get /\ NoGet.pc = "idle"
    BY DEF NoGet, Get
  <1>2. \A q \in Readers : get'[q] = IF get[q].server = s THEN NoGet ELSE get[q]
    BY DEF Crash
  <1>3. get' \in [Readers -> Get] /\ flight' \in [Servers -> Readers \cup {None}]
    BY <1>1 DEF LoadInv, Crash
  <1>4. \A t \in Servers : flight'[t] = IF t = s THEN None ELSE flight[t]
    BY DEF LoadInv, Crash
  <1>5. ASSUME NEW q \in Readers PROVE ReaderOK(q)'
    BY <1>1, <1>2, <1>4 DEF LoadInv, ReaderOK, Loads
  <1>6. ASSUME NEW t \in Servers PROVE FlightOK(t)'
    BY <1>2, <1>4 DEF LoadInv, FlightOK, Loads
  <1> QED
    BY <1>2, <1>3, <1>5, <1>6 DEF LoadInv

\* A miss that finds no load in flight starts one.
LEMMA CoalesceLoadInv == ASSUME LoadInv, NEW r \in Readers, Coalesce(r) PROVE LoadInv'
  <1> DEFINE s == get[r].server
  <1>0. get[r] \in Get /\ s \in Servers /\ ~Loads(r) /\ get \in [Readers -> Get]
    BY DEF Coalesce, LoadInv, ReaderOK, Loads
  <1>1. CASE flight[s] # None
    <2> DEFINE new == [get[r] EXCEPT !.pc = "wait"]
    <2>1. get' = [get EXCEPT ![r] = new] /\ flight' = flight
      BY <1>1 DEF Coalesce
    <2>2. new \in Get /\ new.pc = "wait" /\ new.server = s
      BY <1>0 DEF Get
    <2> HIDE DEF new, s
    <2> QED
      BY <1>0, <1>1, <2>1, <2>2, ReaderLoadInv
  <1>2. CASE flight[s] = None
    <2> DEFINE new == [get[r] EXCEPT !.pc = "load"]
    <2>1. get' = [get EXCEPT ![r] = new] /\ flight' = [flight EXCEPT ![s] = r]
      BY <1>2 DEF Coalesce
    <2>2. new \in Get /\ new.pc = "load" /\ new.server = s
      BY <1>0 DEF Get
    <2> HIDE DEF new
    <2>3. get' \in [Readers -> Get] /\ flight' \in [Servers -> Readers \cup {None}]
      BY <1>0, <2>1, <2>2 DEF LoadInv
    <2>4. ASSUME NEW q \in Readers PROVE ReaderOK(q)'
      BY <1>0, <1>2, <2>1, <2>2, CatalogueAssumption DEF LoadInv, ReaderOK, Loads
    <2>5. ASSUME NEW t \in Servers PROVE FlightOK(t)'
      BY <1>0, <1>2, <2>1, <2>2 DEF LoadInv, FlightOK, Loads
    <2> QED
      BY <2>3, <2>4, <2>5 DEF LoadInv
  <1> QED
    BY <1>1, <1>2

\* Under LoadInv there is one load per server.
LEMMA LoadInvOneLoad == LoadInv => OneLoadAtATime
  <1> SUFFICES ASSUME LoadInv PROVE OneLoadAtATime
    OBVIOUS
  <1>1. ASSUME NEW r \in Readers, NEW q \in Readers, Loads(r), Loads(q),
               get[r].server = get[q].server
        PROVE  r = q
    BY <1>1 DEF LoadInv, ReaderOK
  <1>2. ASSUME NEW r \in Readers, get[r].pc = "wait"
        PROVE  \E q \in Readers : Loads(q) /\ get[q].server = get[r].server
    BY <1>2 DEF LoadInv, ReaderOK, FlightOK
  <1> QED
    BY <1>1, <1>2 DEF OneLoadAtATime, Loads

-----------------------------------------------------------------------------
(* The copies.                                                             *)

Patch == [pc : {"idle", "find", "update", "del"}, target : Status \cup {NoEvent}]

CopyTypes ==
  /\ event \in [status : Status \cup {NoEvent}, types : BOOLEAN]
  /\ cache \in [status : Status \cup {NoEvent}, left : 0 .. TTL]
  /\ cache.left = 0 <=> cache.status = NoEvent
  /\ patch \in [Editors -> Patch]
  /\ doubt \in BOOLEAN

\* No operation leads to ENDED, so findById returns the status of the row.
StatusInv ==
  /\ event.status # "ENDED"
  /\ event.status = NoEvent => cache.status = NoEvent /\ \A r \in Readers : get[r].pc # "set"
  /\ \A e \in Editors : patch[e].pc = "update" =>
       patch[e].target \in {"SCHEDULED", "LIVE", "CANCELLED"}

CopyInv ==
  /\ CopyTypes
  /\ StatusInv
  /\ OldCopyIn(Readers) => doubt
  /\ OldCopyIsExplained

\* A step of the readers: who is about to store a copy was so before, or has
\* just read the row.
LEMMA ReaderCopyInv ==
  ASSUME CopyInv, UNCHANGED <<event, cache, patch, doubt>>,
         \A q \in Readers : get'[q].pc = "set" =>
           \/ get[q].pc = "set" /\ get'[q].status = get[q].status
           \/ event.status # NoEvent /\ get'[q].status = event.status
  PROVE  CopyInv'
  <1>1. CopyTypes' /\ OldCopyIsExplained'
    BY DEF CopyInv, CopyTypes, OldCopyIsExplained
  <1>2. StatusInv'
    BY DEF CopyInv, StatusInv
  <1>3. OldCopyIn(Readers)' => doubt'
    BY DEF CopyInv, OldCopyIn
  <1> QED
    BY <1>1, <1>2, <1>3 DEF CopyInv

\* The requests of readers.
LEMMA ReaderInv ==
  ASSUME LoadInv, CopyInv, NEW r \in Readers,
         \/ \E s \in Servers : StartGet(r, s)
         \/ GetStep(r) \/ CacheGetFails(r) \/ LoadFails(r) \/ CacheSetFails(r)
  PROVE  LoadInv' /\ CopyInv'
  <1>0. /\ get \in [Readers -> Get] /\ get[r] \in Get /\ ReaderOK(r)
        /\ NoGet \in Get /\ NoGet.pc = "idle"
    BY DEF LoadInv, NoGet, Get
  <1>1. ASSUME NEW new \in Get, get' = [get EXCEPT ![r] = new], ~Loads(r),
               UNCHANGED <<event, cache, flight, patch, doubt>>,
               new.pc \in {"idle", "get", "miss"}, new.pc # "idle" => new.server \in Servers
        PROVE  LoadInv' /\ CopyInv'
    <2>1. LoadInv'
      BY <1>1, ReaderLoadInv
    <2>2. \A q \in Readers : get'[q].pc = "set" => get'[q] = get[q]
      BY <1>0, <1>1
    <2> QED
      BY <1>1, <2>1, <2>2, ReaderCopyInv
  <1>2. ASSUME Loads(r), Settle(r), UNCHANGED <<event, cache, patch, doubt>>
        PROVE  LoadInv' /\ CopyInv'
    <2>1. LoadInv' /\ \A q \in Readers : get'[q] \in {get[q], NoGet}
      BY <1>2, SettleLoadInv
    <2> QED
      BY <1>0, <1>2, <2>1, ReaderCopyInv
  <1>3. ASSUME NEW s \in Servers, StartGet(r, s) PROVE LoadInv' /\ CopyInv'
    <2> DEFINE new == [pc |-> "get", server |-> s, status |-> NoEvent]
    <2>1. new \in Get /\ new.pc = "get" /\ new.server = s
      BY DEF Get
    <2>2. get' = [get EXCEPT ![r] = new] /\ UNCHANGED <<event, cache, flight, patch, doubt>> /\ ~Loads(r)
      BY <1>3 DEF StartGet, Loads
    <2> HIDE DEF new
    <2> QED
      BY <1>1, <2>1, <2>2
  <1>4. CASE CacheGet(r) \/ CacheGetFails(r)
    <2> DEFINE new == [get[r] EXCEPT !.pc = "miss"]
    <2>1. new \in Get /\ new.pc = "miss" /\ new.server = get[r].server
      BY <1>0 DEF Get
    <2>2. /\ get' = [get EXCEPT ![r] = new] \/ get' = [get EXCEPT ![r] = NoGet]
          /\ UNCHANGED <<event, cache, flight, patch, doubt>>
          /\ ~Loads(r) /\ get[r].server \in Servers
      BY <1>0, <1>4 DEF CacheGet, CacheGetFails, Loads, ReaderOK
    <2> HIDE DEF new
    <2> QED
      BY <1>0, <1>1, <2>1, <2>2
  <1>5. CASE Coalesce(r)
    <2>1. UNCHANGED <<event, cache, patch, doubt>>
      BY <1>5 DEF Coalesce
    <2>2. \A q \in Readers : get'[q].pc = "set" => get'[q] = get[q]
      BY <1>0, <1>5 DEF Coalesce, Get
    <2> QED
      BY <1>5, <2>1, <2>2, CoalesceLoadInv, ReaderCopyInv
  <1>6. CASE LoadFails(r) \/ CacheSetFails(r)
    BY <1>2, <1>6 DEF LoadFails, CacheSetFails, Loads
  <1>7. CASE Load(r)
    <2>1. CASE FindById = NoEvent
      BY <1>2, <1>7, <2>1 DEF Load, Loads
    <2>2. CASE FindById # NoEvent
      <3> DEFINE new == [get[r] EXCEPT !.pc = "set", !.status = FindById]
      <3>1. event.status # NoEvent /\ FindById = event.status /\ FindById \in Status
        BY <2>2 DEF FindById, Rebuilt, CopyInv, CopyTypes, StatusInv, Status, NoEvent
      <3>2. new \in Get /\ new.pc = "set" /\ new.server = get[r].server /\ new.status = event.status
        BY <1>0, <3>1 DEF Get
      <3>3. /\ get' = [get EXCEPT ![r] = new] /\ flight' = flight
            /\ UNCHANGED <<event, cache, patch, doubt>> /\ Loads(r)
        BY <1>7, <2>2 DEF Load, Loads
      <3>4. get[r].server \in Servers
        BY <1>0, <1>7 DEF ReaderOK, Load
      <3> HIDE DEF new
      <3>5. LoadInv'
        BY <3>1, <3>2, <3>3, <3>4, ReaderLoadInv
      <3>6. \A q \in Readers : get'[q] = get[q] \/ get'[q].status = event.status
        BY <1>0, <3>2, <3>3
      <3> QED
        BY <3>1, <3>3, <3>5, <3>6, ReaderCopyInv
    <2> QED
      BY <2>1, <2>2
  <1>8. CASE CacheSet(r)
    <2>1. LoadInv' /\ \A q \in Readers : get'[q] \in {get[q], NoGet}
      BY <1>8, SettleLoadInv DEF CacheSet, Loads
    <2>2. get[r].status \in Status /\ get[r].status # NoEvent /\ event.status # NoEvent
      BY <1>0, <1>8 DEF CacheSet, ReaderOK, Get, CopyInv, StatusInv
    <2>3. UNCHANGED <<event, patch>> /\ cache' = [status |-> get[r].status, left |-> TTL]
      BY <1>8 DEF CacheSet
    <2>4. doubt \in BOOLEAN /\ doubt' \in {OldCopyIn(Readers), doubt}
      BY <1>8 DEF CacheSet, CopyInv, CopyTypes
    <2>5. OldCopyIn(Readers) \in BOOLEAN
      BY DEF OldCopyIn
    <2>6. doubt' \in BOOLEAN
      BY <2>4, <2>5
    <2>7. CopyTypes'
      BY <2>2, <2>3, <2>6, CatalogueAssumption DEF CopyInv, CopyTypes
    <2>8. StatusInv'
      BY <1>0, <2>1, <2>2, <2>3 DEF CopyInv, StatusInv
    <2>9. OldCopyIn(Readers)' => OldCopyIn(Readers)
      BY <1>0, <2>1, <2>3 DEF OldCopyIn
    <2>10. OldCopyIn(Readers)' => doubt'
      BY <1>8, <2>9 DEF CacheSet, CopyInv
    <2>11. ASSUME get[r].status # event.status PROVE doubt'
      BY <1>8, <2>11 DEF CacheSet, CopyInv, OldCopyIn
    <2>12. OldCopyIsExplained'
      BY <2>3, <2>11 DEF OldCopyIsExplained
    <2> QED
      BY <2>1, <2>7, <2>8, <2>10, <2>12 DEF CopyInv
  <1> QED
    BY <1>3, <1>4, <1>5, <1>6, <1>7, <1>8 DEF GetStep

\* A step of editor e that keeps the row and the cache.
LEMMA EditorCopyInv ==
  ASSUME CopyInv, NEW e \in Editors, NEW new \in Patch, patch' = [patch EXCEPT ![e] = new],
         UNCHANGED <<event, cache, get>>, doubt' \in BOOLEAN, doubt => doubt',
         patch[e].pc = "del" => doubt',
         new.pc = "update" => new.target \in {"SCHEDULED", "LIVE", "CANCELLED"}
  PROVE  CopyInv'
  <1>1. CopyTypes' /\ StatusInv'
    BY DEF CopyInv, CopyTypes, StatusInv
  <1>2. OldCopyIn(Readers)' => doubt'
    BY DEF CopyInv, OldCopyIn
  <1>3. OldCopyIsExplained'
    BY DEF CopyInv, CopyTypes, OldCopyIsExplained
  <1> QED
    BY <1>1, <1>2, <1>3 DEF CopyInv

\* The cache loses its copy.
LEMMA AbsentCopyInv ==
  ASSUME CopyInv, cache' = Absent, UNCHANGED <<event, get>>, patch' \in [Editors -> Patch],
         \A e \in Editors : patch'[e].pc = "update" => patch'[e] = patch[e],
         doubt' = OldCopyIn(Readers)
  PROVE  CopyInv'
  <1>1. CopyTypes'
    BY CatalogueAssumption DEF CopyInv, CopyTypes, Absent, OldCopyIn
  <1>2. StatusInv'
    BY DEF CopyInv, StatusInv, Absent
  <1>3. OldCopyIn(Readers)' => doubt'
    BY DEF OldCopyIn
  <1>4. OldCopyIsExplained'
    BY DEF OldCopyIsExplained, Absent
  <1> QED
    BY <1>1, <1>2, <1>3, <1>4 DEF CopyInv

\* The requests of editors.
LEMMA EditorInv ==
  ASSUME CopyInv, NEW e \in Editors,
         \/ \E target \in Targets : StartPatch(e, target)
         \/ PatchStep(e) \/ UpdateUnacknowledged(e) \/ PatchCut(e)
  PROVE  CopyInv'
  <1>0. /\ patch \in [Editors -> Patch] /\ patch[e] \in Patch /\ doubt \in BOOLEAN
        /\ NoPatch \in Patch /\ NoPatch.pc = "idle"
    BY DEF CopyInv, CopyTypes, NoPatch, Patch
  <1>1. ASSUME NEW target \in Targets, StartPatch(e, target) PROVE CopyInv'
    <2> DEFINE new == [pc |-> "find", target |-> target]
    <2>1. new \in Patch /\ new.pc = "find"
      BY CatalogueAssumption DEF Patch
    <2>2. patch' = [patch EXCEPT ![e] = new] /\ UNCHANGED <<event, cache, get, doubt>> /\ patch[e].pc = "idle"
      BY <1>1 DEF StartPatch
    <2> HIDE DEF new
    <2> QED
      BY <1>0, <2>1, <2>2, EditorCopyInv
  <1>2. CASE Find(e)
    <2> DEFINE new(label) == [patch[e] EXCEPT !.pc = label]
    <2>1. \A label \in {"del", "update"} :
            new(label) \in Patch /\ new(label).pc = label /\ new(label).target = patch[e].target
      BY <1>0 DEF Patch
    <2>2. /\ UNCHANGED <<event, cache, get, doubt>> /\ patch[e].pc = "find"
          /\ \/ patch' = [patch EXCEPT ![e] = NoPatch]
             \/ patch' = [patch EXCEPT ![e] = new("del")]
             \/ /\ patch' = [patch EXCEPT ![e] = new("update")]
                /\ CanMove(FindById, patch[e].target, event.types)
      BY <1>2 DEF Find, Answered, Continue
    <2>3. CanMove(FindById, patch[e].target, event.types)
            => patch[e].target \in {"SCHEDULED", "LIVE", "CANCELLED"}
      BY DEF CanMove
    <2> HIDE DEF new
    <2> QED
      BY <1>0, <2>1, <2>2, <2>3, EditorCopyInv
  <1>3. CASE Update(e) \/ UpdateUnacknowledged(e)
    <2> DEFINE target == patch[e].target
               old == \E r \in Readers : get[r].pc = "set" /\ get[r].status # target
    <2>1. target \in {"SCHEDULED", "LIVE", "CANCELLED"}
      BY <1>3 DEF Update, UpdateUnacknowledged, CopyInv, StatusInv
    <2>2. /\ event' = [event EXCEPT !.status = target] /\ UNCHANGED <<cache, get>>
          /\ doubt' \in BOOLEAN /\ (old => doubt')
          /\ doubt' \/ patch' = [patch EXCEPT ![e].pc = "del"]
          /\ \/ patch' = [patch EXCEPT ![e].pc = "del"]
             \/ patch' = [patch EXCEPT ![e] = NoPatch]
      BY <1>0, <1>3 DEF Update, UpdateUnacknowledged, Continue, Answered
    <2>3. /\ patch' \in [Editors -> Patch]
          /\ \A f \in Editors : patch'[f].pc = "update" => patch'[f] = patch[f]
      BY <1>0, <2>2 DEF Patch
    <2>4. event' \in [status : Status \cup {NoEvent}, types : BOOLEAN] /\ event'.status = target
      BY <2>1, <2>2 DEF CopyInv, CopyTypes, Status
    <2>5. CopyTypes'
      BY <2>2, <2>3, <2>4 DEF CopyInv, CopyTypes
    <2>6. StatusInv'
      BY <2>1, <2>2, <2>3, <2>4 DEF CopyInv, StatusInv, NoEvent
    <2>7. OldCopyIn(Readers)' => doubt'
      BY <2>2, <2>4 DEF OldCopyIn
    <2>8. doubt' \/ patch'[e].pc = "del"
      BY <1>0, <2>2 DEF Patch
    <2>9. OldCopyIsExplained'
      BY <2>8 DEF OldCopyIsExplained
    <2> QED
      BY <2>5, <2>6, <2>7, <2>9 DEF CopyInv
  <1>4. CASE CacheDel(e)
    <2>1. /\ patch' \in [Editors -> Patch]
          /\ \A f \in Editors : patch'[f].pc = "update" => patch'[f] = patch[f]
      BY <1>0, <1>4 DEF CacheDel, Answered
    <2> QED
      BY <1>4, <2>1, AbsentCopyInv DEF CacheDel
  <1>5. CASE PatchCut(e)
    BY <1>0, <1>5, EditorCopyInv DEF PatchCut, Answered
  <1> QED
    BY <1>1, <1>2, <1>3, <1>4, <1>5 DEF PatchStep

-----------------------------------------------------------------------------
(* The theorems.                                                           *)

LEMMA InitInv == Init => LoadInv /\ CopyInv
  <1> SUFFICES ASSUME Init PROVE LoadInv /\ CopyInv
    OBVIOUS
  <1> USE DEF Init, NoGet, NoPatch, Absent
  <1>1. LoadInv
    BY DEF LoadInv, Get, ReaderOK, FlightOK, Loads
  <1>2. StatusInv
    BY DEF StatusInv, NoEvent
  <1>3. cache \in [status : Status \cup {NoEvent}, left : 0 .. TTL] /\ cache.left = 0
    BY CatalogueAssumption
  <1>4. patch \in [Editors -> Patch] /\ doubt \in BOOLEAN
    BY DEF Patch
  <1>5. CopyTypes
    BY <1>3, <1>4 DEF CopyTypes
  <1>6. ~OldCopyIn(Readers) /\ OldCopyIsExplained
    BY DEF OldCopyIn, OldCopyIsExplained
  <1> QED
    BY <1>1, <1>2, <1>5, <1>6 DEF CopyInv

\* Who leaves the requests of readers alone keeps LoadInv.
LEMMA SameLoads == LoadInv /\ UNCHANGED <<get, flight>> => LoadInv'
  BY DEF LoadInv, ReaderOK, FlightOK, Loads

LEMMA NextInv == ASSUME LoadInv, CopyInv, [Next]_vars PROVE LoadInv' /\ CopyInv'
  <1>1. ASSUME NEW types \in BOOLEAN, Create(types) PROVE LoadInv' /\ CopyInv'
    <2>1. /\ event.status = NoEvent /\ event' = [status |-> "DRAFT", types |-> types]
          /\ UNCHANGED <<cache, flight, get, patch, doubt>>
      BY <1>1 DEF Create, Save
    <2>2. cache.status = NoEvent /\ \A r \in Readers : get[r].pc # "set"
      BY <2>1 DEF CopyInv, StatusInv
    <2>3. CopyTypes' /\ StatusInv'
      BY <2>1 DEF CopyInv, CopyTypes, StatusInv, Status, NoEvent
    <2>4. OldCopyIsExplained' /\ ~OldCopyIn(Readers)'
      BY <2>1, <2>2 DEF OldCopyIsExplained, OldCopyIn
    <2> QED
      BY <2>1, <2>3, <2>4, SameLoads DEF CopyInv
  <1>2. ASSUME NEW r \in Readers,
               \/ \E s \in Servers : StartGet(r, s)
               \/ GetStep(r) \/ CacheGetFails(r) \/ LoadFails(r) \/ CacheSetFails(r)
        PROVE  LoadInv' /\ CopyInv'
    BY <1>2, ReaderInv
  <1>3. ASSUME NEW e \in Editors,
               \/ \E target \in Targets : StartPatch(e, target)
               \/ PatchStep(e) \/ UpdateUnacknowledged(e) \/ PatchCut(e)
        PROVE  LoadInv' /\ CopyInv'
    <2>1. UNCHANGED <<get, flight>>
      BY <1>3 DEF StartPatch, PatchStep, Find, Update, CacheDel, UpdateUnacknowledged, PatchCut
    <2> QED
      BY <1>3, <2>1, EditorInv, SameLoads
  <1>4. CASE Tick
    <2>1. CASE cache.left > 1
      <3>1. /\ cache' = [cache EXCEPT !.left = @ - 1]
            /\ UNCHANGED <<event, flight, get, patch, doubt>>
        BY <1>4, <2>1 DEF Tick
      <3>2. /\ cache' \in [status : Status \cup {NoEvent}, left : 0 .. TTL]
            /\ cache'.status = cache.status /\ cache'.left # 0 /\ cache.left # 0
        BY <2>1, <3>1, CatalogueAssumption DEF CopyInv, CopyTypes
      <3>3. CopyTypes' /\ StatusInv'
        BY <3>1, <3>2 DEF CopyInv, CopyTypes, StatusInv
      <3>4. OldCopyIsExplained' /\ (OldCopyIn(Readers)' => doubt')
        BY <3>1, <3>2 DEF CopyInv, OldCopyIsExplained, OldCopyIn
      <3> QED
        BY <3>1, <3>3, <3>4, SameLoads DEF CopyInv
    <2>2. CASE ~(cache.left > 1)
      BY <1>4, <2>2, AbsentCopyInv, SameLoads DEF Tick, CopyInv, CopyTypes
    <2> QED
      BY <2>1, <2>2
  <1>5. ASSUME NEW s \in Servers, Crash(s) PROVE LoadInv' /\ CopyInv'
    <2>1. LoadInv' /\ \A q \in Readers : get'[q] \in {get[q], NoGet}
      BY <1>5, CrashLoadInv
    <2> QED
      BY <1>5, <2>1, ReaderCopyInv DEF Crash, NoGet
  <1>6. CASE UNCHANGED vars
    BY <1>6, SameLoads, ReaderCopyInv DEF vars
  <1> QED
    BY <1>1, <1>2, <1>3, <1>4, <1>5, <1>6 DEF Next

LEMMA Invariance == Spec => [](LoadInv /\ CopyInv)
  <1>1. LoadInv /\ CopyInv /\ [Next]_vars => LoadInv' /\ CopyInv'
    BY NextInv
  <1> QED
    BY InitInv, <1>1, PTL DEF Spec

\* The row, the copy and the requests stay well formed; a copy in the cache
\* always has a time to live.
THEOREM WellFormed == Spec => []TypeOK
  <1>1. LoadInv /\ CopyInv => TypeOK
    BY DEF LoadInv, CopyInv, CopyTypes, TypeOK, Get, Patch
  <1> QED
    BY Invariance, <1>1, PTL

\* A server never loads the event twice at a time, and nobody waits for a load
\* that is not there (RequestCoalescer.do), whoever crashes.
THEOREM OneLoad == Spec => []OneLoadAtATime
  BY Invariance, LoadInvOneLoad, PTL

\* The ways listed by OldCopyIsExplained are all the ways in which an old
\* status gets into the cache or stays there.
THEOREM OldCopies == Spec => []OldCopyIsExplained
  <1>1. CopyInv => OldCopyIsExplained
    BY DEF CopyInv
  <1> QED
    BY Invariance, <1>1, PTL

\* A cancelled event stays cancelled once no PATCH is left that read it before:
\* schedule, publish and cancel refuse it, and findById gives its status back.
THEOREM CancellationIsFinal == Spec => CancellationSettles
  <1>1. ASSUME CopyInv, [Next]_vars, CancelledForGood PROVE CancelledForGood'
    <2>0. /\ event.status = "CANCELLED" /\ patch \in [Editors -> Patch]
          /\ \A f \in Editors : patch[f].pc # "update"
      BY <1>1 DEF CancelledForGood, CopyInv, CopyTypes
    <2>1. ASSUME event' = event, patch' = patch PROVE CancelledForGood'
      BY <2>0, <2>1 DEF CancelledForGood
    <2>2. ASSUME NEW e \in Editors, event' = event,
                 NEW new, patch' = [patch EXCEPT ![e] = new], new.pc # "update"
          PROVE  CancelledForGood'
      BY <2>0, <2>2 DEF CancelledForGood
    <2>3. ASSUME NEW e \in Editors, Find(e) PROVE CancelledForGood'
      <3>1. FindById = "CANCELLED"
        BY <2>0 DEF FindById, Rebuilt, NoEvent
      <3>2. ~CanMove(FindById, patch[e].target, event.types)
        BY <3>1 DEF CanMove
      <3>3. \/ patch' = [patch EXCEPT ![e] = NoPatch]
            \/ patch' = [patch EXCEPT ![e] = [patch[e] EXCEPT !.pc = "del"]]
        BY <2>3, <3>2 DEF Find, Answered, Continue
      <3>4. NoPatch.pc # "update" /\ [patch[e] EXCEPT !.pc = "del"].pc # "update"
        BY <2>0 DEF NoPatch, Patch
      <3> QED
        BY <2>2, <2>3, <3>3, <3>4 DEF Find
    <2>4. ASSUME NEW e \in Editors, CacheDel(e) \/ PatchCut(e) PROVE CancelledForGood'
      <3>1. NoPatch.pc # "update"
        BY DEF NoPatch
      <3>2. patch' = [patch EXCEPT ![e] = NoPatch] /\ event' = event
        BY <2>4 DEF CacheDel, PatchCut, Answered
      <3> QED
        BY <2>2, <3>1, <3>2
    <2>5. ASSUME NEW e \in Editors, NEW target \in Targets, StartPatch(e, target)
          PROVE  CancelledForGood'
      <3> DEFINE new == [pc |-> "find", target |-> target]
      <3>1. new.pc # "update"
        OBVIOUS
      <3>2. patch' = [patch EXCEPT ![e] = new] /\ event' = event
        BY <2>5 DEF StartPatch
      <3> HIDE DEF new
      <3> QED
        BY <2>2, <3>1, <3>2
    <2>6. ASSUME NEW e \in Editors, Update(e) \/ UpdateUnacknowledged(e) PROVE FALSE
      BY <2>0, <2>6 DEF Update, UpdateUnacknowledged
    <2>7. ASSUME NEW types \in BOOLEAN, Create(types) PROVE FALSE
      BY <2>0, <2>7 DEF Create, NoEvent
    <2>8. ASSUME NEW r \in Readers,
                 \/ \E s \in Servers : StartGet(r, s)
                 \/ GetStep(r) \/ CacheGetFails(r) \/ LoadFails(r) \/ CacheSetFails(r)
          PROVE  event' = event /\ patch' = patch
      BY <2>8 DEF StartGet, GetStep, CacheGet, Coalesce, Load, CacheSet, CacheGetFails,
         LoadFails, CacheSetFails
    <2>9. ASSUME Tick \/ (\E s \in Servers : Crash(s)) \/ UNCHANGED vars
          PROVE  event' = event /\ patch' = patch
      BY <2>9 DEF Tick, Crash, vars
    <2> QED
      BY <1>1, <2>1, <2>3, <2>4, <2>5, <2>6, <2>7, <2>8, <2>9 DEF Next, PatchStep
  <1>2. CopyInv /\ [Next]_vars => [CancelledForGood => CancelledForGood']_vars
    BY <1>1
  <1> QED
    BY Invariance, <1>2, PTL DEF Spec, CancellationSettles

=============================================================================
