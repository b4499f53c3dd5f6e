------------------------------ MODULE Retention ------------------------------
(***************************************************************************)
(* Retention of one workspace's audit rows: the policy store and the sweep *)
(* (retention.py), the floor under a policy (retention_floor.py) and legal *)
(* holds (legal_hold.py), over the audit log every workspace shares.       *)
(*                                                                         *)
(* A handler runs on the event loop without an await, so it is one step of *)
(* its process.  The policy store and the floor store are cached by each   *)
(* process for its life; holds are re-read when their file has changed.    *)
(* The policy lock is not reentrant: a process that asks for it twice is   *)
(* stuck, event loop and all, until it is restarted.                       *)
(*                                                                         *)
(* Only the audit category is modelled: history, feedback and deliveries   *)
(* are files of their own, swept by the same loop.  A day passes with each *)
(* event handed to write_event, so the day of a row is its event's id.     *)
(***************************************************************************)
EXTENDS AuditLog

CONSTANTS
    Days,           \* audit_days of a policy; 0 keeps for ever
    FloorDays,      \* the values a floor is set to
    HoldIds         \* bound: legal holds

ASSUME RetentionAssumption ==
    /\ Days \subseteq Nat /\ 0 \in Days
    /\ FloorDays \subseteq Nat

VARIABLES
    policy,         \* retention.jsonl: audit_days of each workspace
    policyCache,    \* _CACHE of each process
    stuck,          \* processes that wait for a lock they hold
    floor,          \* retention_floor.jsonl
    floorCache,     \* its _CACHE of each process
    holds,          \* legal_holds.jsonl, replayed: from hold ids to holds
    undated,        \* history: the events written without a time stamp
    asked           \* history: the last policy each workspace was granted

policyVars == <<policy, policyCache, stuck, asked>>
floorVars == <<floor, floorCache>>
retentionVars == <<vars, policyVars, floorVars, holds, undated>>

-----------------------------------------------------------------------------
(* Stores.                                                                 *)

\* _CACHE is None
NotLoaded == [t \in {} |-> 0]

Loaded(store, onDisk) == IF store = NotLoaded THEN onDisk ELSE store

\* Mutant: a released hold frees the workspace, whatever the others say.
OnHold_AllMustStand(t) ==
    /\ \E h \in DOMAIN holds : holds[h].tenant = t
    /\ \A h \in DOMAIN holds : holds[h].tenant = t => holds[h].active

\* is_on_hold
OnHold(t) == \E h \in DOMAIN holds : holds[h].tenant = t /\ holds[h].active

\* assert_policy_meets_floor
MeetsFloor(days, least) == days = 0 \/ days >= least

-----------------------------------------------------------------------------
(* Policies.                                                               *)

\* get_policy: GET /retention, GET /history, an export or a dry run.
GetPolicy(r) ==
    /\ policyCache' = [policyCache EXCEPT ![r] = Loaded(@, policy)]
    /\ UNCHANGED <<vars, policy, stuck, asked, floorVars, holds, undated>>

\* PUT /retention below the floor: 400, the floor is loaded.
RejectPolicy(r, t, days) ==
    /\ ~MeetsFloor(days, Loaded(floorCache[r], floor)[t])
    /\ floorCache' = [floorCache EXCEPT ![r] = Loaded(@, floor)]
    /\ UNCHANGED <<vars, policyVars, floor, holds, undated>>

\* set_policy with nothing cached: the file is rewritten with this record only.
StorePolicy(r, t, days) ==
    /\ policyCache[r] = NotLoaded
    /\ policy' = [u \in Tenants |-> IF u = t THEN days ELSE 0]
    /\ asked' = [asked EXCEPT ![t] = days]
    /\ UNCHANGED <<policyCache, stuck>>

\* set_policy with a cache: _load_all asks for the lock set_policy holds.
BlockOnOwnLock(r) ==
    /\ policyCache[r] # NotLoaded
    /\ stuck' = stuck \cup {r}
    /\ UNCHANGED <<policy, policyCache, asked>>

\* PUT /retention
PutPolicy(r, t, days) ==
    /\ MeetsFloor(days, Loaded(floorCache[r], floor)[t])
    /\ StorePolicy(r, t, days) \/ BlockOnOwnLock(r)
    /\ floorCache' = [floorCache EXCEPT ![r] = Loaded(@, floor)]
    /\ UNCHANGED <<vars, floor, holds, undated>>

-----------------------------------------------------------------------------
(* Floors and holds.                                                       *)

\* Mutant: a floor already cached is not brought up to date.
CachedFloor_Stale(r, t, days) ==
    Loaded(floorCache[r], [floor EXCEPT ![t] = days])

\* set_floor appends, loads if nothing is cached, and sets the cached record.
CachedFloor(r, t, days) ==
    [Loaded(floorCache[r], floor) EXCEPT ![t] = days]

\* write_event, called by the handler itself for its own workspace; it may
\* also give up before it has touched anything, on the directory of the file.
LogOf(r, t) ==
    \/ UNCHANGED vars
    \/ /\ nextId <= MaxEvents
       /\ \/ \E body \in NewBodies :
                 body.tenant = t /\ (Write(r, body) \/ InterruptedAppend(r, body))
          \/ InterruptedRotation

\* PUT /retention-floor
PutFloor(r, t, days) ==
    /\ floor' = [floor EXCEPT ![t] = days]
    /\ floorCache' = [floorCache EXCEPT ![r] = CachedFloor(r, t, days)]
    /\ LogOf(r, t)
    /\ UNCHANGED <<policyVars, holds, undated>>

\* The events of a hold carry no time stamp.
LogHold(r, t) ==
    /\ LogOf(r, t)
    /\ undated' = undated \cup ({nextId} \ {nextId'})
    /\ UNCHANGED <<policyVars, floorVars>>

PlaceHold(r, h, t) ==
    /\ h \notin DOMAIN holds
    /\ holds' = [k \in DOMAIN holds \cup {h} |->
                    IF k = h THEN [tenant |-> t, active |-> TRUE] ELSE holds[k]]
    /\ LogHold(r, t)

\* Only its own workspace finds a hold; a second release is logged again.
ReleaseHold(r, h, t) ==
    /\ h \in DOMAIN holds
    /\ holds[h].tenant = t
    /\ holds' = [holds EXCEPT ![h].active = FALSE]
    /\ LogHold(r, t)

-----------------------------------------------------------------------------
(* The sweep: only the active file, only rows that parse.                  *)

\* Mutant: rows of every workspace are swept.
Outlived_AnyTenant(l, t, cutoff) ==
    Parses(l) /\ l.body.id \notin undated /\ l.body.id < cutoff

\* A row without a time stamp is as good as new.
Outlived(l, t, cutoff) ==
    /\ Parses(l)
    /\ l.body.tenant = t
    /\ l.body.id \notin undated
    /\ l.body.id < cutoff

\* A line that had lost its newline gets one.
Purge(f, t, cutoff) ==
    LET kept == Dropped(f, {i \in 1..Len(f) : Outlived(f[i], t, cutoff)})
    IN  IF EndsOpen(kept) THEN [kept EXCEPT ![Len(kept)].ended = TRUE] ELSE kept

\* A file with nothing to remove is not rewritten.
AfterSweep(t, cutoff) ==
    IF \E i \in 1..Len(Lines(0)) : Outlived(Lines(0)[i], t, cutoff)
    THEN WithActive(files, Purge(Lines(0), t, cutoff))
    ELSE files

\* POST /retention/enforce; 423 on a hold.
Enforce(r, t) ==
    LET days == Loaded(policyCache[r], policy)[t]
    IN  /\ ~OnHold(t)
        /\ policyCache' = [policyCache EXCEPT ![r] = Loaded(@, policy)]
        /\ files' = IF days = 0 THEN files ELSE AfterSweep(t, nextId - days)
        /\ UNCHANGED <<cache, nextId, logged, policy, stuck, asked, floorVars, holds, undated>>

-----------------------------------------------------------------------------

\* A boot: the lifespan drops every cache.
Boot(r) ==
    /\ cache' = [k \in {x \in DOMAIN cache : x[1] # r} |-> cache[k]]
    /\ policyCache' = [policyCache EXCEPT ![r] = NotLoaded]
    /\ floorCache' = [floorCache EXCEPT ![r] = NotLoaded]
    /\ stuck' = stuck \ {r}
    /\ UNCHANGED <<files, nextId, logged, policy, asked, floor, holds, undated>>

LogEvent(r) == Emit(r) /\ UNCHANGED <<policyVars, floorVars, holds, undated>>

Handle(r) ==
    \/ LogEvent(r)
    \/ GetPolicy(r)
    \/ \E t \in Tenants :
        \/ Enforce(r, t)
        \/ \E d \in Days : PutPolicy(r, t, d) \/ RejectPolicy(r, t, d)
        \/ \E d \in FloorDays : PutFloor(r, t, d)
        \/ \E h \in HoldIds : PlaceHold(r, h, t) \/ ReleaseHold(r, h, t)

RetentionInit ==
    /\ Init
    /\ policy = [t \in Tenants |-> 0]
    /\ policyCache = [r \in Replicas |-> NotLoaded]
    /\ stuck = {}
    /\ floor = [t \in Tenants |-> 0]
    /\ floorCache = [r \in Replicas |-> NotLoaded]
    /\ holds = [h \in {} |-> [tenant |-> h, active |-> FALSE]]
    /\ undated = {}
    /\ asked = [t \in Tenants |-> 0]

RetentionNext == \E r \in Replicas : Boot(r) \/ (r \notin stuck /\ Handle(r))

RetentionSpec == RetentionInit /\ [][RetentionNext]_retentionVars

-----------------------------------------------------------------------------
(* Properties.                                                             *)

\* The events a step takes off the disk, if it touches the files at all.
Taken == IF files' = files THEN {} ELSE OnDisk \ OnDisk'

\* What a step other than a write takes away has expired under the policy its
\* own workspace was last granted, and is dated: whatever damaged lines, lost
\* policies and restarts came before it, no sweep takes a row of another
\* workspace, or one that is still to be kept (retention.enforce_policy, "Only
\* rows belonging to tenant_id are eligible for deletion").
OnlyOwnExpiredTaken ==
    [][nextId' = nextId =>
           \A b \in Taken :
               /\ asked[b.tenant] # 0
               /\ b.id < nextId - asked[b.tenant]
               /\ b.id \notin undated]_files

\* While any hold of a workspace stands, no step but a rotation takes one of its
\* rows away (legal_hold.py, "every destructive data operation against that
\* tenant must short-circuit").
HoldFreezesRows ==
    [][nextId' = nextId =>
           ~\E b \in Taken, h \in DOMAIN holds :
                holds[h].active /\ holds[h].tenant = b.tenant]_files

\* A policy that is granted is no shorter than the floor its workspace has
\* pinned, whichever of the caches answered ("0 (keep forever)" always is).
GrantedMeetsFloor ==
    [][\A t \in Tenants :
           policy'[t] \notin {0, policy[t]} => policy'[t] >= floor[t]]_policy

=============================================================================
