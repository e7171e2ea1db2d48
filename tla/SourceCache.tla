------------------------------ MODULE SourceCache ------------------------------
(***************************************************************************)
(* The cached answers of one data source (backend/app/overview, and the    *)
(* quotes and valuations of backend/app/holdings): loads that fill the     *)
(* Valkey keys of the source, and changes of the source in the settings,   *)
(* after which the router empties them.                                    *)
(*                                                                         *)
(* Every key carries the source's id, which an edit keeps: only the        *)
(* invalidation separates what was fetched with the old address or         *)
(* credentials from what the new ones give.  A value is the version of the *)
(* details it was fetched with and the time its fetch began.  Each Valkey  *)
(* command is a step.                                                      *)
(***************************************************************************)
EXTENDS Naturals

CONSTANTS
    Keys,        \* what is cached: the calendar, modules, quotes, valuations
    Locked,      \* keys fetched under a lock of the process
    Backed,      \* keys with a copy of the last success, kept for a day
    Named,       \* keys the invalidation deletes by name
    Scanned,     \* keys it deletes when its scan finds them
    Loads,       \* requests of pages that can be in flight together
    Changes,     \* requests of the settings that can be in flight together
    None,        \* no request, no key
    MaxLoads,    \* bound on the loads ever begun
    MaxEdits,    \* bound on the versions of the details
    MaxSwitches, \* bound on activations, deactivations and the deletion
    MaxOverlaps, \* bound on loads that overlap a change
    MaxFaults    \* bound on failed Valkey commands and crashes

ASSUME KeysAreTyped ==
    /\ Locked \subseteq Keys /\ Backed \subseteq Keys
    /\ Named \subseteq Keys /\ Scanned \subseteq Keys
    /\ None \notin Keys \cup Loads
ASSUME BoundsAreNat ==
    /\ MaxLoads \in Nat /\ MaxEdits \in Nat /\ MaxSwitches \in Nat
    /\ MaxOverlaps \in Nat /\ MaxFaults \in Nat

VARIABLES
    state, details,        \* the source: "off", "on" or "gone", and version
    cell, last,            \* Valkey: the cached value and the last success
    holder,                \* the load that holds the lock of each key
    pc, key, version, val, \* of each load; val is its fetched value
    cpc, foundCells, foundLasts, \* of each change: place, keys its scan found
    shown,                 \* key -> version the latest answer was for and from
    clock,                 \* fetches begun
    begun, switches, overlaps, faults

source == <<state, details>>
valkey == <<cell, last>>
load   == <<holder, pc, key, version, val>>
change == <<cpc, foundCells, foundLasts>>
counts == <<begun, switches, overlaps, faults>>
vars   == <<source, valkey, load, change, shown, clock, counts>>

Value  == [version : Nat, at : Nat]
Absent == [version |-> 0, at |-> 0]

InFetch == {"fetching", "storing", "storingLast", "fallback"}
Places  == {"idle", "read", "wait", "reread"} \cup InFetch
Pending == {"scanCells", "scanLasts", "remove"}

Init ==
    /\ state = "off" /\ details = 1
    /\ cell = [k \in Keys |-> Absent] /\ last = [k \in Keys |-> Absent]
    /\ holder = [k \in Keys |-> None]
    /\ pc = [r \in Loads |-> "idle"] /\ key = [r \in Loads |-> None]
    /\ version = [r \in Loads |-> 0] /\ val = [r \in Loads |-> Absent]
    /\ cpc = [c \in Changes |-> "idle"]
    /\ foundCells = [c \in Changes |-> {}]
    /\ foundLasts = [c \in Changes |-> {}]
    /\ shown = [k \in Keys |-> [for |-> 0, from |-> 0]]
    /\ clock = 0 /\ begun = 0 /\ switches = 0 /\ overlaps = 0 /\ faults = 0

-----------------------------------------------------------------------------
(* Valkey commands: a read that raises yields nothing, a write that raises  *)
(* may or may not have been applied.                                        *)
ReadReply(v)         == {[val |-> v, failed |-> FALSE],
                         [val |-> Absent, failed |-> TRUE]}
WriteReply(old, new) == {[val |-> new, failed |-> FALSE],
                         [val |-> new, failed |-> TRUE],
                         [val |-> old, failed |-> TRUE]}

Count(failed) ==
    /\ failed => faults < MaxFaults
    /\ faults' = IF failed THEN faults + 1 ELSE faults
    /\ UNCHANGED <<begun, switches, overlaps>>

Goto(r, place) == pc' = [pc EXCEPT ![r] = place]

-----------------------------------------------------------------------------
(* A page's request finds the source active and loads its row; its first    *)
(* look at the cache may come any time later.                               *)
BeginLoad(r, k) ==
    LET overlapping == \E c \in Changes : cpc[c] # "idle" IN
    /\ pc[r] = "idle" /\ begun < MaxLoads
    /\ state = "on"
    /\ overlapping => overlaps < MaxOverlaps
    /\ overlaps' = IF overlapping THEN overlaps + 1 ELSE overlaps
    /\ begun' = begun + 1
    /\ Goto(r, "read")
    /\ key' = [key EXCEPT ![r] = k]
    /\ version' = [version EXCEPT ![r] = details]
    /\ UNCHANGED <<source, valkey, holder, val, change, shown, clock, switches,
                   faults>>

(* The load ends, and with it the `async with' of its lock.                *)
KeepsLock(r) == holder  \* mutant of Unlock: no release on the way out
Unlock(r)    == [k \in Keys |-> IF holder[k] = r THEN None ELSE holder[k]]

End(r) ==
    /\ Goto(r, "idle")
    /\ key' = [key EXCEPT ![r] = None]
    /\ version' = [version EXCEPT ![r] = 0]
    /\ val' = [val EXCEPT ![r] = Absent]
    /\ holder' = Unlock(r)

Answer(r, v) ==
    /\ End(r)
    /\ shown' = [shown EXCEPT ![key[r]] =
                  [for |-> version[r], from |-> v.version]]

(* The fetch begins: `at' orders the fetches by their begin.               *)
Fetch(r) ==
    /\ Goto(r, "fetching")
    /\ clock' = clock + 1
    /\ val' = [val EXCEPT ![r] = [version |-> version[r], at |-> clock + 1]]
    /\ UNCHANGED <<holder, key, version, shown>>

(* A look at the cache: a value answers the request, otherwise `Miss'.      *)
Look(r, cells, Miss) ==
    \E reply \in ReadReply(cells[key[r]]) :
        /\ Count(reply.failed)
        /\ \/ reply.val # Absent /\ Answer(r, reply.val) /\ UNCHANGED clock
           \/ reply.val = Absent /\ Miss

Strays(r) ==  \* mutant of Wait: a place nothing leads on from
    Goto(r, "waiting") /\ UNCHANGED <<holder, key, version, val, shown, clock>>
Wait(r) ==
    Goto(r, "wait") /\ UNCHANGED <<holder, key, version, val, shown, clock>>

Read(r) ==
    /\ pc[r] = "read"
    /\ Look(r, cell, IF key[r] \in Locked THEN Wait(r) ELSE Fetch(r))
    /\ UNCHANGED <<source, valkey, change>>

(* One asyncio.Lock per key; whoever gets it looks at the cache again.      *)
IgnoresLock(k) == TRUE  \* mutant of LockIsFree: fetches are not serialised
LockIsFree(k)  == holder[k] = None

TakeLock(r) ==
    /\ pc[r] = "wait"
    /\ LockIsFree(key[r])
    /\ holder' = [holder EXCEPT ![key[r]] = r]
    /\ Goto(r, "reread")
    /\ UNCHANGED <<source, valkey, key, version, val, change, shown, clock,
                   counts>>

Reread(r) ==
    /\ pc[r] = "reread"
    /\ Look(r, cell, Fetch(r))
    /\ UNCHANGED <<source, valkey, change>>

FetchSucceeds(r) ==
    /\ pc[r] = "fetching"
    /\ Goto(r, "storing")
    /\ UNCHANGED <<source, valkey, holder, key, version, val, change, shown,
                   clock, counts>>

(* A DataSourceError; with no copy of the last success, or for any other    *)
(* exception, the load ends without a value.                                *)
FetchFails(r) ==
    /\ pc[r] = "fetching"
    /\ \/ /\ key[r] \in Backed
          /\ Goto(r, "fallback")
          /\ UNCHANGED <<holder, key, version, val>>
       \/ End(r)
    /\ UNCHANGED <<source, valkey, change, shown, clock, counts>>

Fallback(r) ==
    /\ pc[r] = "fallback"
    /\ Look(r, last, End(r) /\ UNCHANGED <<shown, clock>>)
    /\ UNCHANGED <<source, valkey, change>>

Store(r) ==
    /\ pc[r] = "storing"
    /\ \E w \in WriteReply(cell[key[r]], val[r]) :
         /\ Count(w.failed)
         /\ cell' = [cell EXCEPT ![key[r]] = w.val]
    /\ IF key[r] \in Backed
         THEN /\ Goto(r, "storingLast")
              /\ UNCHANGED <<holder, key, version, val, shown>>
         ELSE Answer(r, val[r])
    /\ UNCHANGED <<source, last, change, clock>>

KeepsFirst(r, w) ==  \* mutant of Remember: SET with NX
    IF last[key[r]] = Absent THEN [last EXCEPT ![key[r]] = w] ELSE last
Remember(r, w) == [last EXCEPT ![key[r]] = w]

StoreLast(r) ==
    /\ pc[r] = "storingLast"
    /\ \E w \in WriteReply(last[key[r]], val[r]) :
         /\ Count(w.failed)
         /\ last' = Remember(r, w.val)
    /\ Answer(r, val[r])
    /\ UNCHANGED <<source, cell, change, clock>>

-----------------------------------------------------------------------------
(* The settings.  A change commits, then the router empties the cache: the  *)
(* scans of the two families of keys, then one DELETE of what they found    *)
(* and of the keys known by name.                                           *)
Overlapping == \E r \in Loads : pc[r] # "idle"

Commit(c, place) ==
    /\ cpc[c] = "idle"
    /\ cpc' = [cpc EXCEPT ![c] = place]
    /\ UNCHANGED <<valkey, load, foundCells, foundLasts, shown, clock, begun,
                   faults>>

(* update_source with new connection details, and finish_oauth, which       *)
(* empties nothing.  Both switch the source off.                            *)
Edit(c) ==
    /\ state # "gone" /\ details < MaxEdits
    /\ Overlapping => overlaps < MaxOverlaps
    /\ overlaps' = IF Overlapping THEN overlaps + 1 ELSE overlaps
    /\ details' = details + 1 /\ state' = "off"
    /\ \E place \in {"scanCells", "idle"} : Commit(c, place)
    /\ UNCHANGED switches

(* activate_source after a test that passed, deactivate_source,             *)
(* delete_source.                                                           *)
Switch(c) ==
    /\ switches < MaxSwitches /\ switches' = switches + 1
    /\ \/ state # "gone" /\ state' = "on"
       \/ state = "on" /\ state' = "off"
       \/ state # "gone" /\ state' = "gone"
    /\ Commit(c, "scanCells")
    /\ UNCHANGED <<details, overlaps>>

(* A failed command ends the invalidation; nothing is reported.             *)
AbandonInvalidation(c) ==
    /\ cpc[c] \in Pending
    /\ Count(TRUE)
    /\ cpc' = [cpc EXCEPT ![c] = "idle"]
    /\ foundCells' = [foundCells EXCEPT ![c] = {}]
    /\ foundLasts' = [foundLasts EXCEPT ![c] = {}]
    /\ UNCHANGED <<source, valkey, load, shown, clock>>

Stored(cells) == {k \in Scanned : cells[k] # Absent}

ScanCells(c) ==
    /\ cpc[c] = "scanCells"
    /\ foundCells' = [foundCells EXCEPT ![c] = Stored(cell)]
    /\ cpc' = [cpc EXCEPT ![c] = "scanLasts"]
    /\ UNCHANGED <<source, valkey, load, foundLasts, shown, clock, counts>>

ScanLasts(c) ==
    /\ cpc[c] = "scanLasts"
    /\ foundLasts' = [foundLasts EXCEPT ![c] = Stored(last)]
    /\ cpc' = [cpc EXCEPT ![c] = "remove"]
    /\ UNCHANGED <<source, valkey, load, foundCells, shown, clock, counts>>

OnlyFound(found) == found  \* mutant of Doomed: the keys known by name are left
Doomed(found)    == Named \cup found

Remove(c) ==
    /\ cpc[c] = "remove"
    /\ cell' = [k \in Keys |->
                  IF k \in Doomed(foundCells[c]) THEN Absent ELSE cell[k]]
    /\ last' = [k \in Keys |->
                  IF k \in Doomed(foundLasts[c]) THEN Absent ELSE last[k]]
    /\ cpc' = [cpc EXCEPT ![c] = "idle"]
    /\ foundCells' = [foundCells EXCEPT ![c] = {}]
    /\ foundLasts' = [foundLasts EXCEPT ![c] = {}]
    /\ UNCHANGED <<source, load, shown, clock, counts>>

-----------------------------------------------------------------------------
(* TTLs, and the end of the process with all it was doing.                  *)
Expire(k) ==
    /\ \/ /\ cell[k] # Absent
          /\ cell' = [cell EXCEPT ![k] = Absent] /\ UNCHANGED last
       \/ /\ last[k] # Absent
          /\ last' = [last EXCEPT ![k] = Absent] /\ UNCHANGED cell
    /\ UNCHANGED <<source, load, change, shown, clock, counts>>

Crash ==
    /\ Count(TRUE)
    /\ pc' = [r \in Loads |-> "idle"] /\ key' = [r \in Loads |-> None]
    /\ version' = [r \in Loads |-> 0] /\ val' = [r \in Loads |-> Absent]
    /\ holder' = [k \in Keys |-> None]
    /\ cpc' = [c \in Changes |-> "idle"]
    /\ foundCells' = [c \in Changes |-> {}]
    /\ foundLasts' = [c \in Changes |-> {}]
    /\ UNCHANGED <<source, valkey, shown, clock>>

-----------------------------------------------------------------------------
LoadStep(r) ==
    \/ Read(r) \/ TakeLock(r) \/ Reread(r)
    \/ FetchSucceeds(r) \/ FetchFails(r) \/ Fallback(r)
    \/ Store(r) \/ StoreLast(r)

Change(c) ==
    \/ Edit(c) \/ Switch(c)
    \/ ScanCells(c) \/ ScanLasts(c) \/ Remove(c) \/ AbandonInvalidation(c)

Next ==
    \/ \E r \in Loads : LoadStep(r) \/ \E k \in Keys : BeginLoad(r, k)
    \/ \E c \in Changes : Change(c)
    \/ \E k \in Keys : Expire(k)
    \/ Crash

Spec == Init /\ [][Next]_vars

(* Every await of a load ends, and asyncio.Lock serves its waiters in turn. *)
FairSpec == Spec /\ \A r \in Loads : WF_vars(LoadStep(r))
-----------------------------------------------------------------------------
TypeOK ==
    /\ state \in {"off", "on", "gone"} /\ details \in Nat
    /\ cell \in [Keys -> Value] /\ last \in [Keys -> Value]
    /\ holder \in [Keys -> Loads \cup {None}]
    /\ pc \in [Loads -> Places]
    /\ key \in [Loads -> Keys \cup {None}]
    /\ version \in [Loads -> Nat] /\ val \in [Loads -> Value]
    /\ cpc \in [Changes -> {"idle"} \cup Pending]
    /\ foundCells \in [Changes -> SUBSET Keys]
    /\ foundLasts \in [Changes -> SUBSET Keys]
    /\ shown \in [Keys -> [for : Nat, from : Nat]]
    /\ clock \in Nat /\ begun \in Nat /\ switches \in Nat
    /\ overlaps \in Nat /\ faults \in Nat

(* "Caches must not be mixed across data source configurations" (V1 PRD     *)
(* 10.2), for a set of keys: an answer was fetched with the address and the *)
(* credentials the source had when the request loaded it.                   *)
Unmixed(keys) == \A k \in keys : shown[k].from = shown[k].for

(* It holds of the keys the invalidation knows, whatever the order of       *)
(* edits, activations, failing fetches and TTLs, while no load overlaps an  *)
(* edit or the invalidation after a change, and no command fails.  A load   *)
(* that does overlap publishes what it fetched with the old details.        *)
ConfigurationsStaySeparate ==
    overlaps = 0 /\ faults = 0 => Unmixed(Named \cup Scanned)

(* The same of every key a load fills.                                      *)
NoKeyIsMixed == overlaps = 0 /\ faults = 0 => Unmixed(Keys)

(* The value of a key fetched under the lock never goes back to an earlier  *)
(* fetch, whatever fails: one fetch at a time, and a second look at the     *)
(* cache before it.                                                         *)
NeverBackInTime ==
    [][\A k \in Locked : cell[k] # Absent /\ cell'[k] # Absent
                           => cell'[k].at >= cell[k].at]_vars

(* The copy a failed fetch falls back to is never older than the value      *)
(* pages were just shown, except while the load that stored this value is   *)
(* about to store the copy.                                                 *)
FallbackIsLatest ==
    faults = 0 => \A k \in Locked \cap Backed :
        \/ last[k] = Absent \/ cell[k] = Absent
        \/ last[k].at >= cell[k].at
        \/ \E r \in Loads : holder[k] = r /\ pc[r] = "storingLast"

(* Every load ends: no lock is kept by a load that failed.                  *)
LoadsEnd == \A r \in Loads : pc[r] # "idle" ~> pc[r] = "idle"
=============================================================================
