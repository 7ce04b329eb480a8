--------------------------- MODULE StorageHotplug ---------------------------
(***************************************************************************)
(* The storage manager's cache of devices (app/services/                   *)
(* storage_manager.py), shared by the hot-plug monitor thread and by the   *)
(* thread of the event loop, which serves the requests and the telemetry.  *)
(*                                                                         *)
(* A scan runs without the lock and is published under it, so two scans    *)
(* may be published in the other order.  update_io_stats takes the lock,   *)
(* and with an empty cache it calls refresh_devices without releasing it;  *)
(* the lock is a threading.Lock, which its holder cannot take again.       *)
(*                                                                         *)
(* A device list is abstracted to the version of the hardware it shows, an *)
(* empty one to NoDevices.  Throughput, temperature and usage are left     *)
(* out; so is _known_device_keys, which only decides on the callbacks.     *)
(***************************************************************************)
EXTENDS Naturals

CONSTANTS
    Monitor, Server,   \* the two threads
    MaxFailures,       \* bound: how often lsblk fails, which gives an empty list
    MaxPlugs           \* bound: how often drives come and go

ASSUME StorageAssumption ==
    /\ Monitor # Server
    /\ MaxFailures \in Nat
    /\ MaxPlugs \in Nat

Threads   == {Monitor, Server}
NoDevices == 0
Attached  == 1 .. MaxPlugs + 1
Lists     == Attached \cup {NoDevices}

VARIABLES
    hardware,   \* the version of the attached drives
    cached,     \* _cached_devices
    lock,       \* the threads holding _lock: at most one
    pc,         \* thread -> what it is doing
    scanned,    \* thread -> the list its scan gave
    failures    \* how often lsblk has failed

storageVars == <<hardware, cached, lock, pc, scanned, failures>>

PCs == {"idle", "updating", "scanning", "publishing"}

\* refresh_devices runs lsblk, whose answer is list s; nothing when it fails.
Lsblk(s) ==
    \/ s = hardware /\ UNCHANGED failures
    \/ failures < MaxFailures /\ s = NoDevices /\ failures' = failures + 1

\* The constructor has scanned once, and that scan may have failed.
StorageInit ==
    /\ hardware = 1
    /\ failures \in 0 .. 1 /\ failures <= MaxFailures
    /\ cached = (IF failures = 0 THEN hardware ELSE NoDevices)
    /\ lock = {}
    /\ pc = [t \in Threads |-> "idle"]
    /\ scanned = [t \in Threads |-> NoDevices]

To(t, p) == pc' = [pc EXCEPT ![t] = p]

\* A drive is plugged, unplugged, mounted or unmounted.
Plug ==
    /\ hardware <= MaxPlugs
    /\ hardware' = hardware + 1
    /\ UNCHANGED <<cached, lock, pc, scanned, failures>>

\* refresh_devices is called: by the monitor after an event or a minute, by
\* POST /refresh on the event loop.
Refresh(t) ==
    /\ pc[t] = "idle"
    /\ To(t, "scanning")
    /\ UNCHANGED <<hardware, cached, lock, scanned, failures>>

\* The scan, outside the lock unless update_io_stats asked for it.
Scan(t) ==
    /\ pc[t] = "scanning"
    /\ \E s \in Lists : Lsblk(s) /\ scanned' = [scanned EXCEPT ![t] = s]
    /\ To(t, "publishing")
    /\ UNCHANGED <<hardware, cached, lock>>

\* Mutant: the list is replaced only when its size suggests a change.
Publish_OnlyLarger(t) ==
    /\ pc[t] = "publishing"
    /\ lock = {}
    /\ IF scanned[t] # NoDevices /\ cached = NoDevices
       THEN cached' = scanned[t]
       ELSE UNCHANGED cached
    /\ To(t, "idle")
    /\ UNCHANGED <<hardware, lock, scanned, failures>>

\* with self._lock: the new list, and the callbacks of WsHub when it differs.
\* Whoever holds the lock, this thread included, is waited for.
Publish(t) ==
    /\ pc[t] = "publishing"
    /\ lock = {}
    /\ cached' = scanned[t]
    /\ To(t, "idle")
    /\ UNCHANGED <<hardware, lock, scanned, failures>>

\* update_io_stats, by the monitor between events and by every GET /devices,
\* telemetry round and initial state.
UpdateIo(t) ==
    /\ pc[t] = "idle"
    /\ lock = {}
    /\ lock' = {t}
    /\ To(t, "updating")
    /\ UNCHANGED <<hardware, cached, scanned, failures>>

\* Mutant: the lock is left held by the in-place update.
UpdateInPlace_Holds(t) ==
    /\ pc[t] = "updating"
    /\ cached # NoDevices
    /\ To(t, "idle")
    /\ UNCHANGED <<hardware, cached, lock, scanned, failures>>

\* The cached devices are updated in place and the lock is released.
UpdateInPlace(t) ==
    /\ pc[t] = "updating"
    /\ cached # NoDevices
    /\ lock' = {}
    /\ To(t, "idle")
    /\ UNCHANGED <<hardware, cached, scanned, failures>>

\* Mutant: an outdated cache is scanned again as well.
UpdateRescans_Stale(t) ==
    /\ pc[t] = "updating"
    /\ cached # hardware
    /\ To(t, "scanning")
    /\ UNCHANGED <<hardware, cached, lock, scanned, failures>>

\* With nothing cached: return self.refresh_devices(), still holding the lock.
UpdateRescans(t) ==
    /\ pc[t] = "updating"
    /\ cached = NoDevices
    /\ To(t, "scanning")
    /\ UNCHANGED <<hardware, cached, lock, scanned, failures>>

Finish(t) == Scan(t) \/ Publish(t) \/ UpdateInPlace(t) \/ UpdateRescans(t)

StorageNext ==
    \/ Plug
    \/ \E t \in Threads : Refresh(t) \/ UpdateIo(t) \/ Finish(t)

(***************************************************************************)
(* Threads are scheduled, a waiter gets a lock that is released again and  *)
(* again, and the monitor scans at least once a minute.  Nobody has to     *)
(* send a request.                                                         *)
(***************************************************************************)
StorageFairness ==
    /\ \A t \in Threads : SF_storageVars(Finish(t))
    /\ SF_storageVars(Refresh(Monitor))

StorageSpec == StorageInit /\ [][StorageNext]_storageVars /\ StorageFairness

-----------------------------------------------------------------------------
(* Properties *)

\* Every variable stays in its range, and only a thread inside update_io_stats
\* holds the lock when it is not publishing.
StorageTypeOK ==
    /\ hardware \in Attached
    /\ cached \in Lists
    /\ lock \in {{}} \cup {{t} : t \in Threads}
    /\ pc \in [Threads -> PCs]
    /\ scanned \in [Threads -> Lists]
    /\ failures \in 0 .. MaxFailures
    /\ \A t \in Threads : t \in lock => pc[t] # "idle"

\* A thread scans while it holds the lock, and so will wait for itself.
Hung == \E t \in lock : pc[t] \in {"scanning", "publishing"}

\* A thread waits for the lock it holds only when update_io_stats found nothing
\* cached: with drives in the cache both threads always get on.
OnlyAnEmptyCacheHangs == Hung => cached = NoDevices

\* However two scans are published, a later one by the older of two threads
\* included, and however often lsblk has failed, the cache ends up showing the
\* drives that are there: the monitor scans again, unless a thread hangs.
CacheConverges == <>[](cached = hardware) \/ <>Hung

\* A thread that scans, publishes or updates always finishes; the only wait that
\* does not end is that for a thread that hangs.
CallsReturnUnlessHung == \A t \in Threads : pc[t] # "idle" ~> pc[t] = "idle" \/ Hung
=============================================================================
