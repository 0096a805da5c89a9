------------------------------ MODULE DmEvents ------------------------------
(***************************************************************************)
(* How multipathd follows the device-mapper: the thread wait_dmevents()    *)
(* of multipathd/dmevents.c polls /dev/mapper/control, lists all devices   *)
(* with their event numbers and refreshes or drops the maps that changed.  *)
(* Other threads register maps with watch_dmevents() (ev_add_map(),        *)
(* ev_add_path(), configure()) or drop them (uev_remove_map(),             *)
(* flush_map()) under vecs->lock.                                          *)
(*                                                                         *)
(* The kernel, the uevent queue and the failures of dm ioctls are the      *)
(* environment.  What a map contains is abstracted to a version number:    *)
(* "seen" is the version that multipathd read last.                        *)
(***************************************************************************)
EXTENDS Integers, Sequences, FiniteSets

CONSTANTS Maps,             \* names of multipath maps
          Creatable,        \* the maps that may be created while we watch
          MaxVer,           \* MaxVer[m]: bound on the changes of map m
          DmMayFail,        \* dm ioctls of the waiter may fail
          UeventsMayBeLost  \* the netlink socket may overrun

ASSUME BoundAssumption == MaxVer \in [Maps -> Nat]
ASSUME CreatableAssumption == Creatable \subseteq Maps
ASSUME FaultAssumption == DmMayFail \in BOOLEAN /\ UeventsMayBeLost \in BOOLEAN

VARIABLES
  kmap,       \* kernel: the maps that exist
  knr,        \* kernel: event number of each map, 0 when it is created
  ver,        \* kernel: version of the contents of each map
  readable,   \* kernel: something happened since DM_DEV_ARM_POLL
  uevq,       \* uevents of maps that uev_trigger() has not handled yet
  lost,       \* the maps of which a uevent was lost
  mpvec,      \* vecs->mpvec
  seen,       \* version of each map that multipathd has read
  events,     \* waiter->events: dev_event of each map, or NoEntry
  pc,         \* place of the thread wait_dmevents()
  names,      \* its DM_DEVICE_LIST: event numbers, or NotListed
  curr,       \* its curr_dev
  missed,     \* its last DM_DEVICE_LIST failed
  raced,      \* maps registered while it worked on what it knew of their predecessor
  todo,       \* maps the holder of vecs->lock still has to register
  regpc,      \* place of that thread; "idle" when vecs->lock is free
  cand,       \* the map it registers
  event_nr    \* its event_nr in watch_dmevents()

kernelVars == <<kmap, knr, ver, readable, uevq, lost>>
tableVars  == <<mpvec, seen>>
waiterVars == <<pc, names, curr, missed, raced>>
regVars    == <<todo, regpc, cand, event_nr>>
vars       == <<kernelVars, tableVars, events, waiterVars, regVars>>

NoEntry   == [evt_nr |-> -1, action |-> "NONE"]
NotListed == -1
NoMap     == [name |-> "none", action |-> "NOTHING"]
Vers      == UNION {0..MaxVer[m] : m \in Maps}
Entry     == [evt_nr : Vers, action : {"NOTHING", "REMOVE", "UPDATE"}]
Uevent    == [name : Maps, action : {"change", "remove"}]

Watched(m) == events[m] # NoEntry

\* Every variable has its type; in particular only listed maps are marked.
TypeOK ==
    /\ kmap \subseteq Maps
    /\ knr \in [Maps -> Vers]
    /\ ver \in [Maps -> Vers]
    /\ readable \in BOOLEAN
    /\ uevq \in Seq(Uevent)
    /\ lost \subseteq Maps
    /\ mpvec \subseteq Maps
    /\ seen \in [Maps -> Vers]
    /\ events \in [Maps -> Entry \cup {NoEntry}]
    /\ pc \in {"poll", "arm", "list", "mark", "pick", "handle", "unwatch"}
    /\ names \in [Maps -> {NotListed} \cup Vers]
    /\ curr \in [name : Maps, action : {"REMOVE", "UPDATE"}] \cup {NoMap}
    /\ missed \in BOOLEAN
    /\ raced \subseteq Maps
    /\ todo \subseteq Maps
    /\ regpc \in {"idle", "watch", "insert", "setup"}
    /\ cand \in Maps \cup {"none"}
    /\ event_nr \in Vers

Init ==
    /\ kmap = Maps \ Creatable
    /\ knr = [m \in Maps |-> 0]
    /\ ver = [m \in Maps |-> 0]
    /\ readable = FALSE
    /\ uevq = << >>
    /\ lost = {}
    /\ mpvec = {}
    /\ seen = [m \in Maps |-> 0]
    /\ events = [m \in Maps |-> NoEntry]
    /\ pc = "poll"
    /\ names = [m \in Maps |-> NotListed]
    /\ curr = NoMap
    /\ missed = FALSE
    /\ raced = {}
    /\ todo = {}
    /\ regpc = "idle"
    /\ cand = "none"
    /\ event_nr = 0

-----------------------------------------------------------------------------
(* The kernel.  Creating and removing a device and every event of a device *)
(* make /dev/mapper/control readable; the first two also send a uevent.    *)

Changed(S) == [m \in Maps |-> IF m \in S THEN ver[m] + 1 ELSE ver[m]]

Room(S) == \A m \in S : ver[m] < MaxVer[m]

\* The uevents of the new maps in S, in any order.
Uevents(S) ==
    {q \in UNION {[1..n -> [name : S, action : {"change"}]] : n \in 0..Cardinality(S)} :
        {q[i].name : i \in DOMAIN q} = S}

\* dm creates the maps in S, none of which exists.
Create(S) ==
    /\ S \subseteq Creatable \ kmap
    /\ Room(S)
    /\ kmap' = kmap \cup S
    /\ knr' = [m \in Maps |-> IF m \in S THEN 0 ELSE knr[m]]
    /\ ver' = Changed(S)
    /\ readable' = (readable \/ S # {})
    /\ \E q \in Uevents(S) : uevq' = uevq \o q
    /\ UNCHANGED lost

\* dm removes map m.
Destroy(m) ==
    /\ m \in kmap
    /\ kmap' = kmap \ {m}
    /\ readable' = TRUE
    /\ uevq' = Append(uevq, [name |-> m, action |-> "remove"])
    /\ UNCHANGED <<knr, ver, lost>>

\* Another program creates or removes the map.
KernelCreate(m) ==
    /\ Create({m})
    /\ UNCHANGED <<tableVars, events, waiterVars, regVars>>

KernelRemove(m) ==
    /\ Destroy(m)
    /\ UNCHANGED <<tableVars, events, waiterVars, regVars>>

\* A path fails, a table is reloaded: the map has an event.
KernelEvent(m) ==
    /\ m \in kmap
    /\ Room({m})
    /\ knr' = [knr EXCEPT ![m] = @ + 1]
    /\ ver' = Changed({m})
    /\ readable' = TRUE
    /\ UNCHANGED <<kmap, uevq, lost, tableVars, events, waiterVars, regVars>>

\* The netlink socket overruns and the oldest uevent is lost.
UeventLost ==
    /\ UeventsMayBeLost
    /\ uevq # << >>
    /\ uevq' = Tail(uevq)
    /\ lost' = lost \cup {Head(uevq).name}
    /\ UNCHANGED <<kmap, knr, ver, readable, tableVars, events, waiterVars, regVars>>

-----------------------------------------------------------------------------
(* The threads that register and drop maps under vecs->lock.               *)

\* A map that is dropped keeps its entry in waiter->events.
remove_map_and_stop_waiter(m) == mpvec' = mpvec \ {m}

\* update_multipath_strings() reads the map from the kernel.
Read(S) == seen' = [m \in Maps |-> IF m \in S THEN ver[m] ELSE seen[m]]

\* uev_add_map(): an unknown map is read and then watched.
UevAddMap ==
    /\ regpc = "idle"
    /\ uevq # << >>
    /\ Head(uevq).action = "change"
    /\ uevq' = Tail(uevq)
    /\ LET m == Head(uevq).name IN
       IF m \in kmap \ mpvec
       THEN /\ mpvec' = mpvec \cup {m}
            /\ Read({m})
            /\ todo' = {m}
            /\ regpc' = "watch"
       ELSE UNCHANGED <<tableVars, todo, regpc>>
    /\ UNCHANGED <<kmap, knr, ver, readable, lost, events, waiterVars, cand, event_nr>>

\* uev_remove_map()
UevRemoveMap ==
    /\ regpc = "idle"
    /\ uevq # << >>
    /\ Head(uevq).action = "remove"
    /\ uevq' = Tail(uevq)
    /\ remove_map_and_stop_waiter(Head(uevq).name)
    /\ UNCHANGED <<kmap, knr, ver, readable, lost, seen, events, waiterVars, regVars>>

\* ev_add_path() creates a map for a new path and watches it.
EvAddPath(m) ==
    /\ regpc = "idle"
    /\ m \notin mpvec
    /\ Create({m})
    /\ mpvec' = mpvec \cup {m}
    /\ todo' = {m}
    /\ regpc' = "watch"
    /\ UNCHANGED <<seen, events, waiterVars, cand, event_nr>>

\* flush_map(), flush_map_nopaths(): the map goes from the kernel and the table.
FlushMap(m) ==
    /\ regpc = "idle"
    /\ m \in mpvec
    /\ Destroy(m)
    /\ remove_map_and_stop_waiter(m)
    /\ UNCHANGED <<seen, events, waiterVars, regVars>>

\* remove_maps_and_stop_waiters() is called only if there are maps.
unwatch_all_dmevents ==
    IF mpvec = {} THEN events ELSE [m \in Maps |-> NoEntry]

\* reconfigure() drops all maps; configure() finds those of the kernel,
\* creates the maps in New and watches all of them, one after the other.
Reconfigure(New) ==
    /\ regpc = "idle"
    /\ events' = unwatch_all_dmevents
    /\ Create(New)
    /\ mpvec' = kmap'
    /\ Read(kmap)
    /\ todo' = kmap'
    /\ regpc' = IF kmap' = {} THEN "idle" ELSE "watch"
    /\ UNCHANGED <<waiterVars, cand, event_nr>>

\* The registering thread is done with map m.
Registered(m) ==
    /\ todo' = todo \ {m}
    /\ regpc' = IF todo = {m} THEN "idle" ELSE "watch"
    /\ cand' = "none"
    /\ event_nr' = 0

\* watch_dmevents() reads the event number before it takes events_lock; the
\* caller drops a map that does not exist.
WatchReads(m) ==
    /\ regpc = "watch"
    /\ m \in todo
    /\ \/ /\ m \in kmap
          /\ cand' = m
          /\ event_nr' = knr[m]
          /\ regpc' = "insert"
          /\ UNCHANGED <<mpvec, todo>>
       \/ /\ m \notin kmap \/ DmMayFail
          /\ mpvec' = mpvec \ {m}
          /\ Registered(m)
    /\ UNCHANGED <<kernelVars, seen, events, waiterVars>>

\* ... adds the entry, or refreshes the one that is there,
WatchInserts ==
    /\ regpc = "insert"
    /\ events' = [events EXCEPT ![cand] = [evt_nr |-> event_nr, action |-> "NOTHING"]]
    /\ regpc' = "setup"
    /\ UNCHANGED <<kernelVars, tableVars, waiterVars, todo, cand, event_nr>>

\* ... and its caller runs setup_multipath().
SkipSetup ==
    /\ regpc = "setup"
    /\ Registered(cand)
    /\ UNCHANGED <<kernelVars, tableVars, events, waiterVars>>

setup_multipath ==
    /\ regpc = "setup"
    /\ \/ /\ cand \in kmap
          /\ Read({cand})
          /\ UNCHANGED mpvec
       \/ /\ cand \notin kmap \/ DmMayFail
          /\ remove_map_and_stop_waiter(cand)
          /\ UNCHANGED seen
    /\ Registered(cand)
    /\ UNCHANGED <<kernelVars, events, waiterVars>>

Registrar ==
    \/ UevAddMap \/ UevRemoveMap
    \/ (\E m \in Maps : WatchReads(m)) \/ WatchInserts \/ setup_multipath

-----------------------------------------------------------------------------
(* The thread wait_dmevents().                                             *)

Poll ==
    /\ pc = "poll"
    /\ readable
    /\ pc' = "arm"
    /\ UNCHANGED <<kernelVars, tableVars, events, names, curr, missed, raced, regVars>>

\* DM_DEV_ARM_POLL; after a failure the file is still readable.
arm_dm_event_poll ==
    /\ pc = "arm"
    /\ \/ readable' = FALSE /\ pc' = "list"
       \/ DmMayFail /\ pc' = "poll" /\ UNCHANGED readable
    /\ UNCHANGED <<kmap, knr, ver, uevq, lost, tableVars, events, names, curr, missed, raced, regVars>>

\* DM_DEVICE_LIST is run before events_lock is taken.
List ==
    /\ pc = "list"
    /\ \/ /\ names' = [m \in Maps |-> IF m \in kmap THEN knr[m] ELSE NotListed]
          /\ pc' = "mark"
          /\ missed' = FALSE
       \/ DmMayFail /\ pc' = "poll" /\ missed' = TRUE /\ UNCHANGED names
    /\ UNCHANGED <<kernelVars, tableVars, events, curr, raced, regVars>>

\* The sets of maps for which dm_is_mpath() may fail.
Faults == IF DmMayFail THEN SUBSET Maps ELSE {{}}

\* What dm_get_events() makes of the entry of map m.
Mark(m, Err) ==
    IF names[m] = NotListed \/ m \notin kmap \cup Err
    THEN [events[m] EXCEPT !.action = "REMOVE"]
    ELSE IF names[m] # events[m].evt_nr
    THEN [evt_nr |-> names[m], action |-> "UPDATE"]
    ELSE [events[m] EXCEPT !.action = "NOTHING"]

MarkAll ==
    /\ pc = "mark"
    /\ events' = [m \in Maps |-> Mark(m, {})]
    /\ pc' = "pick"
    /\ UNCHANGED <<kernelVars, tableVars, names, curr, missed, raced, regVars>>

\* Maps whose number in the list is one that they will have again.
Outdated == {m \in mpvec \cap kmap : Watched(m) /\ names[m] > knr[m]}

dm_get_events ==
    /\ pc = "mark"
    /\ \E Err \in Faults :
          events' = [m \in Maps |-> IF Watched(m) THEN Mark(m, Err) ELSE NoEntry]
    /\ raced' = raced \cup Outdated
    /\ pc' = "pick"
    /\ UNCHANGED <<kernelVars, tableVars, names, curr, missed, regVars>>

\* The loop takes an entry that needs an action, or sleeps for a second.
Pick(m) ==
    /\ pc = "pick"
    /\ Watched(m)
    /\ events[m].action # "NOTHING"
    /\ curr' = [name |-> m, action |-> events[m].action]
    /\ events' = [events EXCEPT ![m] = IF @.action = "REMOVE" THEN NoEntry
                                       ELSE [@ EXCEPT !.action = "NOTHING"]]
    /\ pc' = "handle"
    /\ UNCHANGED <<kernelVars, tableVars, names, missed, raced, regVars>>

PickNothing ==
    /\ pc = "pick"
    /\ \A m \in Maps : Watched(m) => events[m].action = "NOTHING"
    /\ pc' = "poll"
    /\ names' = [m \in Maps |-> NotListed]
    /\ curr' = NoMap
    /\ UNCHANGED <<kernelVars, tableVars, events, missed, raced, regVars>>

\* remove_map_by_alias()
KeepMap ==
    /\ pc = "handle"
    /\ regpc = "idle"
    /\ curr.action = "REMOVE"
    /\ pc' = "pick"
    /\ UNCHANGED <<kernelVars, tableVars, events, names, curr, missed, raced, regVars>>

remove_map_by_alias ==
    /\ pc = "handle"
    /\ regpc = "idle"
    /\ curr.action = "REMOVE"
    /\ mpvec' = mpvec \ {curr.name}
    /\ pc' = "pick"
    /\ UNCHANGED <<kernelVars, seen, events, names, curr, missed, raced, regVars>>

\* update_multipath(): a map that is unknown or cannot be read is unwatched.
update_multipath ==
    /\ pc = "handle"
    /\ regpc = "idle"
    /\ curr.action = "UPDATE"
    /\ \/ /\ curr.name \in mpvec \cap kmap
          /\ Read({curr.name})
          /\ pc' = "pick"
          /\ UNCHANGED mpvec
       \/ /\ curr.name \notin mpvec \cap kmap \/ DmMayFail
          /\ mpvec' = mpvec \ {curr.name}
          /\ pc' = "unwatch"
          /\ UNCHANGED seen
    /\ UNCHANGED <<kernelVars, events, names, curr, missed, raced, regVars>>

unwatch_dmevents ==
    /\ pc = "unwatch"
    /\ events' = [events EXCEPT ![curr.name] = NoEntry]
    /\ raced' = raced \cup ({curr.name} \cap mpvec)
    /\ pc' = "pick"
    /\ UNCHANGED <<kernelVars, tableVars, names, curr, missed, regVars>>

Waiter ==
    \/ Poll \/ arm_dm_event_poll \/ List \/ dm_get_events
    \/ (\E m \in Maps : Pick(m)) \/ PickNothing
    \/ remove_map_by_alias \/ update_multipath \/ unwatch_dmevents

-----------------------------------------------------------------------------
Next ==
    \/ \E m \in Maps :
          \/ KernelCreate(m) \/ KernelRemove(m) \/ KernelEvent(m)
          \/ EvAddPath(m) \/ FlushMap(m)
    \/ UeventLost
    \/ \E New \in SUBSET Creatable : Reconfigure(New)
    \/ Registrar
    \/ Waiter

Spec == Init /\ [][Next]_vars

\* A step of the waiter thread, of a thread that holds vecs->lock, is enabled.
WaiterReady == IF pc = "poll" THEN readable ELSE pc = "handle" => regpc = "idle"
RegistrarReady == regpc # "idle" \/ uevq # << >>

\* The waiter thread runs; so do the threads that hold vecs->lock (weak
\* fairness).  The ioctl that the waiter repeats every second does not fail
\* for ever (strong fairness).
FairSpec ==
    /\ Spec
    /\ []<>~WaiterReady \/ []<><<Waiter>>_vars
    /\ []<>~RegistrarReady \/ []<><<Registrar>>_vars
    /\ []<>(pc = "arm") => []<><<arm_dm_event_poll /\ pc' = "list">>_vars

-----------------------------------------------------------------------------
(* Properties.                                                             *)

\* Nothing is under way: both threads are idle and nothing is pending.
Quiescent == pc = "poll" /\ ~readable /\ regpc = "idle" /\ uevq = << >>

\* What multipathd knows of map m is what is in the kernel.  A map that takes the
\* place of another one, with its name and its event number, is told from it by
\* the uevents only: if they were lost, its contents may not have been read.
Current(m) == m \in kmap /\ (seen[m] = ver[m] \/ m \in lost \cap Creatable)

\* When nothing is under way, every known map is watched and as it is in the
\* kernel: an event before, while or after the map was registered is never
\* overlooked, and a map whose removal was not reported is dropped, "devices are
\* automatically removed by the dmevent polling code" (main.c:478).  Three things
\* defeat the code: if DM_DEVICE_LIST fails, the event that woke the thread is
\* overlooked (dmevents.c:317 polls again, and the file is no longer readable);
\* a map that another thread registers between update_multipath() and
\* unwatch_dmevents() (dmevents.c:375) stays unwatched; and a map that is
\* replaced and registered between DM_DEVICE_LIST and events_lock gets the number
\* of its predecessor (dmevents.c:184) and goes unnoticed when it arrives there.
QuiescentInSync ==
    Quiescent /\ ~missed => \A m \in mpvec \ raced : Watched(m) /\ Current(m)

\* A known map that is gone or has changed is dropped or read eventually, even if
\* its uevents are lost and ioctls fail, but for the three cases above.
TableFollows ==
    \A m \in Maps : []<>(m \notin mpvec \/ Current(m) \/ missed \/ m \in raced)

\* "only delete devices from the event list for which we positively know that
\* they aren't multipath devices" (dmevents.c:174): when the map as it is now
\* in the kernel has been read and its uevents have been handled, its entry
\* is not marked for removal.
DeletedOnlyIfGone ==
    regpc = "idle" /\ uevq = << >> =>
        \A m \in mpvec \cap kmap :
            seen[m] = ver[m] => events[m].action # "REMOVE"
=============================================================================
