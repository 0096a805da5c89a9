------------------------------ MODULE PathTable ------------------------------
(***************************************************************************)
(* The tables of multipathd (struct vectors) and the handlers that keep    *)
(* them in step with the devices and with the kernel's maps                *)
(* (multipathd/main.c, libmultipath/structs_vec.c).                        *)
(*                                                                         *)
(* pathvec holds pointers to the known paths, mpvec the known maps.  A     *)
(* struct path is identified by its address (an element of Addrs), a map   *)
(* by its WWID, a device by its name.  The sections of code between lock   *)
(* and unlock of vecs->lock are the actions; the operators below take the  *)
(* tables t and return the tables.  What a call outside multipathd answers *)
(* is an element o of Answers.                                             *)
(***************************************************************************)
EXTENDS Naturals, Sequences, FiniteSets, SequencesExt

CONSTANTS
  Devs,         \* names of block devices
  Wwids,        \* WWIDs of LUNs, and so of maps
  Luns,         \* Luns[d]: the LUNs device d may be
  Blacklisted,  \* the WWIDs that blist_wwid matches
  Addrs,        \* addresses of struct path: 1..n
  FindMultipaths,  \* conf->find_multipaths: "off", "on" or "strict"
  retrigger_tries, \* conf->retrigger_tries
  Faults,       \* what may go wrong: "load", "read", "flush", "info", "up", "udev"
  Operators,    \* what others may do: "dmsetup" changes maps, "cli" sends commands
  MaxEvents,    \* bound on the number of changes of devices and of others' acts
  NULL

ASSUME ConstantsAssumption ==
  /\ Blacklisted \subseteq Wwids
  /\ Addrs \subseteq Nat
  /\ FindMultipaths \in {"off", "on", "strict"}
  /\ retrigger_tries \in Nat
  /\ Luns \in [Devs -> SUBSET Wwids]
  /\ MaxEvents \in Nat
  /\ NULL \notin Devs \cup Wwids \cup Addrs

VARIABLES
  dev,      \* kernel: the WWID of each device, NULL if there is none
  table,    \* kernel: the devices of each map, NULL if there is no map
  nr,       \* changes so far
  uevq,     \* uevents of devices to be served
  mapq,     \* uevents of each map
  cont,     \* what uev_trigger() has still to call for its event, or NULL
  pathvec,  \* sequence of addresses
  path,     \* struct path at each address
  mpvec,    \* the known maps
  mp,       \* struct multipath of each
  wwids,    \* the wwids file
  disturbed \* a call has failed, or a command was given

tableVars  == <<mapq, pathvec, path, mpvec, mp, wwids>>
vars       == <<dev, table, nr, uevq, cont, tableVars, disturbed>>

-----------------------------------------------------------------------------
(* Data.                                                                   *)

InitStates == {"NEW", "FAILED", "MISSING_UDEV", "REQUESTED_UDEV", "OK", "REMOVED", "PARTIAL"}

Path == [dev : Devs \cup {NULL}, initialized : InitStates, mpp : Wwids \cup {NULL},
         wwid : Wwids \cup {NULL},      \* NULL: the empty string
         udev : Wwids \cup {NULL},      \* uid_attribute of pp->udev
         retriggers : 0..retrigger_tries]

Free == [dev |-> NULL, initialized |-> "NEW", mpp |-> NULL, wwid |-> NULL,
         udev |-> NULL, retriggers |-> 0]

Map == [paths : SUBSET Addrs, pg : SUBSET Addrs,
        wait_for_udev : {"DONE", "STARTED", "RELOAD"}, need_reload : BOOLEAN]

NewMap == [paths |-> {}, pg |-> {}, wait_for_udev |-> "DONE", need_reload |-> FALSE]

Event == [act : {"add", "remove", "change"}, dev : Devs, wwid : Wwids \cup {NULL}]

DevEvent(a, d, w) == [act |-> a, dev |-> d, wwid |-> w]

\* What the kernel answers in one handler: does a table load, can a table be
\* read, is a map without paths removed, can a device be opened, has a map
\* usable paths.  One kind of call fails at most.
Good    == [load |-> TRUE, read |-> TRUE, flush |-> TRUE, info |-> TRUE, up |-> TRUE]
Answers == {Good} \cup {[Good EXCEPT ![f] = FALSE] : f \in Faults \cap DOMAIN Good}
Replies == {o \in Answers : o.up}     \* where only ev_add_path() would count usable paths
Failed(o) == o \notin {Good, [Good EXCEPT !.up = FALSE]}

\* The tables as a record; ret is what ev_remove_path() returned last.
Tables == [pathvec |-> pathvec, path |-> path, mpvec |-> mpvec, mp |-> mp,
           table |-> table, mapq |-> mapq, wwids |-> wwids, uevs |-> << >>, ret |-> NULL]

Become(t) ==
    /\ pathvec' = t.pathvec /\ path' = t.path
    /\ mpvec' = t.mpvec /\ mp' = t.mp
    /\ table' = t.table /\ mapq' = t.mapq /\ wwids' = t.wwids

\* Applies Op to the paths in S.
Each(t, S, Op(_)) ==
    [t EXCEPT !.path = [i \in Addrs |-> IF i \in S THEN Op(@[i]) ELSE @[i]]]

Known(t) == ToSet(t.pathvec)

\* The first path of S in pathvec.
First(t, S) ==
    LET found == SelectSeq(t.pathvec, LAMBDA i : i \in S)
    IN IF found = << >> THEN NULL ELSE Head(found)

find_path_by_dev(t, d) == First(t, {i \in Known(t) : t.path[i].dev = d})

DevsOf(t, S) == {t.path[i].dev : i \in S}

\* An address that malloc() may return.
Unused(t) == CHOOSE i \in Addrs : t.path[i].dev = NULL

store_path(t, i, pp) == [t EXCEPT !.pathvec = Append(@, i), !.path[i] = pp]

free_path(t, S) ==
    [Each(t, S, LAMBDA pp : Free) EXCEPT !.pathvec = SelectSeq(@, LAMBDA i : i \notin S)]

orphan_path(t, S) == Each(t, S, LAMBDA pp : [pp EXCEPT !.mpp = NULL])

set_path_removed(t, S) == Each(t, S, LAMBDA pp : [pp EXCEPT !.initialized = "REMOVED"])

remove_map(t, w) ==
    [orphan_path(t, {i \in Known(t) : t.path[i].mpp = w})
       EXCEPT !.mpvec = @ \ {w}, !.mp[w] = NewMap]

-----------------------------------------------------------------------------
(* pathinfo() with DI_ALL: the tables, and the result in res.              *)

\* A device that cannot be opened is no error: its WWID stays unknown.
pathinfo(t, i, o) ==
    LET pp    == t.path[i]
        blank == pp.initialized \in {"NEW", "FAILED"}
        wwid  == IF pp.wwid # NULL THEN pp.wwid
                 ELSE IF pp.udev = NULL /\ pp.retriggers >= retrigger_tries
                      THEN dev[pp.dev] ELSE pp.udev
    IN IF pp.initialized = "REMOVED" \/ (dev[pp.dev] = NULL /\ o.info)
       THEN [t |-> t, res |-> "FAILED"]
       ELSE IF ~o.info
       THEN [t   |-> IF blank THEN [t EXCEPT !.path[i].wwid = NULL] ELSE t,
             res |-> "OK"]
       ELSE IF wwid = NULL
       THEN [t   |-> IF pp.initialized # "FAILED"
                     THEN [t EXCEPT !.path[i].initialized = "MISSING_UDEV"] ELSE t,
             res |-> "OK"]
       ELSE IF wwid \in Blacklisted
       THEN [t |-> [t EXCEPT !.path[i].wwid = wwid], res |-> "SKIPPED"]
       ELSE [t   |-> [t EXCEPT !.path[i].wwid = wwid, !.path[i].initialized = "OK"],
             res |-> "OK"]

-----------------------------------------------------------------------------
(* Reading a map from the kernel.                                          *)

\* The paths in the path groups, unless they are removed or unknown.
update_mpp_paths(t, w) ==
    [t EXCEPT !.mp[w].paths = @ \cup
        {i \in t.mp[w].pg : /\ t.path[i].dev \notin DevsOf(t, @)
                            /\ t.path[i].dev \in DevsOf(t, Known(t))
                            /\ t.path[i].initialized # "REMOVED"}]

\* A device of the kernel's table that is not known yet becomes a partially
\* initialized path, unless it has gone or is blacklisted.
AddFromMap(t, d) ==
    IF find_path_by_dev(t, d) # NULL \/ dev[d] = NULL \/ dev[d] \in Blacklisted THEN t
    ELSE store_path(t, Unused(t), [Free EXCEPT !.dev = d, !.initialized = "PARTIAL",
                                               !.wwid = dev[d], !.udev = dev[d]])

\* disassemble_map() and update_pathvec_from_dm(): a path that belongs to
\* another map or has another WWID is taken out of the groups.
update_multipath_table(t, w) ==
    LET Mine(s)   == {i \in Known(s) : /\ s.path[i].dev \in s.table[w]
                                       /\ i = find_path_by_dev(s, s.path[i].dev)
                                       /\ s.path[i].mpp \in {NULL, w}}
        Own(s, S) == {i \in S : s.path[i].wwid \in {NULL, w}}
        Take(pp)  == [pp EXCEPT !.mpp = w, !.wwid = w]
        Groups(s, mine, own) ==
            [orphan_path(Each(s, own, Take), mine \ own) EXCEPT
               !.mp[w].pg = own,
               !.mp[w].need_reload = @ \/ DevsOf(s, own) # s.table[w]]
        Read(s)   == Groups(s, Mine(s), Own(s, Mine(s)))
    IN Read(FoldLeft(AddFromMap, t, SetToSeq(t.table[w])))

\* Paths that left the map become orphans; those that were marked for removal
\* are freed.
FreeRemoved(t, w) ==
    free_path(t, {i \in Known(t) : /\ t.path[i].mpp = w
                                   /\ t.path[i].initialized \in {"REMOVED", "PARTIAL"}})

check_removed_paths(t, w) ==
    free_path(t, {i \in Known(t) : /\ t.path[i].mpp = w
                                   /\ t.path[i].initialized \in {"REMOVED", "PARTIAL"}
                                   /\ t.path[i].dev \notin DevsOf(t, t.mp[w].pg)})

sync_paths(t, w) ==
    LET lost    == t.mp[w].paths \ t.mp[w].pg
        Link(s) == Each(s, s.mp[w].paths, LAMBDA pp : [pp EXCEPT !.mpp = w])
    IN Link(update_mpp_paths(check_removed_paths(
              [orphan_path(t, lost) EXCEPT !.mp[w].paths = @ \ lost], w), w))

\* Can the table of map w be read?
Readable(t, w, o) == t.table[w] # NULL /\ o.read

update_multipath_strings(t, w, o) ==
    LET Read(s) == IF Readable(s, w, o) THEN sync_paths(update_multipath_table(s, w), w) ELSE s
    IN Read([update_mpp_paths(t, w) EXCEPT !.mp[w].pg = {}])

\* A map that cannot be read is dropped.
setup_multipath(t, w, o) ==
    LET Keep(s) == IF Readable(t, w, o) THEN s ELSE remove_map(s, w)
    IN Keep(update_multipath_strings(t, w, o))

-----------------------------------------------------------------------------
(* Loading a map into the kernel.                                          *)

\* All known paths of the LUN that are not marked for removal.  pathinfo() may
\* forget the WWID of a path that was never initialized.
adopt_paths(t, w, o) ==
    LET own(s) == {i \in Known(s) : s.path[i].wwid = w /\ s.path[i].initialized # "REMOVED"}
        new(s) == {i \in own(s) :
                     /\ s.path[i].dev \notin DevsOf(s, s.mp[w].paths)
                     /\ i = First(s, {j \in own(s) : s.path[j].dev = s.path[i].dev})}
        Own(pp) == [pp EXCEPT !.mpp = w,
                      !.wwid = IF /\ pp.initialized \in {"NEW", "FAILED"}
                                  /\ dev[pp.dev] = NULL \/ ~o.info
                               THEN NULL ELSE w]
        Adopt(s) == [Each(s, own(s), Own) EXCEPT !.mp[w].paths = @ \cup new(s)]
    IN Adopt(update_mpp_paths(t, w))

\* Paths whose device has gone are marked for removal.
verify_paths(t, w) ==
    LET gone == {i \in t.mp[w].paths : dev[t.path[i].dev] = NULL}
    IN [set_path_removed(t, gone) EXCEPT !.mp[w].paths = @ \ gone]

setup_map(t, w) == [t EXCEPT !.mp[w].pg = t.mp[w].paths]

\* The kernel refuses a table with a device that does not exist.
Loads(t, w, o) == o.load /\ \A d \in DevsOf(t, t.mp[w].pg) : dev[d] # NULL

domap_create(t, w) ==
    [t EXCEPT !.table[w] = DevsOf(t, t.mp[w].pg), !.mp[w].need_reload = FALSE,
              !.mp[w].wait_for_udev = "STARTED", !.wwids = @ \cup {w},
              !.mapq[w] = Append(@, "change")]

domap_reload(t, w, o) ==
    IF t.table[w] # NULL /\ Loads(t, w, o)
    THEN [t EXCEPT !.table[w] = DevsOf(t, t.mp[w].pg), !.mp[w].need_reload = FALSE]
    ELSE t

Flush(t, w) ==
    [remove_map(t, w) EXCEPT !.table[w] = NULL,
        !.mapq[w] = IF t.table[w] # NULL THEN Append(@, "remove") ELSE @]

\* flush_map_nopaths() is tried when the map has lost its last path.
Flushes(t, w, o) == t.mp[w].paths = {} /\ o.flush

reload_and_sync_map(t, w, o) ==
    setup_multipath(domap_reload(setup_map(update_mpp_paths(t, w), w), w, o), w, o)

update_map(t, w, o) ==
    LET Update(s) == IF Flushes(s, w, o) THEN Flush(s, w)
                     ELSE setup_multipath(domap_reload(setup_map(s, w), w, o), w, o)
    IN Update(verify_paths(adopt_paths(t, w, o), w))

-----------------------------------------------------------------------------
(* Removing and adding a path.                                             *)

Return(t, ret) == [t EXCEPT !.ret = ret]

ev_remove_path(t, i, need_do_map, o) ==
    LET w == t.path[i].mpp
        Reloaded(s, loads) == Return(s, IF w \notin s.mpvec THEN "MAP_ERROR"
                                        ELSE IF loads THEN "SUCCESS" ELSE "FAILURE")
        Reload(s) == Reloaded(setup_multipath(domap_reload(s, w, o), w, o), Loads(s, w, o))
        Drop(s) ==
            IF Flushes(s, w, o) THEN Return(Flush(s, w), "SUCCESS")
            ELSE IF s.mp[w].wait_for_udev # "DONE"
            THEN Return([s EXCEPT !.mp[w].wait_for_udev = "RELOAD"], "DELAY")
            ELSE IF ~need_do_map THEN Return(s, "DELAY")
            ELSE Reload(setup_map(s, w))
    IN IF w = NULL THEN Return(free_path(t, {i}), "SUCCESS")
       ELSE Drop([update_mpp_paths(set_path_removed(t, {i}), w) EXCEPT !.mp[w].paths = @ \ {i}])

should_multipath(t, i) ==
    LET w == t.path[i].wwid
    IN \/ FindMultipaths = "off"
       \/ FindMultipaths = "on" /\ \E j \in Known(t) \ {i} : t.path[j].wwid = w
       \/ w \in t.wwids

\* Loads map w, whose new path is i.  A new map that the kernel does not take is
\* dropped.  For one that is there already the paths are verified before the load
\* is repeated, and if that fails, too, the map stays and the path is orphaned.
PushMap(t, w, i, o) ==
    LET new       == t.table[w] = NULL
        Made(s)   == IF new THEN domap_create(s, w) ELSE domap_reload(s, w, o)
        rescan(s) == IF new \/ Loads(s, w, o) THEN s
                     ELSE setup_map(verify_paths(adopt_paths(s, w, o), w), w)
        Read(s, ok) == IF ok /\ w \in s.mpvec THEN s ELSE orphan_path(s, {i} \cap Known(s))
        Push(s) == IF Loads(s, w, o) THEN Read(setup_multipath(Made(s), w, o), TRUE)
                   ELSE IF new THEN remove_map(s, w)
                   ELSE IF i \notin s.mp[w].paths THEN orphan_path(s, {i})
                   ELSE Read(setup_multipath(s, w, o), FALSE)
    IN Push(rescan(setup_map(t, w)))

ev_add_path(t, i, need_do_map, o) ==
    LET w     == t.path[i].wwid
        known == w \in t.mpvec
        Adopted(s) ==
            IF i \notin s.mp[w].paths
            THEN orphan_path(IF known THEN s ELSE remove_map(s, w), {i})
            ELSE LET ready == IF known THEN verify_paths(s, w) ELSE [s EXCEPT !.mpvec = @ \cup {w}]
                 IN IF need_do_map THEN PushMap(ready, w, i, o) ELSE ready
    IN IF w = NULL THEN orphan_path(t, {i})
       ELSE IF known /\ t.mp[w].wait_for_udev # "DONE" /\ t.mp[w].pg # {} /\ o.up
       THEN [orphan_path(t, {i}) EXCEPT !.mp[w].wait_for_udev = "RELOAD"]
       ELSE IF ~known /\ ~should_multipath(t, i) THEN orphan_path(t, {i})
       ELSE Adopted(adopt_paths([t EXCEPT !.path[i].mpp = IF known THEN w ELSE NULL], w, o))

-----------------------------------------------------------------------------
(* Uevents of paths.  The lock is released between the two handlers when   *)
(* one calls the other: `cont' is the call still to be made.               *)

NoCall == NULL

Then(t, call) == [t |-> t, cont |-> call]

NewPath(t, d, w, need_do_map, o) ==
    LET i         == Unused(t)
        Add(info) == IF info.res = "OK" THEN ev_add_path(info.t, i, need_do_map, o) ELSE t
    IN Add(pathinfo(store_path(t, i, [Free EXCEPT !.dev = d, !.wwid = w, !.udev = w]), i, o))

Removed(t) == t.ret \in {"SUCCESS", "MAP_ERROR"}

\* What uev_add_path() forgets of a path that was marked for removal.
Forget(t, i) == [t EXCEPT !.path[i].initialized = "NEW", !.path[i].wwid = NULL]

\* A path that was marked for removal is re-added: it stays in its map if it is
\* still the same LUN, otherwise its removal is tried again.
ReAdd(t, i, w, need_do_map, o, o2) ==
    LET prev == t.path[i].mpp
        Away(s, res) == IF Removed(s) /\ res = "OK"
                        THEN NewPath(s, t.path[i].dev, w, need_do_map, o2) ELSE s
        Settle(s, info) == IF info.res = "OK" /\ s.path[i].wwid = prev THEN s
                           ELSE Away(ev_remove_path(s, i, TRUE, o), info.res)
        Back(info) == Settle([info.t EXCEPT !.path[i].mpp = prev], info)
    IN Back(pathinfo([Forget(t, i) EXCEPT !.path[i].mpp = NULL, !.path[i].udev = w], i, o))

ReInit(t, i, w, need_do_map, o) ==
    LET Add(info) == IF info.res = "OK" THEN ev_add_path(info.t, i, need_do_map, o)
                     ELSE IF info.res = "SKIPPED" THEN free_path(info.t, {i})
                     ELSE info.t
    IN Add(pathinfo([t EXCEPT !.path[i].udev = w], i, o))

uev_add_path(t, d, w, need_do_map, o, o2) ==
    LET i  == find_path_by_dev(t, d)
        pp == t.path[i]
    IN IF i # NULL /\ pp.initialized = "PARTIAL" THEN Then(t, DevEvent("change", d, w))
       ELSE Then(IF i = NULL THEN NewPath(t, d, w, need_do_map, o)
                 ELSE IF pp.initialized = "REMOVED" /\ pp.mpp # NULL
                 THEN ReAdd(t, i, w, need_do_map, o, o2)
                 ELSE IF pp.initialized = "REMOVED" \/ (pp.mpp = NULL /\ pp.wwid = NULL)
                 THEN ReInit(IF pp.initialized = "REMOVED" THEN Forget(t, i) ELSE t,
                             i, w, need_do_map, o)
                 ELSE t, NoCall)

uev_remove_path(t, d, need_do_map, o) ==
    LET i == find_path_by_dev(t, d)
    IN IF i = NULL THEN t ELSE ev_remove_path(t, i, need_do_map, o)

uev_update_path(t, d, w, o) ==
    LET i    == find_path_by_dev(t, d)
        pp   == t.path[i]
        new  == [t EXCEPT !.path[i].wwid = w, !.path[i].udev = w]
        finish_path_init(info) ==
            IF info.res = "OK" THEN info.t ELSE ev_remove_path(info.t, i, TRUE, o)
    IN IF i = NULL THEN Then(t, NoCall)
       ELSE IF pp.initialized = "REQUESTED_UDEV" THEN Then(t, DevEvent("add", d, w))
       ELSE IF (pp.wwid = NULL /\ pp.initialized # "PARTIAL") \/ w = NULL THEN Then(t, NoCall)
       ELSE IF pp.wwid # NULL /\ pp.wwid # w
       THEN Then(ev_remove_path([t EXCEPT !.path[i].wwid = w], i, TRUE, o), DevEvent("add", d, w))
       ELSE Then(IF pp.initialized = "PARTIAL" THEN finish_path_init(pathinfo(new, i, o)) ELSE new,
                 NoCall)

-----------------------------------------------------------------------------
(* Uevents of maps.                                                        *)

add_map_without_path(t, w, o) ==
    update_map([update_multipath_table(t, w) EXCEPT !.mpvec = @ \cup {w}], w, o)

ForgetReload(t, w, o) ==
    IF w \in t.mpvec THEN [t EXCEPT !.mp[w].wait_for_udev = "DONE"]
    ELSE IF Readable(t, w, o) THEN add_map_without_path(t, w, o)
    ELSE t

uev_add_map(t, w, o) ==
    LET Done(s) == IF w \in s.mpvec THEN [s EXCEPT !.mp[w].wait_for_udev = "DONE"] ELSE s
    IN IF w \in t.mpvec
       THEN Done(IF t.mp[w].wait_for_udev = "RELOAD" THEN update_map(t, w, o) ELSE t)
       ELSE IF Readable(t, w, o) THEN add_map_without_path(t, w, o)
       ELSE t

uev_remove_map(t, w) == IF w \in t.mpvec THEN remove_map(t, w) ELSE t

-----------------------------------------------------------------------------
(* The checker.                                                            *)

\* Path i, a member of a map that was never fully initialized, is usable.
update_path_state(t, i, o) ==
    LET pp == t.path[i]
        ok == [t EXCEPT !.path[i].initialized = "OK"]
        uid == IF pp.udev # NULL THEN pp.udev ELSE dev[pp.dev]
    IN IF pp.wwid # NULL /\ uid # pp.wwid
       THEN [ev_remove_path(ok, i, TRUE, o) EXCEPT
               !.uevs = Append(@, DevEvent("add", pp.dev, dev[pp.dev]))]
       ELSE [ok EXCEPT !.path[i].wwid = uid]

\* Path i, not a member of a map, is usable.
update_uninitialized_path(t, i, o) ==
    LET Add(info) == IF info.t.path[i].initialized = "OK" THEN ev_add_path(info.t, i, TRUE, o)
                     ELSE IF info.res = "SKIPPED" THEN free_path(info.t, {i})
                     ELSE info.t
    IN Add(pathinfo(t, i, o))

free_orphan_paths(t) ==
    free_path(t, {i \in Known(t) : /\ t.path[i].mpp = NULL
                                   /\ t.path[i].initialized \in {"REMOVED", "PARTIAL"}})

\* The loop of checker_finished() for map w.  sync: sync_mpp() has to read the map;
\* expired: missing_uev_wait_tick() ran out; reload: priorities or failback ask
\* for a reload.
FinishMap(t, w, o, sync, expired, reload) ==
    LET Reload(s, wait) ==
            IF expired /\ wait = "RELOAD" THEN update_map(s, w, o)
            ELSE IF ~reload /\ ~s.mp[w].need_reload THEN s
            ELSE IF s.mp[w].wait_for_udev = "DONE" THEN reload_and_sync_map(s, w, o)
            ELSE [s EXCEPT !.mp[w].need_reload = FALSE, !.mp[w].wait_for_udev = "RELOAD"]
        Tick(s) ==
            IF sync /\ s.table[w] = NULL THEN remove_map(s, w)
            ELSE Reload(IF expired THEN [s EXCEPT !.mp[w].wait_for_udev = "DONE"] ELSE s,
                        s.mp[w].wait_for_udev)
    IN Tick(IF sync THEN update_multipath_strings(t, w, o) ELSE t)

\* The tables that may result: maps in mayReload may be asked to reload.
checker_finished(t, o, Sync, expired, mayReload) ==
    LET Asked(w) == IF w \in mayReload THEN BOOLEAN ELSE {FALSE}
        Step(T, w) == UNION {{FinishMap(s, w, o, sync, w \in expired, reload) :
                                sync \in Sync, reload \in Asked(w)} : s \in T}
    IN FoldLeft(Step, {free_orphan_paths(t)}, SetToSeq(t.mpvec))

-----------------------------------------------------------------------------
(* Commands.                                                               *)

cli_add_path(t, d, o, o2) ==
    LET i  == find_path_by_dev(t, d)
        pp == t.path[i]
        Enter(info) == IF info.res = "OK" THEN ev_add_path(info.t, i, TRUE, o) ELSE info.t
    IN IF i = NULL THEN NewPath(t, d, dev[d], TRUE, o)
       ELSE IF pp.initialized = "REMOVED" /\ pp.mpp # NULL
       THEN ReAdd(t, i, pp.udev, TRUE, o, o2)
       ELSE IF pp.initialized = "REMOVED" THEN Enter(pathinfo(Forget(t, i), i, o))
       ELSE IF pp.initialized = "PARTIAL" THEN uev_update_path(t, d, dev[d], o).t
       ELSE IF pp.mpp # NULL THEN t
       ELSE ev_add_path(t, i, TRUE, o)

cli_del_path(t, d, o) == uev_remove_path(t, d, TRUE, o)

cli_reload(t, w, o) ==
    IF w \in t.mpvec /\ t.mp[w].wait_for_udev = "DONE" THEN reload_and_sync_map(t, w, o) ELSE t

cli_del_map(t, w, o) == IF w \in t.mpvec /\ o.flush THEN Flush(t, w) ELSE t

-----------------------------------------------------------------------------
(* The environment.                                                        *)

Init ==
    /\ dev = [d \in Devs |-> NULL]
    /\ table = [w \in Wwids |-> NULL]
    /\ nr = 0
    /\ uevq = << >>
    /\ mapq = [w \in Wwids |-> << >>]
    /\ cont = NoCall
    /\ pathvec = << >>
    /\ path = [i \in Addrs |-> Free]
    /\ mpvec = {}
    /\ mp = [w \in Wwids |-> NewMap]
    /\ wwids = {}
    /\ disturbed = FALSE

\* udev may not have read the WWID when it sends the event.
Reported(w) == {w} \cup (IF "udev" \in Faults THEN {NULL} ELSE {})

Happens(e) ==
    /\ nr < MaxEvents
    /\ nr' = nr + 1
    /\ uevq' = Append(uevq, e)
    /\ UNCHANGED <<cont, tableVars>>

DeviceHas(d, w, act) ==
    /\ dev' = [dev EXCEPT ![d] = w]
    /\ \E u \in Reported(w) : /\ Happens(DevEvent(act, d, u))
                             /\ disturbed' = (disturbed \/ u # w)
    /\ UNCHANGED table

DeviceAdded(d, w)   == dev[d] = NULL /\ DeviceHas(d, w, "add")
DeviceChanged(d, w) == dev[d] # NULL /\ DeviceHas(d, w, "change")

DeviceRemoved(d) ==
    /\ dev[d] # NULL
    /\ dev' = [dev EXCEPT ![d] = NULL]
    /\ Happens(DevEvent("remove", d, dev[d]))
    /\ UNCHANGED <<table, disturbed>>

\* Another program changes a map.  udev handles devices in parallel: the events of
\* a map are in order, but not with those of other devices.
MapBecomes(w, devs, act) ==
    /\ "dmsetup" \in Operators
    /\ nr < MaxEvents
    /\ nr' = nr + 1
    /\ table' = [table EXCEPT ![w] = devs]
    /\ mapq' = [mapq EXCEPT ![w] = Append(@, act)]
    /\ UNCHANGED <<dev, uevq, cont, pathvec, path, mpvec, mp, wwids, disturbed>>

MapRemoved(w)   == table[w] # NULL /\ MapBecomes(w, NULL, "remove")
MapLoaded(w, S) == table[w] # S /\ MapBecomes(w, S, "change")

-----------------------------------------------------------------------------
(* The threads.  Each action holds vecs->lock.                             *)

Finish(t, rest, call, o) ==
    /\ Become(t)
    /\ uevq' = rest \o t.uevs
    /\ cont' = call
    /\ disturbed' = (disturbed \/ Failed(o))
    /\ UNCHANGED <<dev, nr>>

\* What uev_trigger() does next: the second handler of its event, or the next event.
Todo == IF cont # NoCall THEN cont ELSE IF uevq # << >> THEN Head(uevq) ELSE NoCall
Rest == IF cont # NoCall THEN uevq ELSE Tail(uevq)

PathTodo(act) == Todo # NoCall /\ Todo.act = act

\* Only the last event of a group of merged ones reloads the map.
Merged ==
    /\ cont = NoCall
    /\ Len(uevq) > 1
    /\ uevq[1].act = uevq[2].act
    /\ uevq[1].wwid = uevq[2].wwid /\ uevq[1].wwid # NULL
NeedDoMap == IF Merged THEN BOOLEAN ELSE {TRUE}

\* Answers to the calls made after a path that was marked for removal is gone.
Answers2(d) ==
    LET i == find_path_by_dev(Tables, d)
    IN IF i # NULL /\ path[i].initialized = "REMOVED" /\ path[i].mpp # NULL THEN Answers ELSE {Good}

ServeAdd ==
    /\ PathTodo("add")
    /\ \E o \in Answers, o2 \in Answers2(Todo.dev), need \in NeedDoMap :
          LET Done(r) == Finish(r.t, Rest, r.cont, IF Failed(o) THEN o ELSE o2)
          IN Done(uev_add_path(Tables, Todo.dev, Todo.wwid, need, o, o2))

ServeRemove ==
    /\ PathTodo("remove")
    /\ \E o \in Replies, need \in NeedDoMap :
          Finish(uev_remove_path(Tables, Todo.dev, need, o), Rest, NoCall, o)

ServeChange ==
    /\ PathTodo("change")
    /\ \E o \in Replies :
          LET Done(r) == Finish(r.t, Rest, r.cont, o)
          IN Done(uev_update_path(Tables, Todo.dev, Todo.wwid, o))

ServeMap(w) ==
    /\ cont = NoCall
    /\ mapq[w] # << >>
    /\ \E o \in Replies :
          LET t == [Tables EXCEPT !.mapq[w] = Tail(@)]
          IN Finish(IF Head(mapq[w]) = "change" THEN uev_add_map(t, w, o)
                    ELSE uev_remove_map(t, w), uevq, NoCall, o)

CheckPath(i) ==
    /\ i \in Known(Tables)
    /\ path[i].mpp # NULL /\ path[i].initialized = "NEW"
    /\ dev[path[i].dev] # NULL
    /\ \E o \in Replies : Finish(update_path_state(Tables, i, o), uevq, cont, o)

\* check_uninitialized_path() asks udev for another event, or gives up.
AskUdev(i) ==
    [Tables EXCEPT !.path[i].initialized = "REQUESTED_UDEV", !.path[i].retriggers = @ + 1,
        !.uevs = IF dev[path[i].dev] = NULL THEN << >>
                 ELSE <<DevEvent("change", path[i].dev, dev[path[i].dev])>>]

Retrigger(i) ==
    /\ i \in Known(Tables)
    /\ path[i].mpp = NULL /\ path[i].initialized = "MISSING_UDEV"
    /\ Finish(IF path[i].retriggers < retrigger_tries THEN AskUdev(i)
              ELSE [Tables EXCEPT !.path[i].initialized = "FAILED"], uevq, cont, Good)

CheckUninitialized(i) ==
    /\ i \in Known(Tables)
    /\ path[i].mpp = NULL /\ path[i].initialized \in {"NEW", "FAILED"}
    /\ path[i].wwid = NULL
    /\ dev[path[i].dev] # NULL
    /\ \E o \in Answers : Finish(update_uninitialized_path(Tables, i, o), uevq, cont, o)

\* A map that is to be reloaded anyway needs no other reason; only update_map(),
\* for a delayed reload whose wait runs out, opens devices and removes maps.
CheckerFinished ==
    LET waiting == {w \in mpvec : mp[w].wait_for_udev # "DONE"}
        delayed == {w \in mpvec : mp[w].wait_for_udev = "RELOAD"}
        other   == {w \in mpvec \ delayed : ~mp[w].need_reload}
    IN \E expired \in SUBSET waiting :
       \E o \in {a \in Replies : expired \cap delayed = {} => a.flush /\ a.info} :
       \E t \in checker_finished(Tables, o, BOOLEAN, expired, other) : Finish(t, uevq, cont, o)

Commanded(t) ==
    /\ "cli" \in Operators
    /\ nr < MaxEvents
    /\ nr' = nr + 1
    /\ Become(t)
    /\ uevq' = uevq \o t.uevs
    /\ disturbed' = TRUE
    /\ UNCHANGED <<dev, cont>>

CliAddPath(d) == \E o \in Answers, o2 \in Answers2(d) : Commanded(cli_add_path(Tables, d, o, o2))
CliDelPath(d) == \E o \in Replies : Commanded(cli_del_path(Tables, d, o))
CliReload(w)  == \E o \in Replies : Commanded(cli_reload(Tables, w, o))
CliDelMap(w)  == \E o \in Replies : Commanded(cli_del_map(Tables, w, o))

Next ==
    \/ \E d \in Devs : \/ \E w \in Luns[d] : DeviceAdded(d, w) \/ DeviceChanged(d, w)
                       \/ DeviceRemoved(d)
                       \/ CliAddPath(d) \/ CliDelPath(d)
    \/ \E w \in Wwids : \/ MapRemoved(w)
                        \/ \E S \in SUBSET {d \in Devs : dev[d] = w} : MapLoaded(w, S)
                        \/ CliReload(w) \/ CliDelMap(w)
                        \/ ServeMap(w)
    \/ ServeAdd \/ ServeRemove \/ ServeChange
    \/ \E i \in Addrs : CheckPath(i) \/ Retrigger(i) \/ CheckUninitialized(i)
    \/ CheckerFinished

Spec == Init /\ [][Next]_vars

-----------------------------------------------------------------------------
(* Properties.                                                             *)

\* Every variable has its type.
TypeOK ==
    /\ dev \in [Devs -> Wwids \cup {NULL}]
    /\ table \in [Wwids -> SUBSET Devs \cup {NULL}]
    /\ nr \in 0..MaxEvents
    /\ uevq \in Seq(Event)
    /\ mapq \in [Wwids -> Seq({"change", "remove"})]
    /\ pathvec \in Seq(Addrs)
    /\ path \in [Addrs -> Path]
    /\ mpvec \subseteq Wwids
    /\ mp \in [Wwids -> Map]
    /\ wwids \subseteq Wwids
    /\ disturbed \in BOOLEAN

\* The tables are well-formed, and no pointer in them points to freed memory: the
\* paths in the lists of a map are in pathvec, those in mpp->paths do not point to
\* another map, and a path points to a map in mpvec or to none.
TablesLinked ==
    /\ TypeOK
    /\ \A i \in Addrs : path[i].dev # NULL <=> i \in Known(Tables)
    /\ \A w \in mpvec : /\ mp[w].paths \cup mp[w].pg \subseteq Known(Tables)
                        /\ \A i \in mp[w].paths : path[i].mpp \in {w, NULL}
    /\ \A i \in Known(Tables) : path[i].mpp \in mpvec \cup {NULL}

\* Nothing is left to do: no event is pending, no map waits for udev, and the
\* checker changes nothing when no call fails.
Quiescent ==
    /\ uevq = << >> /\ cont = NoCall
    /\ \A w \in Wwids : mapq[w] = << >>
    /\ \A w \in mpvec : mp[w].wait_for_udev = "DONE"
    /\ \A i \in Known(Tables) :
          /\ path[i].mpp # NULL => path[i].initialized # "NEW"
          /\ path[i].mpp = NULL => /\ path[i].initialized \in {"OK", "NEW", "FAILED"}
                                   /\ path[i].initialized # "OK" => path[i].wwid # NULL
    /\ checker_finished(Tables, Good, {TRUE}, {}, {}) = {Tables}

\* When everything is settled and no call has failed, the maps of the kernel hold
\* only devices that exist and are of their LUN, and no device that is gone is
\* known: events of the devices, of udev, of other programs and the checker are
\* combined in any order, with removals that had to wait for udev.
SettledInSync ==
    Quiescent /\ ~disturbed =>
        /\ \A w \in Wwids : table[w] # NULL => \A d \in table[w] : dev[d] = w
        /\ \A i \in Known(Tables) : dev[path[i].dev] # NULL

=============================================================================
