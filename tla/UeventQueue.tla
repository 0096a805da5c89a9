---------------------------- MODULE UeventQueue -----------------------------
(***************************************************************************)
(* The uevent queue of multipathd (libmultipath/uevent.c): the thread      *)
(* uevent_listen() receives uevents from udev and forwards them in batches *)
(* to the thread uevent_dispatch(), which discards, filters and merges the *)
(* events it has not served yet and serves them one by one.                *)
(*                                                                         *)
(* Filtering and merging change the order in which events are served and   *)
(* drop some of them.  The model keeps, beside the queues, the devices as  *)
(* they are (real) and as the served events describe them (table).         *)
(***************************************************************************)
EXTENDS Naturals, Sequences, SequencesExt

CONSTANTS
  Paths,        \* path devices
  Wwids,        \* Wwids[p]: the values the WWID of p may take, NoWwid for none
  Blacklisted,  \* the paths that blist_devnode matches
  uid_attrs,    \* TRUE: uid_attrs is configured, events are merged
  MAX_UEVENTS,  \* events received in one go
  MaxEvents     \* bound on the number of uevents

NoWwid == "none"
Absent == "absent"
Dm     == "dm"    \* a device-mapper device

ASSUME ConstantsAssumption ==
  /\ Dm \notin Paths
  /\ Blacklisted \subseteq Paths
  /\ uid_attrs \in BOOLEAN
  /\ MAX_UEVENTS \in Nat \ {0}
  /\ MaxEvents \in Nat

VARIABLES
  real,       \* kernel: WWID of each path device, or Absent
  nr,         \* uevents sent so far
  dmsent,     \* numbers of the uevents of dm devices among them
  sock,       \* the netlink socket: uevents udev has sent
  lpc,        \* place of uevent_listen()
  adding_uev,
  tmpq,       \* uevlisten_tmp
  uevq,       \* the queue the two threads share
  dpc,        \* place of uevent_dispatch()
  servicing_uev,
  queue,      \* filter_state.uevq: nodes with the events merged into them
  table,      \* WWID of each path as multipathd knows it, or Absent
  dmlog       \* numbers of the dm events that were served

kernelVars   == <<real, nr, dmsent>>
listenerVars == <<lpc, adding_uev, tmpq>>
serviceVars  == <<dpc, servicing_uev, queue, table, dmlog>>
vars         == <<kernelVars, sock, listenerVars, uevq, serviceVars>>

Event == [dev : Paths \cup {Dm}, act : {"add", "remove", "change"},
          wwid : {NoWwid} \cup UNION {Wwids[p] : p \in Paths}, nr : 1..MaxEvents]
Node  == [uev : Event, merge_node : Seq(Event), new : BOOLEAN]

-----------------------------------------------------------------------------
(* Filtering and merging.                                                  *)

\* uevent_prepare() gives only path events a WWID, and only if uid_attrs is set.
WwidOf(e) == IF uid_attrs /\ e.dev # Dm THEN e.wwid ELSE NoWwid

uevent_can_discard(e) == e.dev \in Blacklisted

FilterDm(e, l) ==
    /\ e.dev = l.dev
    /\ l.act = "remove" \/ (e.act = "change" /\ l.act = "add")

\* An event is superseded by a later removal of the device, and a change by a
\* later addition.
uevent_can_filter(e, l) ==
    /\ l.dev # Dm
    /\ e.dev = l.dev
    /\ l.act = "remove" \/ (e.act = "change" /\ l.act = "add")

MergeStopsLate(e, l) ==
    \/ l.dev = Dm
    \/ WwidOf(e) = NoWwid \/ WwidOf(l) = NoWwid

\* No event is moved across an opposite event of the same LUN.
merge_need_stop(e, l) ==
    \/ l.dev = Dm
    \/ WwidOf(e) = NoWwid \/ WwidOf(l) = NoWwid
    \/ /\ e.act # l.act
       /\ e.act # "change" /\ l.act # "change"
       /\ WwidOf(e) = WwidOf(l)

uevent_can_merge(e, l) ==
    /\ WwidOf(e) # NoWwid /\ WwidOf(l) # NoWwid
    /\ e.dev # Dm
    /\ e.act = l.act
    /\ e.act \in {"add", "remove"}
    /\ WwidOf(e) = WwidOf(l)

Single(e, new) == [uev |-> e, merge_node |-> << >>, new |-> new]

Singles(evs, new) == [i \in 1..Len(evs) |-> Single(evs[i], new)]

DeleteGroup(n, tail) == tail

\* The events merged into n take its place.  They count as new if n was the
\* last old node (old_tail).
uevent_delete_from_list(n, tail) ==
    LET new == \A i \in 1..Len(tail) : tail[i].new
    IN Singles(n.merge_node, new) \o tail

\* The nodes before a node with event l, without the events that l supersedes.
uevent_filter(nodes, l) ==
    LET Visit(n, tail) ==
          LET rest == [n EXCEPT !.merge_node =
                          SelectSeq(@, LAMBDA e : ~uevent_can_filter(e, l))]
          IN IF uevent_can_filter(n.uev, l)
             THEN uevent_delete_from_list(rest, tail)
             ELSE <<rest>> \o tail
    IN FoldRight(Visit, nodes, << >>)

\* The nodes before `later' that stay, and `later' with the others.  Walking
\* backwards, a node joins at the head of later's list, and what was merged
\* into it goes before it.
uevent_merge(nodes, later) ==
    LET Visit(n, acc) ==
          LET stop == acc.stop \/ merge_need_stop(n.uev, later.uev)
          IN IF ~stop /\ uevent_can_merge(n.uev, later.uev)
             THEN [acc EXCEPT !.merged = n.merge_node \o <<n.uev>> \o @]
             ELSE [acc EXCEPT !.stop = stop, !.nodes = <<n>> \o @]
        res == FoldRight(Visit, nodes,
                         [stop |-> FALSE, nodes |-> << >>, merged |-> later.merge_node])
    IN <<res.nodes, [later EXCEPT !.merge_node = res.merged]>>

\* The loops of merge_uevq(): each new node in turn, starting with the last.
RECURSIVE FilterNew(_)
FilterNew(nodes) ==
    IF nodes = << >> \/ ~Last(nodes).new THEN nodes
    ELSE Append(FilterNew(uevent_filter(Front(nodes), Last(nodes).uev)), Last(nodes))

RECURSIVE MergeNew(_)
MergeNew(nodes) ==
    IF nodes = << >> \/ ~Last(nodes).new THEN nodes
    ELSE LET res == uevent_merge(Front(nodes), Last(nodes))
         IN Append(MergeNew(res[1]), res[2])

\* uevent_prepare()
uevent_prepare(evs) == Singles(SelectSeq(evs, LAMBDA e : ~uevent_can_discard(e)), TRUE)

Old(nodes) == [i \in 1..Len(nodes) |-> [nodes[i] EXCEPT !.new = FALSE]]

\* The nodes that were left of earlier rounds, and the new events.
merge_uevq(nodes, evs) ==
    LET filtered == FilterNew(Old(nodes) \o uevent_prepare(evs))
    IN Old(IF uid_attrs THEN MergeNew(filtered) ELSE filtered)

-----------------------------------------------------------------------------
Init ==
    /\ real \in {f \in [Paths -> {Absent} \cup UNION {Wwids[p] : p \in Paths}] :
                    \A p \in Paths : f[p] \in Wwids[p] \cup {Absent}}
    /\ nr = 0
    /\ dmsent = << >>
    /\ sock = << >>
    /\ lpc = "poll"
    /\ adding_uev = FALSE
    /\ tmpq = << >>
    /\ uevq = << >>
    /\ dpc = "loop"
    /\ servicing_uev = FALSE
    /\ queue = << >>
    /\ table = [p \in Paths |-> IF p \in Blacklisted THEN Absent ELSE real[p]]
    /\ dmlog = << >>

(* The kernel and udev: a device comes, changes or goes.                   *)

Send(d, act, wwid) ==
    /\ nr < MaxEvents
    /\ nr' = nr + 1
    /\ dmsent' = IF d = Dm THEN Append(dmsent, nr') ELSE dmsent
    /\ sock' = Append(sock, [dev |-> d, act |-> act, wwid |-> wwid, nr |-> nr + 1])
    /\ UNCHANGED <<listenerVars, uevq, serviceVars>>

DeviceAdded(p) ==
    /\ real[p] = Absent
    /\ \E w \in Wwids[p] :
          real' = [real EXCEPT ![p] = w] /\ Send(p, "add", w)

DeviceChanged(p) ==
    /\ real[p] # Absent
    /\ Send(p, "change", real[p])
    /\ UNCHANGED real

DeviceRemoved(p) ==
    /\ real[p] # Absent
    /\ real' = [real EXCEPT ![p] = Absent]
    /\ Send(p, "remove", real[p])

\* A map is created or reloaded, or one of its paths fails; or it is removed.
MapEvent ==
    /\ \E act \in {"change", "remove"} : Send(Dm, act, NoWwid)
    /\ UNCHANGED real

-----------------------------------------------------------------------------
(* The thread uevent_listen().                                             *)

\* poll() returns.
ListenerWakes ==
    /\ lpc = "poll"
    /\ sock # << >>
    /\ adding_uev' = TRUE
    /\ lpc' = "receive"
    /\ UNCHANGED <<kernelVars, sock, tmpq, uevq, serviceVars>>

ReceiveAll ==
    /\ lpc = "receive"
    /\ tmpq' = sock
    /\ sock' = << >>
    /\ lpc' = "forward"
    /\ UNCHANGED <<kernelVars, adding_uev, uevq, serviceVars>>

\* Events are received while there are some, at most MAX_UEVENTS of them.
uevent_receive_events ==
    /\ lpc = "receive"
    /\ \E n \in 1..Len(sock) :
          /\ n <= MAX_UEVENTS
          /\ tmpq' = SubSeq(sock, 1, n)
          /\ sock' = SubSeq(sock, n + 1, Len(sock))
    /\ lpc' = "forward"
    /\ UNCHANGED <<kernelVars, adding_uev, uevq, serviceVars>>

\* The device cannot be received (its message is not for us): events <= 0.
ReceiveNothing ==
    /\ lpc = "receive"
    /\ lpc' = "loop"
    /\ UNCHANGED <<kernelVars, sock, adding_uev, tmpq, uevq, serviceVars>>

ForwardSilently ==
    /\ lpc = "forward"
    /\ uevq' = uevq \o tmpq
    /\ tmpq' = << >>
    /\ lpc' = "loop"
    /\ UNCHANGED <<kernelVars, sock, adding_uev, serviceVars>>

\* The batch goes to the shared queue and the dispatcher is signalled.
ListenerForwards ==
    /\ lpc = "forward"
    /\ uevq' = uevq \o tmpq
    /\ tmpq' = << >>
    /\ dpc' = IF dpc = "wait" THEN "loop" ELSE dpc
    /\ lpc' = "loop"
    /\ UNCHANGED <<kernelVars, sock, adding_uev, servicing_uev, queue, table, dmlog>>

ListenerLoops ==
    /\ lpc = "loop"
    /\ adding_uev' = FALSE
    /\ lpc' = "poll"
    /\ UNCHANGED <<kernelVars, sock, tmpq, uevq, serviceVars>>

Listener ==
    \/ ListenerWakes \/ uevent_receive_events \/ ReceiveNothing
    \/ ListenerForwards \/ ListenerLoops

-----------------------------------------------------------------------------
(* The thread uevent_dispatch().                                           *)

\* Nothing to do: pthread_cond_wait().
DispatcherWaits ==
    /\ dpc = "loop"
    /\ queue = << >> /\ uevq = << >>
    /\ servicing_uev' = FALSE
    /\ dpc' = "wait"
    /\ UNCHANGED <<kernelVars, sock, listenerVars, uevq, queue, table, dmlog>>

TakesUnnoticed ==
    /\ dpc = "loop"
    /\ queue # << >> \/ uevq # << >>
    /\ servicing_uev' = (queue # << >>)
    /\ queue' = merge_uevq(queue, uevq)
    /\ uevq' = << >>
    /\ dpc' = "service"
    /\ UNCHANGED <<kernelVars, sock, listenerVars, table, dmlog>>

\* The dispatcher takes over the new events and merges them with its own.
DispatcherTakes ==
    /\ dpc = "loop"
    /\ queue # << >> \/ uevq # << >>
    /\ servicing_uev' = TRUE
    /\ queue' = merge_uevq(queue, uevq)
    /\ uevq' = << >>
    /\ dpc' = "service"
    /\ UNCHANGED <<kernelVars, sock, listenerVars, table, dmlog>>

\* What the handlers make of the table of known paths, for paths whose
\* properties can be read.  The addition of a known path is spurious.
uev_add_path(t, e) == IF t[e.dev] = Absent THEN [t EXCEPT ![e.dev] = e.wwid] ELSE t

uev_remove_path(t, e) == [t EXCEPT ![e.dev] = Absent]

\* The change of an unknown path is spurious; a path whose WWID has changed is
\* removed and added again.
uev_update_path(t, e) ==
    IF t[e.dev] \in {Absent, e.wwid} THEN t
    ELSE uev_add_path(uev_remove_path(t, e), e)

Handle(t, e) ==
    CASE e.act = "add"    -> uev_add_path(t, e)
      [] e.act = "remove" -> uev_remove_path(t, e)
      [] e.act = "change" -> uev_update_path(t, e)

\* uev_trigger(): first the merged events, then the event itself.
uev_trigger(n) ==
    IF n.uev.dev = Dm
    THEN /\ dmlog' = Append(dmlog, n.uev.nr)
         /\ UNCHANGED table
    ELSE /\ table' = FoldLeft(Handle, table, Append(n.merge_node, n.uev))
         /\ UNCHANGED dmlog

service_uevq ==
    /\ dpc = "service"
    /\ IF queue = << >> THEN UNCHANGED <<queue, table, dmlog>>
       ELSE uev_trigger(Head(queue)) /\ queue' = Tail(queue)
    /\ dpc' = "loop"
    /\ UNCHANGED <<kernelVars, sock, listenerVars, uevq, servicing_uev>>

Dispatcher == DispatcherWaits \/ DispatcherTakes \/ service_uevq

-----------------------------------------------------------------------------
Next ==
    \/ \E p \in Paths : DeviceAdded(p) \/ DeviceChanged(p) \/ DeviceRemoved(p)
    \/ MapEvent
    \/ Listener
    \/ Dispatcher

Spec == Init /\ [][Next]_vars

-----------------------------------------------------------------------------
(* Properties.                                                             *)

\* Every variable has its type; no batch is larger than MAX_UEVENTS.
TypeOK ==
    /\ real \in [Paths -> {Absent} \cup UNION {Wwids[p] : p \in Paths}]
    /\ nr \in 0..MaxEvents
    /\ sock \in Seq(Event)
    /\ lpc \in {"poll", "receive", "forward", "loop"}
    /\ adding_uev \in BOOLEAN
    /\ tmpq \in Seq(Event) /\ Len(tmpq) <= MAX_UEVENTS
    /\ uevq \in Seq(Event)
    /\ dpc \in {"loop", "wait", "service"}
    /\ servicing_uev \in BOOLEAN
    /\ queue \in Seq(Node)
    /\ table \in [Paths -> {Absent} \cup UNION {Wwids[p] : p \in Paths}]
    /\ dmsent \in Seq(1..MaxEvents) /\ dmlog \in Seq(1..MaxEvents)

\* The events of the dispatcher in the order in which they will be served.
Served(nodes) ==
    FlattenSeq([i \in 1..Len(nodes) |-> Append(nodes[i].merge_node, nodes[i].uev)])

\* All events between udev and the handlers.
Pending == Served(queue) \o uevq \o tmpq \o sock

\* When all events have been served, multipathd knows exactly the path devices
\* that exist (and are not blacklisted) under their WWIDs, whatever was filtered
\* and merged on the way.
TableAgrees ==
    Pending = << >> /\ dpc # "service" =>
        \A p \in Paths : table[p] = IF p \in Blacklisted THEN Absent ELSE real[p]

\* merge_need_stop(): an addition and a removal of the same LUN are served in
\* the order in which they happened.
OppositeInOrder ==
    LET evs == Served(queue)
    IN \A i, j \in 1..Len(evs) :
          /\ i < j
          /\ evs[i].wwid = evs[j].wwid /\ evs[i].wwid # NoWwid
          /\ {evs[i].act, evs[j].act} = {"add", "remove"}
          => evs[i].nr < evs[j].nr

\* "do not filter dm devices": no event of a dm device is lost or overtaken by
\* another one; every PATH_FAILED event is counted.
DmEventsKept ==
    LET dmevs == SelectSeq(Pending, LAMBDA e : e.dev = Dm)
    IN dmlog \o [i \in 1..Len(dmevs) |-> dmevs[i].nr] = dmsent

is_uevent_busy == uevq # << >> \/ servicing_uev \/ adding_uev

\* "show status" (is_uevent_busy()) reports a busy queue as long as an event
\* that left the socket has not been served.
BusyWhileEvents ==
    tmpq # << >> \/ uevq # << >> \/ queue # << >> \/ dpc = "service" => is_uevent_busy

\* No wakeup is lost: the dispatcher never waits while there are events, and
\* the listener polls with an empty hand, so every uevent is served in the end.
NoEventStranded ==
    /\ dpc = "wait" => uevq = << >> /\ queue = << >>
    /\ lpc = "poll" => tmpq = << >>

\* "AVOID ... to merge as "add path1, path2" and "remove path1, path2, path3""
\* (merge_need_stop()): an addition and a removal of the same path device are
\* served in the order in which they happened.
PathInOrder ==
    LET evs == Served(queue)
    IN \A i, j \in 1..Len(evs) :
          /\ i < j
          /\ evs[i].dev = evs[j].dev /\ evs[i].dev # Dm
          /\ {evs[i].act, evs[j].act} = {"add", "remove"}
          => evs[i].nr < evs[j].nr
=============================================================================
