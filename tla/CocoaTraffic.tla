---------------------------- MODULE CocoaTraffic ----------------------------
(***************************************************************************)
(* marvin_objc and apps/proxy_cocoa: the window that shows the captured    *)
(* exchanges, host by host.  A background thread runs the proxy and its    *)
(* ObjcCollector, which hands each exchange over to the main thread; there *)
(* CapturedTraffic files it and is the data source of an outline view.     *)
(*                                                                         *)
(* External: the proxy that collects, the run loop of the main thread, and *)
(* NSOutlineView, which asks its data source when it draws.                *)
(***************************************************************************)
EXTENDS Naturals, Sequences

CONSTANTS
  TrafficHosts,
  MaxCollected,   \* bound: exchanges
  MaxClears       \* bound: calls of clear

VARIABLES
  main_thread, background,     \* where the two threads are
  _delegateObj, _anonDelegate, \* delegates of MarvinObjc and of ObjcCollector: set or not
  ioLoop,                      \* calls of postedCollect under way
  mainQueue,                   \* notifications for the main thread
  _hosts,                      \* [names of hosts -> number of the TrafficForHost]
  _hostsArray,                 \* names of hosts
  _traffic,                    \* per TrafficForHost made, its exchanges
  rows, dirty,                 \* what the view shows, and that it is to be drawn again
  open_rows,                   \* per row that is open its item, and the children it was given
  _expandedRow,                \* what clickedRow was, counted from 1; nothing reads it
  gathered, clears,            \* counters for the bounds
  filed                        \* ghost: exchanges notified since the last clear

traffic   == <<_hosts, _hostsArray, _traffic>>
view      == <<rows, open_rows, dirty, _expandedRow>>
collector == <<background, _anonDelegate, ioLoop>>
counters  == <<gathered, clears, filed>>
vars      == <<main_thread, _delegateObj, mainQueue, traffic, view, collector, counters>>

\* HttpNotification: of its properties the host is told apart.
Exchange(id, h) == [id |-> id, host |-> h]

Init ==
  /\ main_thread = "starting" /\ background = "none"
  /\ _delegateObj = FALSE /\ _anonDelegate = FALSE
  /\ ioLoop = <<>> /\ mainQueue = <<>>
  /\ _hosts = <<>> /\ _hostsArray = <<>> /\ _traffic = <<>>
  /\ rows = <<>> /\ open_rows = <<>> /\ dirty = FALSE /\ _expandedRow = 0
  /\ gathered = 0 /\ clears = 0 /\ filed = <<>>

\* The delegate is given to MarvinObjc, whose start lets a new thread run.
applicationDidFinishLaunching ==
  /\ main_thread = "starting" /\ main_thread' = "running"
  /\ _delegateObj' = TRUE /\ background' = "created"
  /\ UNCHANGED <<mainQueue, traffic, view, _anonDelegate, ioLoop, counters>>

\* MarvinObjc::run: ObjcCollector is given the delegate before the server
\* listens, on port 9991 whatever setPort was given.
run ==
  /\ background = "created" /\ background' = "listening"
  /\ _anonDelegate' = _delegateObj
  /\ UNCHANGED <<main_thread, _delegateObj, mainQueue, traffic, view, ioLoop, counters>>

\* ObjcCollector::collect, of the one instance: posted through its strand.
collect(h) ==
  /\ background = "listening" /\ gathered < MaxCollected
  /\ gathered' = gathered + 1
  /\ ioLoop' = Append(ioLoop, Exchange(gathered + 1, h))
  /\ UNCHANGED <<main_thread, _delegateObj, mainQueue, traffic, view, background, _anonDelegate, clears, filed>>

\* A notification is made and handed to the main thread, without waiting.  A
\* message to a delegate that is nil does nothing.
postedCollect ==
  /\ ioLoop # <<>> /\ ioLoop' = Tail(ioLoop)
  /\ mainQueue' = IF _anonDelegate THEN Append(mainQueue, Head(ioLoop)) ELSE mainQueue
  /\ UNCHANGED <<main_thread, _delegateObj, traffic, view, background, _anonDelegate, counters>>

-----------------------------------------------------------------------------
(* CapturedTraffic and TrafficForHost.                                      *)

hasHost(h) == h \in DOMAIN _hosts
numberOfHosts == Len(_hostsArray)

\* The TrafficForHost of a row, 0 for nil.
hostAtIndex(i) == IF hasHost(_hostsArray[i]) THEN _hosts[_hostsArray[i]] ELSE 0

\* The first row with the name, 0 for none.
indexForHost(h) ==
  IF hasHost(h)
  THEN CHOOSE i \in DOMAIN _hostsArray : _hostsArray[i] = h /\ \A j \in 1..(i - 1) : _hostsArray[j] # h
  ELSE 0

\* Mutation: a host that is there is made again.
addHost_Always(h) ==
  /\ _hosts' = [n \in DOMAIN _hosts \cup {h} |-> IF n = h THEN Len(_traffic) + 1 ELSE _hosts[n]]
  /\ _hostsArray' = Append(_hostsArray, h)

\* A host that is not there is made, and becomes the last row.
addHost(h) ==
  IF hasHost(h) THEN UNCHANGED <<_hosts, _hostsArray>>
  ELSE /\ _hosts' = [n \in DOMAIN _hosts \cup {h} |-> IF n = h THEN Len(_traffic) + 1 ELSE _hosts[n]]
       /\ _hostsArray' = Append(_hostsArray, h)

\* TrafficForHost: initForHost and add.
add(object, id) ==
  _traffic' = IF object \in DOMAIN _traffic THEN [_traffic EXCEPT ![object] = Append(@, id)]
                                            ELSE Append(_traffic, <<id>>)

\* ViewController::updateView: the view is to ask its data source again.
updateView == dirty' = TRUE /\ UNCHANGED <<rows, open_rows, _expandedRow>>

addTrafficForHost(h, id) == addHost(h) /\ add(_hosts'[h], id) /\ updateView

\* MarvinDelegateObjc::notify, on the main thread.
notify ==
  /\ main_thread = "running" /\ mainQueue # <<>>
  /\ mainQueue' = Tail(mainQueue)
  /\ addTrafficForHost(Head(mainQueue).host, Head(mainQueue).id)
  /\ filed' = Append(filed, Head(mainQueue))
  /\ UNCHANGED <<main_thread, _delegateObj, collector, gathered, clears>>

\* clear empties the dictionary; the names of the rows stay.
clear ==
  /\ main_thread = "running" /\ clears < MaxClears
  /\ clears' = clears + 1 /\ filed' = <<>>
  /\ _hosts' = <<>>
  /\ UNCHANGED <<main_thread, _delegateObj, mainQueue, _hostsArray, _traffic, view, collector, gathered>>

-----------------------------------------------------------------------------
(* The data source and the delegate of the view: an item is 0 for nil, or   *)
(* the number of a TrafficForHost.                                          *)

numberOfChildrenOfItem(item) == IF item = 0 THEN numberOfHosts ELSE Len(_traffic[item])
child(i, item) == IF item = 0 THEN hostAtIndex(i) ELSE _traffic[item][i]

\* Both of an item that is a row: a TrafficForHost, or nil.
isItemExpandable(item) == item \in DOMAIN _traffic
shouldExpandItem(item) == item \in DOMAIN _traffic

\* The view draws its rows.
Draws ==
  /\ main_thread = "running" /\ dirty
  /\ dirty' = FALSE
  /\ rows' = [i \in 1..numberOfChildrenOfItem(0) |-> child(i, 0)]
  /\ UNCHANGED <<main_thread, _delegateObj, mainQueue, traffic, collector, counters, open_rows, _expandedRow>>

\* The user opens a row, and the view asks for its children; or closes it.
Expands ==
  /\ main_thread = "running"
  /\ \E i \in DOMAIN rows :
       /\ isItemExpandable(rows[i]) /\ shouldExpandItem(rows[i])
       /\ open_rows' = [item \in DOMAIN open_rows \cup {rows[i]} |->
                     IF item = rows[i] THEN [c \in 1..numberOfChildrenOfItem(item) |-> child(c, item)]
                                       ELSE open_rows[item]]
  /\ UNCHANGED <<main_thread, _delegateObj, mainQueue, traffic, collector, counters, rows, dirty, _expandedRow>>

Collapses ==
  /\ main_thread = "running" /\ DOMAIN open_rows # {}
  /\ \E closed \in DOMAIN open_rows : open_rows' = [item \in DOMAIN open_rows \ {closed} |-> open_rows[item]]
  /\ UNCHANGED <<main_thread, _delegateObj, mainQueue, traffic, collector, counters, rows, dirty, _expandedRow>>

\* The rows on the screen: those of the hosts, and under each that is open its
\* children.
ShownRows ==
  LET upto[i \in 0..Len(rows)] ==
        IF i = 0 THEN 0
        ELSE upto[i - 1] + 1 + (IF rows[i] \in DOMAIN open_rows THEN Len(open_rows[rows[i]]) ELSE 0)
  IN  upto[Len(rows)]

\* A click twice on a row, or beside all rows (0).
doubleClick ==
  /\ main_thread = "running"
  /\ _expandedRow' \in 0..ShownRows
  /\ UNCHANGED <<main_thread, _delegateObj, mainQueue, traffic, collector, counters, rows, open_rows, dirty>>

Next ==
  \/ applicationDidFinishLaunching \/ run \/ postedCollect \/ notify \/ clear \/ Draws
  \/ Expands \/ Collapses \/ doubleClick
  \/ \E h \in TrafficHosts : collect(h)

-----------------------------------------------------------------------------
\* What was collected is filed: no exchange is lost between the threads, and
\* those notified since the last clear are under their host, once, in the order
\* they were collected; the row that indexForHost gives is the host's.  A drawn
\* view has a row for each host, and while nothing was cleared it has no row
\* twice and none that is nil.  An open row shows what its host had when it was
\* opened.
TrafficFiled ==
  /\ LET queued == mainQueue \o ioLoop IN
     /\ \A i \in DOMAIN queued : queued[i].id = gathered - Len(queued) + i
     /\ clears = 0 => Len(filed) + Len(queued) = gathered
  /\ \A h \in TrafficHosts :
       LET of  == {filed[k].id : k \in {k \in DOMAIN filed : filed[k].host = h}}
           ids == _traffic[_hosts[h]]
       IN  /\ hasHost(h) <=> of # {}
           /\ hasHost(h) =>
                /\ {ids[k] : k \in DOMAIN ids} = of
                /\ \A j, k \in DOMAIN ids : j < k => ids[j] < ids[k]
                /\ hostAtIndex(indexForHost(h)) = _hosts[h]
  /\ ~dirty /\ (clears = 0 \/ filed # <<>>) => {_hosts[h] : h \in DOMAIN _hosts} \subseteq {rows[i] : i \in DOMAIN rows}
  /\ clears = 0 => \A i, j \in DOMAIN rows : rows[i] # 0 /\ (rows[i] = rows[j] => i = j)
  /\ \A item \in DOMAIN open_rows :
       /\ Len(open_rows[item]) <= Len(_traffic[item])
       /\ \A c \in DOMAIN open_rows[item] : open_rows[item][c] = _traffic[item][c]
=============================================================================
