-------------------------- MODULE LiveReload_proofs --------------------------
(***************************************************************************)
(* Proofs about module LiveReload for any number of tabs, connections and  *)
(* files: no change of a watched file is lost on its way to a page, but in *)
(* the gap between the rendering of the page and the add of its client.    *)
(***************************************************************************)
EXTENDS LiveReload, TLAPS

USE LiveReloadAssumption DEF LiveReloadAssumption

(* OutdatedIsNotified, said of every tab that has read files: a page that  *)
(* is being rendered has to carry the knowledge over to when it is live.   *)
Noticed ==
    \A t \in Tabs, f \in Watched :
        f \in old[t] => f \in events \/ f \in missed[t] \/ Coming(t)

Inv == TypeOK /\ Noticed

------------------------------------------------------------------------------
(* What the shared parts of the actions do.                                *)

LEMMA UnloadTypes ==
    ASSUME TypeOK, NEW t \in Tabs, Unload(t),
           page' \in [Tabs -> {"closed", "fetch", "live", "retry", "error"}],
           page'[t] # "live", page'[t] = "fetch" => up,
           \A u \in Tabs \ {t} : page'[u] = page[u],
           UNCHANGED <<broken, server>>
    PROVE  TypeOK'
<1> USE DEF TypeOK, Unload, InHub, server
<1>1. /\ read' \in [Tabs -> SUBSET Rendered] /\ old' \in [Tabs -> SUBSET Rendered]
      /\ missed' \in [Tabs -> SUBSET Rendered] /\ owner' \in [Conns -> Tabs \cup {NoTab}]
      /\ wire' \subseteq Conns /\ cut' \subseteq Conns
  OBVIOUS
<1>2. Attached(t)' = {} /\ \A u \in Tabs \ {t} : Attached(u)' = Attached(u)
  BY DEF Attached
<1>3. ASSUME NEW u \in Tabs
      PROVE  /\ old'[u] \subseteq read'[u] /\ missed'[u] \subseteq read'[u]
             /\ page'[u] = "live" => \E c \in Conns : Attached(u)' = {c}
             /\ page'[u] # "live" => Attached(u)' = {}
             /\ page'[u] \notin {"fetch", "live"} => read'[u] = {}
             /\ read'[u] # {} => Dashboard \in read'[u]
  <2>1. CASE u = t
    BY <1>2, <2>1
  <2>2. CASE u # t
    BY <1>2, <2>2
  <2>3. QED
    BY <2>1, <2>2
<1>4. ASSUME NEW c \in Conns
      PROVE  /\ owner'[c] # NoTab /\ c \notin cut' => handler'[c] # "none"
             /\ full'[c] => c \in clients'
  BY DEF Attached
<1>5. ~up' => \A u \in Tabs : page'[u] # "fetch"
  OBVIOUS
<1>6. QED
  BY <1>1, <1>3, <1>4, <1>5

LEMMA UnloadNoticed ==
    ASSUME Inv, NEW t \in Tabs, Unload(t), UNCHANGED server
    PROVE  Noticed'
<1> SUFFICES ASSUME NEW u \in Tabs, NEW f \in Watched, f \in old'[u]
             PROVE  f \in events' \/ f \in missed'[u] \/ Coming(u)'
  BY DEF Noticed
<1> USE DEF Inv, TypeOK, Unload, server
<1>1. u # t
  OBVIOUS
<1>2. f \in old[u] /\ missed'[u] = missed[u]
  BY <1>1
<1>3. ASSUME Coming(u) PROVE Coming(u)'
  BY <1>1, <1>3 DEF Coming, Attached
<1>4. QED
  BY <1>2, <1>3 DEF Noticed

------------------------------------------------------------------------------
(* Type correctness.                                                       *)

LEMMA TypeStep == TypeOK /\ [Next]_vars => TypeOK'
<1> SUFFICES ASSUME TypeOK, [Next]_vars PROVE TypeOK'
  OBVIOUS
<1>1. ASSUME NEW f \in Files, Edit(f) PROVE TypeOK'
  BY <1>1 DEF TypeOK, Edit, InHub, Attached, network
<1>2. ASSUME NEW f \in Files, HandleEvent(f) PROVE TypeOK'
  BY <1>2 DEF TypeOK, HandleEvent, Broadcast, InHub, Attached, network
<1>3. ASSUME NEW c \in Conns, AddClient(c) PROVE TypeOK'
  BY <1>3 DEF TypeOK, AddClient, InHub, Attached, network, shown
<1>4. ASSUME NEW c \in Conns, Greet(c) PROVE TypeOK'
  BY <1>4 DEF TypeOK, Greet, InHub, Attached, network, shown
<1>5. ASSUME NEW c \in Conns, Notification(c) PROVE TypeOK'
  BY <1>5 DEF TypeOK, Notification, InHub, Attached, network, shown
<1>6. ASSUME NEW c \in Conns, WriteReload(c) PROVE TypeOK'
  BY <1>6 DEF TypeOK, WriteReload, InHub, Attached, shown
<1>7. ASSUME NEW c \in Conns, LeaveHub(c) PROVE TypeOK'
  BY <1>7 DEF TypeOK, LeaveHub, InHub, Attached, network, shown
<1>8. ASSUME NEW c \in Conns, Break(c) PROVE TypeOK'
  BY <1>8 DEF TypeOK, Break, InHub, Attached, server, shown
<1>9. ASSUME NEW t \in Tabs, Request(t) PROVE TypeOK'
  <2>1. page' \in [Tabs -> {"closed", "fetch", "live", "retry", "error"}]
    BY <1>9 DEF TypeOK, Request
  <2>2. page'[t] # "live" /\ (page'[t] = "fetch" => up) /\ \A u \in Tabs \ {t} : page'[u] = page[u]
    BY <1>9 DEF TypeOK, Request
  <2>3. QED
    BY <1>9, <2>1, <2>2, UnloadTypes DEF Request
<1>10. ASSUME NEW t \in Tabs, Close(t) PROVE TypeOK'
  <2>1. /\ page' \in [Tabs -> {"closed", "fetch", "live", "retry", "error"}]
        /\ page'[t] = "closed" /\ \A u \in Tabs \ {t} : page'[u] = page[u]
    BY <1>10 DEF TypeOK, Close
  <2>2. QED
    BY <1>10, <2>1, UnloadTypes DEF Close
<1>11. ASSUME NEW t \in Tabs, OnError(t) PROVE TypeOK'
  <2>1. /\ page' \in [Tabs -> {"closed", "fetch", "live", "retry", "error"}]
        /\ page'[t] = "retry" /\ \A u \in Tabs \ {t} : page'[u] = page[u]
    BY <1>11 DEF TypeOK, OnError
  <2>2. QED
    BY <1>11, <2>1, UnloadTypes DEF OnError
<1>12. ASSUME NEW t \in Tabs, LoadDashboard(t) PROVE TypeOK'
  BY <1>12 DEF TypeOK, LoadDashboard, InHub, Attached, server, network
<1>13. ASSUME NEW t \in Tabs, NEW f \in Rendered, RenderWidget(t, f) PROVE TypeOK'
  BY <1>13 DEF TypeOK, RenderWidget, InHub, Attached, server, network
<1>14. ASSUME NEW t \in Tabs, NEW c \in Conns, Respond(t, c) PROVE TypeOK'
  BY <1>14 DEF TypeOK, Respond, InHub, Attached, shown
<1>15. ASSUME Stop PROVE TypeOK'
  <2> USE <1>15 DEF TypeOK, Stop, InHub
  <2>1. /\ page' \in [Tabs -> {"closed", "fetch", "live", "retry", "error"}]
        /\ read' \in [Tabs -> SUBSET Rendered] /\ old' \in [Tabs -> SUBSET Rendered]
        /\ missed' \in [Tabs -> SUBSET Rendered]
        /\ full' \in [Conns -> BOOLEAN] /\ handler' \in [Conns -> {"none", "request"} \cup InHub]
        /\ cut' \subseteq Conns /\ clients' = {c \in Conns : handler'[c] \in InHub}
    OBVIOUS
  <2>2. \A t \in Tabs : Attached(t)' = Attached(t)
    BY DEF Attached
  <2>3. ASSUME NEW t \in Tabs
        PROVE  /\ old'[t] \subseteq read'[t] /\ missed'[t] \subseteq read'[t]
               /\ page'[t] = "live" => \E c \in Conns : Attached(t)' = {c}
               /\ page'[t] # "live" => Attached(t)' = {}
               /\ page'[t] \notin {"fetch", "live"} => read'[t] = {}
               /\ read'[t] # {} => Dashboard \in read'[t]
    <3>1. CASE page[t] = "fetch"
      BY <2>2, <3>1
    <3>2. CASE page[t] # "fetch"
      BY <2>2, <3>2
    <3>3. QED
      BY <3>1, <3>2
  <2>4. \A c \in Conns : (owner'[c] # NoTab /\ c \notin cut' => handler'[c] # "none") /\ ~full'[c]
    OBVIOUS
  <2>5. \A t \in Tabs : page'[t] # "fetch"
    OBVIOUS
  <2>6. QED
    BY <2>1, <2>3, <2>4, <2>5
<1>16. ASSUME Start PROVE TypeOK'
  BY <1>16 DEF TypeOK, Start, InHub, Attached, network, shown
<1>17. ASSUME UNCHANGED vars PROVE TypeOK'
  BY <1>17 DEF TypeOK, vars, server, network, shown, InHub, Attached
<1>18. QED
  BY <1>1, <1>2, <1>3, <1>4, <1>5, <1>6, <1>7, <1>8, <1>9, <1>10, <1>11, <1>12, <1>13, <1>14, <1>15,
     <1>16, <1>17 DEF Next, SSEHandler, Handler, Script, Open, OnMessage, Retry

LEMMA TypeInit == Init => TypeOK
<1> SUFFICES ASSUME Init PROVE TypeOK
  OBVIOUS
<1> USE DEF Init, InHub
<1>1. /\ full \in [Conns -> BOOLEAN] /\ handler \in [Conns -> {"none", "request"} \cup InHub]
      /\ owner \in [Conns -> Tabs \cup {NoTab}]
      /\ page \in [Tabs -> {"closed", "fetch", "live", "retry", "error"}]
      /\ read \in [Tabs -> SUBSET Rendered] /\ old \in [Tabs -> SUBSET Rendered]
      /\ missed \in [Tabs -> SUBSET Rendered]
  OBVIOUS
<1>2. \A t \in Tabs : page[t] = "closed" /\ read[t] = {} /\ old[t] = {} /\ missed[t] = {} /\ Attached(t) = {}
  BY DEF Attached
<1>3. \A c \in Conns : owner[c] = NoTab /\ ~full[c] /\ handler[c] = "none"
  OBVIOUS
<1>4. QED
  BY <1>1, <1>2, <1>3 DEF TypeOK

(* The variables stay in their types, a live page has one connection, and  *)
(* the hub has the clients whose handlers are in their loop.               *)
THEOREM TypeCorrect == Spec => []TypeOK
  BY TypeInit, TypeStep, PTL DEF Spec

------------------------------------------------------------------------------
(* Notification.                                                           *)

LEMMA NoticedStep == Inv /\ [Next]_vars => Noticed'
<1> SUFFICES ASSUME Inv, [Next]_vars PROVE Noticed'
  OBVIOUS
<1> USE DEF Inv
<1>1. ASSUME NEW f \in Files, Edit(f) PROVE Noticed'
  <2> SUFFICES ASSUME NEW t \in Tabs, NEW g \in Watched, g \in old'[t]
               PROVE  g \in events' \/ g \in missed'[t] \/ Coming(t)'
    BY DEF Noticed
  <2>1. Coming(t)' <=> Coming(t)
    BY <1>1 DEF Edit, Coming, Attached, network
  <2>2. CASE g \in old[t]
    BY <1>1, <2>1, <2>2 DEF Noticed, Edit
  <2>3. CASE g = f /\ g \in read[t]
    <3>1. CASE up
      BY <1>1, <2>3, <3>1 DEF Edit
    <3>2. CASE ~up
      <4>1. page[t] = "live"
        BY <2>3, <3>2 DEF TypeOK
      <4>2. PICK c \in Conns : Attached(t) = {c}
        BY <4>1 DEF TypeOK
      <4>3. c \in cut
        BY <3>2, <4>2 DEF TypeOK, Attached
      <4>4. QED
        BY <2>1, <4>2, <4>3 DEF Coming
    <3>3. QED
      BY <3>1, <3>2
  <2>4. QED
    BY <1>1, <2>2, <2>3 DEF Edit, TypeOK
<1>2. ASSUME NEW f \in Files, HandleEvent(f) PROVE Noticed'
  <2> SUFFICES ASSUME NEW t \in Tabs, NEW g \in Watched, g \in old'[t]
               PROVE  g \in events' \/ g \in missed'[t] \/ Coming(t)'
    BY DEF Noticed
  <2>1. Coming(t) => Coming(t)'
    BY <1>2 DEF HandleEvent, Broadcast, Coming, Attached, network, TypeOK
  <2>2. CASE g # f
    BY <1>2, <2>1, <2>2 DEF HandleEvent, Noticed, TypeOK
  <2>3. CASE g = f /\ Attached(t) \cap clients = {}
    BY <1>2, <2>3 DEF HandleEvent, TypeOK
  <2>4. CASE Attached(t) \cap clients # {}
    BY <1>2, <2>4 DEF HandleEvent, Broadcast, Coming, Attached, network, TypeOK
  <2>5. QED
    BY <2>2, <2>3, <2>4
<1>3. ASSUME NEW c \in Conns, SSEHandler(c) PROVE Noticed'
  <2>1. \A t \in Tabs : Coming(t) => Coming(t)'
    <3> SUFFICES ASSUME NEW t \in Tabs, NEW d \in Attached(t),
                        full[d] \/ handler[d] = "write" \/ d \in wire \/ d \in cut
                 PROVE  full'[d] \/ handler'[d] = "write" \/ d \in wire' \/ d \in cut'
      BY <1>3 DEF SSEHandler, AddClient, Greet, Notification, WriteReload, LeaveHub, Coming, Attached, network
    <3> USE DEF TypeOK, Attached, network, InHub
    <3>1. CASE AddClient(c)
      BY <3>1 DEF AddClient
    <3>2. CASE Greet(c)
      BY <3>2 DEF Greet
    <3>3. CASE Notification(c)
      BY <3>3 DEF Notification
    <3>4. CASE WriteReload(c)
      BY <3>4 DEF WriteReload
    <3>5. CASE LeaveHub(c)
      BY <3>5 DEF LeaveHub
    <3>6. QED
      BY <1>3, <3>1, <3>2, <3>3, <3>4, <3>5 DEF SSEHandler
  <2>2. UNCHANGED <<events, old, missed>>
    BY <1>3 DEF SSEHandler, AddClient, Greet, Notification, WriteReload, LeaveHub, shown
  <2>3. QED
    BY <2>1, <2>2 DEF Noticed
<1>4. ASSUME NEW c \in Conns, Break(c) PROVE Noticed'
  <2>1. \A t \in Tabs : Coming(t) => Coming(t)'
    BY <1>4 DEF Break, Coming, Attached, server
  <2>2. QED
    BY <1>4, <2>1 DEF Noticed, Break, server, shown
<1>5. ASSUME NEW t \in Tabs, Request(t) \/ Close(t) \/ OnError(t) PROVE Noticed'
  BY <1>5, UnloadNoticed DEF Request, Close, OnError
<1>6. ASSUME NEW t \in Tabs, LoadDashboard(t) \/ \E f \in Rendered : RenderWidget(t, f) PROVE Noticed'
  BY <1>6 DEF LoadDashboard, RenderWidget, Noticed, Coming, Attached, server, network
<1>7. ASSUME NEW t \in Tabs, NEW c \in Conns, Respond(t, c) PROVE Noticed'
  <2>1. \A u \in Tabs : Coming(u) => Coming(u)'
    BY <1>7 DEF Respond, Coming, Attached, TypeOK
  <2>2. QED
    BY <1>7, <2>1 DEF Respond, Noticed, shown
<1>8. ASSUME Stop PROVE Noticed'
  <2> SUFFICES ASSUME NEW t \in Tabs, NEW f \in Watched, f \in old'[t]
               PROVE  Coming(t)'
    BY DEF Noticed
  <2>1. page[t] = "live"
    BY <1>8 DEF Stop, TypeOK
  <2>2. PICK c \in Conns : Attached(t) = {c}
    BY <2>1 DEF TypeOK
  <2>3. c \in cut' /\ c \in Attached(t)'
    BY <1>8, <2>2 DEF Stop, Attached
  <2>4. QED
    BY <2>3 DEF Coming
<1>9. ASSUME Start \/ UNCHANGED vars PROVE Noticed'
  BY <1>9 DEF Start, vars, server, network, shown, Noticed, Coming, Attached
<1>10. QED
  BY <1>1, <1>2, <1>3, <1>4, <1>5, <1>6, <1>7, <1>8, <1>9 DEF Next, Handler, Script, Open, OnMessage, Retry

(* While a page shows an outdated version of a watched file, its reload is *)
(* under way, but for changes in the gap.                                  *)
THEOREM ChangesReachThePage == Spec => []OutdatedIsNotified
<1>1. Init => Inv
  BY TypeInit DEF Init, Inv, Noticed
<1>2. Inv /\ [Next]_vars => Inv'
  BY TypeStep, NoticedStep DEF Inv
<1>3. Inv => OutdatedIsNotified
  BY DEF Inv, Noticed, OutdatedIsNotified, Outdated
<1>4. QED
  BY <1>1, <1>2, <1>3, PTL DEF Spec
==============================================================================
