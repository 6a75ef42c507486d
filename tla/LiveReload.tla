----------------------------- MODULE LiveReload -----------------------------
(***************************************************************************)
(* shelby viz serve|sandbox --watch (internal/viz/server.go) and the pages *)
(* it serves (builtins/shell/base.html).                                   *)
(*                                                                         *)
(* The watcher turns a change of a file into a notification in the channel *)
(* of every client of the hub; a client's handler writes it to its         *)
(* connection; the page reloads itself, which reads the files again.  The  *)
(* server may stop and be started again, connections may break, tabs are   *)
(* opened and closed.                                                      *)
(***************************************************************************)
EXTENDS FiniteSets

CONSTANTS
    Tabs,       \* tabs of browsers
    Conns,      \* connections to /api/livereload that can exist at a time
    Files,      \* files below the dashboard's directory
    Watched,    \* those in a watched directory with an extension in watchExts
    Rendered,   \* those a request for the page reads
    Dashboard,  \* dashboard.yml
    NoTab       \* the owner of a connection that the browser has closed

ASSUME LiveReloadAssumption ==
    /\ Watched \subseteq Files /\ Rendered \subseteq Files
    /\ Dashboard \in Rendered
    /\ NoTab \notin Tabs

VARIABLES
    broken,   \* dashboard.yml does not load
    up,       \* the server runs
    events,   \* files whose change the watcher has not handled
    clients,  \* of the hub
    full,     \* full[c]: c's channel, which has one place, holds a notification
    handler,  \* handler[c]: sseHandler: "none", "request", "greet", "select", "write"
    wire,     \* connections on which "reload" is under way to the page
    cut,      \* connections that broke before the page noticed
    owner,    \* owner[c]: the tab whose page opened c
    page,     \* page[t]: "closed", "fetch", "live", "retry", "error"
    read,     \* read[t]: the files that have been read for t's page
    old,      \* old[t]: those of them that have changed since
    missed    \* missed[t]: history variable, the changes broadcast between
              \* the reading of the file for t's page and the add of its client

server == <<up, events, clients, full, handler>>
network == <<wire, cut, owner>>
shown == <<read, old, missed>>
vars == <<broken, server, network, page, shown>>

InHub == {"greet", "select", "write"}

Attached(t) == {c \in Conns : owner[c] = t}

TypeOK ==
    /\ broken \in BOOLEAN /\ up \in BOOLEAN
    /\ events \subseteq Watched
    /\ clients = {c \in Conns : handler[c] \in InHub}
    /\ full \in [Conns -> BOOLEAN]
    /\ handler \in [Conns -> {"none", "request"} \cup InHub]
    /\ wire \subseteq Conns /\ cut \subseteq Conns
    /\ owner \in [Conns -> Tabs \cup {NoTab}]
    /\ page \in [Tabs -> {"closed", "fetch", "live", "retry", "error"}]
    /\ read \in [Tabs -> SUBSET Rendered]
    /\ old \in [Tabs -> SUBSET Rendered]
    /\ missed \in [Tabs -> SUBSET Rendered]
    /\ \A t \in Tabs :
        /\ old[t] \subseteq read[t] /\ missed[t] \subseteq read[t]
        /\ page[t] = "live" => \E c \in Conns : Attached(t) = {c}
        /\ page[t] # "live" => Attached(t) = {}
        /\ page[t] \notin {"fetch", "live"} => read[t] = {}
        /\ read[t] # {} => Dashboard \in read[t]
    /\ \A c \in Conns :
        /\ owner[c] # NoTab /\ c \notin cut => handler[c] # "none"
        /\ full[c] => c \in clients
    /\ ~up => /\ events = {} /\ \A c \in Conns : handler[c] = "none"
              /\ \A t \in Tabs : page[t] # "fetch"

Init ==
    /\ broken = FALSE
    /\ up = TRUE /\ events = {} /\ clients = {}
    /\ full = [c \in Conns |-> FALSE]
    /\ handler = [c \in Conns |-> "none"]
    /\ wire = {} /\ cut = {}
    /\ owner = [c \in Conns |-> NoTab]
    /\ page = [t \in Tabs |-> "closed"]
    /\ read = [t \in Tabs |-> {}] /\ old = [t \in Tabs |-> {}]
    /\ missed = [t \in Tabs |-> {}]

------------------------------------------------------------------------------
(* The files.  What an editor does by truncating and writing is two        *)
(* changes, of which the first leaves a file that may not load.            *)

Edit(f) ==
    /\ IF f = Dashboard THEN broken' \in BOOLEAN ELSE UNCHANGED broken
    /\ events' = IF up THEN events \cup ({f} \cap Watched) ELSE events
    /\ old' = [t \in Tabs |-> old[t] \cup ({f} \cap read[t])]
    /\ UNCHANGED <<up, clients, full, handler, network, page, read, missed>>

------------------------------------------------------------------------------
(* The hub and the watcher.                                                *)

(* Variant: channels without a place, so that a handler that is not at its *)
(* select is passed over.                                                  *)
BroadcastUnbuffered ==
    full' = [c \in Conns |-> full[c] \/ handler[c] = "select"]

(* broadcast: one notification per channel; a second one is dropped.       *)
Broadcast == full' = [c \in Conns |-> full[c] \/ c \in clients]

(* startWatcher's loop: an event whose extension is in watchExts.          *)
HandleEvent(f) ==
    /\ up /\ f \in events
    /\ events' = events \ {f}
    /\ Broadcast
    /\ missed' = [t \in Tabs |->
                    IF Attached(t) \cap clients = {} THEN missed[t] \cup ({f} \cap read[t])
                    ELSE missed[t]]
    /\ UNCHANGED <<broken, up, clients, handler, network, page, read, old>>

------------------------------------------------------------------------------
(* sseHandler, one per connection.                                         *)

(* The channel is made by add, and is empty.                               *)
AddClient(c) ==
    /\ handler[c] = "request"
    /\ handler' = [handler EXCEPT ![c] = "greet"]
    /\ clients' = clients \cup {c}
    /\ full' = [full EXCEPT ![c] = FALSE]
    /\ UNCHANGED <<broken, up, events, network, page, shown>>

(* "data: connected", which the page ignores.                              *)
Greet(c) ==
    /\ handler[c] = "greet"
    /\ handler' = [handler EXCEPT ![c] = "select"]
    /\ UNCHANGED <<broken, up, events, clients, full, network, page, shown>>

Notification(c) ==
    /\ handler[c] = "select" /\ full[c]
    /\ full' = [full EXCEPT ![c] = FALSE]
    /\ handler' = [handler EXCEPT ![c] = "write"]
    /\ UNCHANGED <<broken, up, events, clients, network, page, shown>>

(* "data: reload"; nobody looks at the error of a write.                   *)
WriteReload(c) ==
    /\ handler[c] = "write"
    /\ handler' = [handler EXCEPT ![c] = "select"]
    /\ wire' = IF owner[c] # NoTab /\ c \notin cut THEN wire \cup {c} ELSE wire
    /\ UNCHANGED <<broken, up, events, clients, full, cut, owner, page, shown>>

(* Variant: the handler returns and remains a client of the hub.           *)
LeaveRegistered(c) ==
    /\ handler[c] = "select" /\ (owner[c] = NoTab \/ c \in cut)
    /\ handler' = [handler EXCEPT ![c] = "none"]
    /\ full' = [full EXCEPT ![c] = FALSE]
    /\ UNCHANGED <<broken, up, events, clients, network, page, shown>>

(* Variant: a broken connection is noticed by writing to it.               *)
LeaveOnWrite(c) ==
    /\ handler[c] = "write" /\ (owner[c] = NoTab \/ c \in cut)
    /\ handler' = [handler EXCEPT ![c] = "none"]
    /\ clients' = clients \ {c}
    /\ full' = [full EXCEPT ![c] = FALSE]
    /\ UNCHANGED <<broken, up, events, network, page, shown>>

(* The context of the request is done: return, and remove.  A select with  *)
(* a notification as well may take either.                                 *)
LeaveHub(c) ==
    /\ handler[c] = "select" /\ (owner[c] = NoTab \/ c \in cut)
    /\ handler' = [handler EXCEPT ![c] = "none"]
    /\ clients' = clients \ {c}
    /\ full' = [full EXCEPT ![c] = FALSE]
    /\ UNCHANGED <<broken, up, events, network, page, shown>>

------------------------------------------------------------------------------
(* The page.                                                               *)

(* The browser unloads a page, and closes its connection.                  *)
Unload(t) ==
    /\ read' = [read EXCEPT ![t] = {}]
    /\ old' = [old EXCEPT ![t] = {}]
    /\ missed' = [missed EXCEPT ![t] = {}]
    /\ owner' = [c \in Conns |-> IF owner[c] = t THEN NoTab ELSE owner[c]]
    /\ wire' = wire \ Attached(t)
    /\ cut' = cut \ Attached(t)

(* GET /: by the user, or by location.reload().  Without a server the      *)
(* browser shows an error of its own.                                      *)
Request(t) ==
    /\ page' = [page EXCEPT ![t] = IF up THEN "fetch" ELSE "error"]
    /\ Unload(t)
    /\ UNCHANGED <<broken, server>>

Open(t) == page[t] # "fetch" /\ Request(t)

Close(t) ==
    /\ page[t] # "closed"
    /\ page' = [page EXCEPT ![t] = "closed"]
    /\ Unload(t)
    /\ UNCHANGED <<broken, server>>

(* LoadDashboard.  The page of a status 500 is plain text, without script. *)
LoadDashboard(t) ==
    /\ page[t] = "fetch" /\ Dashboard \notin read[t]
    /\ IF broken
       THEN page' = [page EXCEPT ![t] = "error"] /\ UNCHANGED read
       ELSE read' = [read EXCEPT ![t] = {Dashboard}] /\ UNCHANGED page
    /\ UNCHANGED <<broken, server, network, old, missed>>

(* RenderDashboard reads the templates one by one; the Renderer and its    *)
(* cache of templates are new for every request.                           *)
RenderWidget(t, f) ==
    /\ page[t] = "fetch" /\ Dashboard \in read[t] /\ f \notin read[t]
    /\ read' = [read EXCEPT ![t] = @ \cup {f}]
    /\ UNCHANGED <<broken, server, network, page, old, missed>>

(* The answer arrives; the script of the page opens its EventSource.       *)
Respond(t, c) ==
    /\ page[t] = "fetch" /\ read[t] = Rendered
    /\ handler[c] = "none" /\ owner[c] = NoTab
    /\ page' = [page EXCEPT ![t] = "live"]
    /\ owner' = [owner EXCEPT ![c] = t]
    /\ handler' = [handler EXCEPT ![c] = "request"]
    /\ UNCHANGED <<broken, up, events, clients, full, wire, cut, shown>>

(* onmessage                                                               *)
OnMessage(t) ==
    /\ Attached(t) \cap wire # {}
    /\ Request(t)

(* The connection breaks: what is under way on it is lost ...              *)
Break(c) ==
    /\ owner[c] # NoTab /\ c \notin cut
    /\ cut' = cut \cup {c}
    /\ wire' = wire \ {c}
    /\ UNCHANGED <<broken, server, owner, page, shown>>

(* ... and onerror closes the EventSource, for a reload 500 ms later.      *)
OnError(t) ==
    /\ Attached(t) \cap cut # {}
    /\ page' = [page EXCEPT ![t] = "retry"]
    /\ Unload(t)
    /\ UNCHANGED <<broken, server>>

Retry(t) == page[t] = "retry" /\ Request(t)

------------------------------------------------------------------------------
(* The server stops: its memory, events and connections are gone.          *)
Stop ==
    /\ up
    /\ up' = FALSE /\ events' = {} /\ clients' = {}
    /\ full' = [c \in Conns |-> FALSE]
    /\ handler' = [c \in Conns |-> "none"]
    /\ cut' = cut \cup {c \in Conns : owner[c] # NoTab}
    /\ wire' = {}
    /\ page' = [t \in Tabs |-> IF page[t] = "fetch" THEN "error" ELSE page[t]]
    /\ read' = [t \in Tabs |-> IF page[t] = "fetch" THEN {} ELSE read[t]]
    /\ old' = [t \in Tabs |-> old[t] \cap read'[t]]
    /\ missed' = [t \in Tabs |-> missed[t] \cap read'[t]]
    /\ UNCHANGED <<broken, owner>>

(* It is started again: the watcher before the listener.                   *)
Start ==
    /\ ~up
    /\ up' = TRUE
    /\ UNCHANGED <<broken, events, clients, full, handler, network, page, shown>>

SSEHandler(c) ==
    AddClient(c) \/ Greet(c) \/ Notification(c) \/ WriteReload(c) \/ LeaveHub(c)

Handler(t) ==
    \/ LoadDashboard(t)
    \/ \E f \in Rendered : RenderWidget(t, f)
    \/ \E c \in Conns : Respond(t, c)

Script(t) == OnMessage(t) \/ OnError(t) \/ Retry(t)

Next ==
    \/ \E f \in Files : Edit(f) \/ HandleEvent(f)
    \/ \E c \in Conns : SSEHandler(c) \/ Break(c)
    \/ \E t \in Tabs : Open(t) \/ Close(t) \/ Handler(t) \/ Script(t)
    \/ Stop \/ Start

Spec == Init /\ [][Next]_vars

(* Goroutines and scripts run on, and a select that finds the context done *)
(* time and again takes it at some time.  Users, editors and the server's  *)
(* operator do as they like.                                               *)
Fairness ==
    /\ \A f \in Files : WF_vars(HandleEvent(f))
    /\ \A c \in Conns : WF_vars(SSEHandler(c)) /\ SF_vars(LeaveHub(c))
    /\ \A t \in Tabs : WF_vars(Handler(t)) /\ WF_vars(Script(t))

FairSpec == Spec /\ Fairness

------------------------------------------------------------------------------
(* Properties.                                                             *)

Outdated(t, f) == page[t] = "live" /\ f \in old[t]

(* Is a reload of t's page under way from its client on, or the            *)
(* connection broken, which leads to one?                                  *)
Coming(t) ==
    \E c \in Attached(t) : full[c] \/ handler[c] = "write" \/ c \in wire \/ c \in cut

(* No notification is lost by the one place of a channel, a slow           *)
(* connection, a break or a restart (sseHub, sseHandler, base.html): while *)
(* a page shows an outdated version of a watched file the change is still  *)
(* to be handled or a reload of the page is coming.  Not so for a change   *)
(* that was broadcast after the page was rendered and before its client    *)
(* was added.                                                              *)
OutdatedIsNotified ==
    \A t \in Tabs, f \in Watched \cap Rendered :
        Outdated(t, f) => f \in events \/ f \in missed[t] \/ Coming(t)

(* "reload browser on file changes" (cli/viz.go): outside of that gap a    *)
(* page does not stay live and outdated.                                   *)
OutdatedReloads ==
    \A t \in Tabs, f \in Watched \cap Rendered :
        Outdated(t, f) /\ f \notin missed[t] ~> ~Outdated(t, f) \/ f \in missed[t]

(* A handler whose page is gone ends and leaves the hub, be it busy or in  *)
(* the middle of a broadcast: the hub does not grow with every reload.     *)
ClientsLeave ==
    \A c \in Conns : c \in clients /\ owner[c] = NoTab ~> c \notin clients
==============================================================================
