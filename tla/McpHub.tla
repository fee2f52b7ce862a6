-------------------------------- MODULE McpHub ------------------------------
(***************************************************************************)
(* The connections to MCP servers (services/mcp/McpHub.ts): the settings   *)
(* file names the servers; a watcher of the file and the calls of the      *)
(* webview bring the list of connections to what the file says.            *)
(*                                                                         *)
(* Each operation is a coroutine of its own, and nothing keeps two apart:  *)
(* what one does between two awaits is one step.  The webview's calls that *)
(* change the file read it, write it back, and then connect by themselves, *)
(* while the watcher, which sees the change as well, does the same.        *)
(*                                                                         *)
(* An entry of the file carries what tells entries apart: disabled; allow, *)
(* for autoApprove; and rev, for the rest.  It is bare if it lacks what the *)
(* schema adds, its type above all.  What the schema makes of an entry has *)
(* a key transportType besides, undefined, which JSON drops: deepEqual     *)
(* finds it different from every configuration kept in memory.             *)
(*                                                                         *)
(* McpHub.connections is one list; it is searched by name, and all that has *)
(* a name is dropped at once, so that order matters among those of one name *)
(* only.  Here there is a list for each name.                               *)
(*                                                                         *)
(* Left out: calls of tools and resources, the watchers of build files (a  *)
(* restart may happen at any time), notifications (AskSay), disposal, and  *)
(* what the webview is shown of a connection, its status and its errors.   *)
(***************************************************************************)
EXTENDS Naturals, Sequences, FiniteSets

CONSTANTS
    Servers,    \* names
    Revs,       \* bound: versions of an entry
    MaxOps,     \* bound: operations under way
    MaxCalls    \* bound: what the user does

ASSUME ServersAssumption == IsFiniteSet(Servers) /\ Servers # {}
ASSUME BoundAssumption == Revs # {} /\ MaxOps \in Nat \ {0} /\ MaxCalls \in Nat

VARIABLES
    file,           \* the settings file: an entry or None for each server
    broken,         \* the file is no JSON
    changed,        \* the watcher has a change to report
    connections,    \* McpHub.connections, by name
    isConnecting,   \* McpHub.isConnecting
    ops,            \* what is under way
    calls,          \* how often the user did something
    stdio           \* the servers run as a process, not reached by a URL

settings == <<file, broken, changed>>
vars == <<settings, connections, isConnecting, ops, calls, stdio>>

Entry == [disabled : BOOLEAN, rev : Revs, allow : BOOLEAN, bare : BOOLEAN]
None == [none |-> TRUE]
Files == [Servers -> Entry \cup {None}]
Names(f) == {s \in Servers : f[s] # None}

\* What the schema makes of an entry, and of a file.
Parsed(e) == IF e = None THEN None ELSE [e EXCEPT !.bare = FALSE]
ParsedFile(f) == [s \in Servers |-> Parsed(f[s])]

\* allow: the autoApprove flags of the tools, once they are fetched.  by: the
\* operation that is connecting it, or 0.  closed: its transport is, or failed.
Connection == [config : Entry, disabled : BOOLEAN,
               allow : {"unknown", "yes", "no"}, by : 0..MaxOps, closed : BOOLEAN]

\* An operation: a call that has read the settings and is "writing" them, an
\* update of the connections, or a restart of one, which starts by "waiting".
\*   what, at, with   what becomes of the entry of server at
\*   files            the settings that were read
\*   gone, todo       servers still to be removed, and to be looked at
\*   parsed           the settings are what the schema makes of them
\*   notifies         it ends with notifyWebviewOfServerChanges
\*   at, with         the server being connected, and its entry
Op == [pc : {"none", "writing", "next", "waiting", "closing", "starting", "connecting",
             "fetching", "fetched"},
       what : {"disable", "allow", "timeout", "add", "delete", "update"},
       at : Servers, with : Entry \cup {None}, files : Files,
       gone : SUBSET Servers, todo : SUBSET Servers,
       parsed : BOOLEAN, notifies : BOOLEAN, allow : {"yes", "no"}]

Idle == [pc |-> "none", what |-> "update", at |-> CHOOSE s \in Servers : TRUE,
         with |-> None, files |-> [s \in Servers |-> None], gone |-> {}, todo |-> {},
         parsed |-> TRUE, notifies |-> TRUE, allow |-> "no"]

TypeOK ==
    /\ file \in Files /\ broken \in BOOLEAN /\ changed \in BOOLEAN
    /\ connections \in [Servers -> Seq(Connection)]
    /\ isConnecting \in BOOLEAN
    /\ ops \in [1..MaxOps -> Op] /\ calls \in 0..MaxCalls
    /\ stdio \subseteq Servers

\* The hub is being constructed, and is about to read the settings it finds.
Init ==
    /\ file \in Files /\ broken = FALSE /\ changed = TRUE
    /\ connections = [s \in Servers |-> <<>>] /\ isConnecting = FALSE
    /\ ops = [o \in 1..MaxOps |-> Idle] /\ calls = 0
    /\ stdio \in SUBSET Servers

-----------------------------------------------------------------------------
(* The list of connections. *)

Known(s) == connections[s] # <<>>

\* connections.find, of a server that is there.
Find(s) == connections[s][1]
Without(s) == [connections EXCEPT ![s] = <<>>]
With(s, c) == [connections EXCEPT ![s] = <<c>>]

\* Mutant: a server that has left the settings leaves its tools without flags.
FlagIfAny(e) == IF e = None THEN "unknown" ELSE IF e.allow THEN "yes" ELSE "no"

Flag(e) == IF e # None /\ e.allow THEN "yes" ELSE "no"
New(e, o) == [config |-> e, disabled |-> e.disabled, allow |-> "unknown",
              by |-> o, closed |-> e.disabled]

\* The list with what operation o is connecting, if it is still there, changed.
Changed(o, To(_)) ==
    LET s == ops[o].at
    IN  [connections EXCEPT ![s] = [i \in DOMAIN connections[s] |->
           IF connections[s][i].by = o THEN To(connections[s][i]) ELSE connections[s][i]]]

-----------------------------------------------------------------------------
(* Operations begin. *)

Begin(op) ==
    \E o \in DOMAIN ops :
      /\ ops[o].pc = "none" /\ \A p \in DOMAIN ops : p < o => ops[p].pc # "none"
      /\ ops' = [ops EXCEPT ![o] = op]

\* updateServerConnections, and updateServerConnectionsRPC, up to the first await.
Update(what, f, parsed, notifies) ==
    [Idle EXCEPT !.pc = "next", !.what = what, !.files = f, !.parsed = parsed,
       !.notifies = notifies, !.todo = Names(f),
       !.gone = {s \in Servers : Known(s)} \ Names(f)]

\* The watcher reports a change, or the constructor reads the settings.
Watch ==
    /\ changed /\ changed' = FALSE
    /\ IF broken THEN UNCHANGED <<ops, isConnecting>>
                 ELSE /\ Begin(Update("update", ParsedFile(file), TRUE, TRUE))
                      /\ isConnecting' = TRUE
    /\ UNCHANGED <<file, broken, connections, calls>>

Call == calls < MaxCalls /\ calls' = calls + 1

\* The user edits the settings file.
Edit ==
    /\ Call
    /\ changed' = TRUE
    /\ \/ broken' = TRUE /\ UNCHANGED file
       \/ broken' = FALSE /\ \E s \in Servers, e \in Entry \cup {None} : file' = [file EXCEPT ![s] = e]
    /\ UNCHANGED <<connections, isConnecting, ops>>

Reads(what, f, parsed, s, e) ==
    /\ Call /\ ~broken
    /\ Begin([Idle EXCEPT !.pc = "writing", !.what = what, !.at = s, !.with = e,
                          !.files = f, !.parsed = parsed])
    /\ UNCHANGED <<settings, connections, isConnecting>>

\* toggleServerDisabledRPC
ToggleServerDisabled ==
    \E s \in Names(file), b \in BOOLEAN :
      Reads("disable", ParsedFile(file), TRUE, s, [Parsed(file[s]) EXCEPT !.disabled = b])

\* toggleToolAutoApproveRPC
ToggleToolAutoApprove ==
    \E s \in Names(file), b \in BOOLEAN :
      Reads("allow", file, FALSE, s, [file[s] EXCEPT !.allow = b])

\* updateServerTimeoutRPC
UpdateServerTimeout ==
    \E s \in Names(file), r \in Revs :
      Reads("timeout", file, FALSE, s, [file[s] EXCEPT !.rev = r])

\* deleteServerRPC
DeleteServer ==
    \E s \in Names(file) : Reads("delete", file, FALSE, s, None)

\* addRemoteServer
AddRemoteServer ==
    \E s \in (Servers \ Names(file)) \ stdio, r \in Revs :
      Reads("add", ParsedFile(file), TRUE, s,
            [disabled |-> FALSE, rev |-> r, allow |-> FALSE, bare |-> TRUE])

\* Mutant: a restart of an unknown server returns early.
RestartAny ==
    Call /\ \E s \in Servers, notifies \in BOOLEAN :
      /\ isConnecting' = TRUE
      /\ IF Known(s) /\ ~(notifies /\ broken)
           THEN Begin([Idle EXCEPT !.pc = "waiting", !.at = s, !.notifies = notifies,
                                   !.with = Find(s).config])
           ELSE UNCHANGED ops
      /\ UNCHANGED <<settings, connections>>

\* restartConnection, and restartConnectionRPC: the configuration in memory is
\* kept over a delay of 500 ms.  To notify fails if the file is no JSON.
Restart ==
    Call /\ \E s \in Servers, notifies \in BOOLEAN :
      /\ isConnecting' = (Known(s) \/ (notifies /\ broken))
      /\ IF Known(s) /\ ~(notifies /\ broken)
           THEN Begin([Idle EXCEPT !.pc = "waiting", !.at = s, !.notifies = notifies,
                                   !.with = Find(s).config])
           ELSE UNCHANGED ops
      /\ UNCHANGED <<settings, connections>>

-----------------------------------------------------------------------------
(* Operations go on. *)

\* The settings are written as they were read but for one entry; the connection
\* in memory follows, or all of them are updated.
Write(o) ==
    LET op == ops[o]
        s == op.at
        f == [op.files EXCEPT ![s] = op.with]
    IN  /\ op.pc = "writing"
        /\ file' = f /\ broken' = FALSE /\ changed' = TRUE
        /\ \/ /\ op.what = "disable"
              /\ connections' = IF Known(s)
                   THEN [connections EXCEPT ![s][1].disabled = op.with.disabled] ELSE connections
              /\ ops' = [ops EXCEPT ![o] = Idle] /\ UNCHANGED isConnecting
           \/ /\ op.what = "allow"
              /\ connections' = IF Known(s) /\ Find(s).allow # "unknown"
                   THEN [connections EXCEPT ![s][1].allow = Flag(op.with)] ELSE connections
              /\ ops' = [ops EXCEPT ![o] = Idle] /\ UNCHANGED isConnecting
           \/ /\ op.what \notin {"disable", "allow"}
              /\ ops' = [ops EXCEPT ![o] = Update(op.what, IF op.parsed THEN ParsedFile(f) ELSE f,
                                                  op.parsed, FALSE)]
              /\ isConnecting' = TRUE /\ UNCHANGED connections
        /\ UNCHANGED calls

Step(o, pc) == ops[o].pc = pc /\ UNCHANGED <<settings, calls>>

\* It has dealt with a server.
Done(o, op) ==
    ops' = [ops EXCEPT ![o] = [op EXCEPT !.pc = "next", !.at = Idle.at, !.with = None, !.allow = "no"]]

\* deleteConnection up to its await; e is what is to be connected afterwards.
Close(o, op, s, e) ==
    /\ connections' = [connections EXCEPT ![s][1].closed = TRUE]
    /\ ops' = [ops EXCEPT ![o] = [op EXCEPT !.pc = "closing", !.at = s, !.with = e]]

\* connectToServer up to its first await: what has the name is dropped.  Of a
\* disabled server there is an entry in the list only, and one without a type
\* fails.
Connect(o, op, s, e) ==
    LET goes(pc) == ops' = [ops EXCEPT ![o] = [op EXCEPT !.pc = pc, !.at = s, !.with = e]]
    IN  \/ /\ e.disabled
           /\ connections' = With(s, New(e, 0)) /\ Done(o, op)
        \/ /\ ~e.disabled /\ e.bare
           /\ connections' = Without(s) /\ Done(o, op)
        \/ /\ ~e.disabled /\ ~e.bare /\ s \in stdio
           /\ connections' = Without(s) /\ goes("starting")
        \/ /\ ~e.disabled /\ ~e.bare /\ s \notin stdio
           /\ connections' = With(s, New(e, o)) /\ goes("connecting")

\* An update removes a server that is no longer in the settings.
Remove(o) ==
    /\ Step(o, "next") /\ ops[o].gone # {}
    /\ LET s == CHOOSE s \in ops[o].gone : TRUE
           op == [ops[o] EXCEPT !.gone = @ \ {s}]
       IN  IF Known(s) THEN Close(o, op, s, None)
                       ELSE Done(o, op) /\ UNCHANGED connections
    /\ UNCHANGED isConnecting

\* Mutant: a server that is there is left alone.
LookByName(o) ==
    /\ Step(o, "next") /\ ops[o].gone = {} /\ ops[o].todo # {}
    /\ LET s == CHOOSE s \in ops[o].todo : TRUE
           op == [ops[o] EXCEPT !.todo = @ \ {s}]
       IN  IF ~Known(s) THEN Connect(o, op, s, ops[o].files[s])
                        ELSE Done(o, op) /\ UNCHANGED connections
    /\ UNCHANGED isConnecting

\* It looks at the next server of the settings: a new one is connected, a
\* changed one closed first.
Look(o) ==
    /\ Step(o, "next") /\ ops[o].gone = {} /\ ops[o].todo # {}
    /\ LET s == CHOOSE s \in ops[o].todo : TRUE
           e == ops[o].files[s]
           op == [ops[o] EXCEPT !.todo = @ \ {s}]
       IN  IF ~Known(s) THEN Connect(o, op, s, e)
           ELSE IF op.parsed \/ Find(s).config # e THEN Close(o, op, s, e)
           ELSE Done(o, op) /\ UNCHANGED connections
    /\ UNCHANGED isConnecting

\* Mutant: a restart does not close what it replaces.
WaitedOpen(o) ==
    /\ Step(o, "waiting")
    /\ Connect(o, ops[o], ops[o].at, ops[o].with)
    /\ UNCHANGED isConnecting

\* The delay of a restart is over.
Waited(o) ==
    /\ Step(o, "waiting")
    /\ LET op == ops[o]
       IN  IF Known(op.at) THEN Close(o, op, op.at, op.with)
                           ELSE Connect(o, op, op.at, op.with)
    /\ UNCHANGED isConnecting

\* The transport is closed: all that has the name leaves the list.
Closed(o) ==
    /\ Step(o, "closing")
    /\ LET op == ops[o]
       IN  IF op.with = None THEN connections' = Without(op.at) /\ Done(o, op)
                             ELSE Connect(o, op, op.at, op.with)
    /\ UNCHANGED isConnecting

\* transport.start: the process runs, and the connection is listed.
Started(o) ==
    /\ Step(o, "starting")
    /\ connections' = [connections EXCEPT ![ops[o].at] = Append(@, New(ops[o].with, o))]
    /\ ops' = [ops EXCEPT ![o].pc = "connecting"]
    /\ UNCHANGED isConnecting

\* client.connect
Connected(o) ==
    /\ Step(o, "connecting")
    /\ ops' = [ops EXCEPT ![o].pc = "fetching"]
    /\ UNCHANGED <<connections, isConnecting>>

\* Either of them fails.
Fails(o) ==
    /\ Step(o, "starting") \/ Step(o, "connecting")
    /\ connections' = Changed(o, LAMBDA c : [c EXCEPT !.by = 0, !.closed = TRUE])
    /\ Done(o, ops[o])
    /\ UNCHANGED isConnecting

\* fetchToolsList: the flags are read from the file when the tools are there, ...
Fetch(o) ==
    /\ Step(o, "fetching")
    /\ \E tools \in BOOLEAN :
         ops' = [ops EXCEPT ![o].pc = "fetched",
                   ![o].allow = IF tools /\ ~broken /\ Known(ops[o].at)
                                  THEN Flag(file[ops[o].at]) ELSE "no"]
    /\ UNCHANGED <<connections, isConnecting>>

\* ... and kept in the connection.
Fetched(o) ==
    /\ Step(o, "fetched")
    /\ connections' = Changed(o, LAMBDA c : [c EXCEPT !.by = 0, !.allow = ops[o].allow])
    /\ Done(o, ops[o])
    /\ UNCHANGED isConnecting

\* The end of an update or a restart; isConnecting stays if it cannot notify.
Finish(o) ==
    /\ Step(o, "next") /\ ops[o].gone = {} /\ ops[o].todo = {}
    /\ isConnecting' = (isConnecting /\ ops[o].notifies /\ broken)
    /\ ops' = [ops EXCEPT ![o] = Idle]
    /\ UNCHANGED connections

OpStep(o) ==
    \/ Write(o) \/ Remove(o) \/ Look(o) \/ Waited(o) \/ Closed(o)
    \/ Started(o) \/ Connected(o) \/ Fails(o) \/ Fetch(o) \/ Fetched(o) \/ Finish(o)

Next ==
    /\ \/ Watch \/ Edit \/ Restart
       \/ ToggleServerDisabled \/ ToggleToolAutoApprove \/ UpdateServerTimeout
       \/ DeleteServer \/ AddRemoteServer
       \/ \E o \in DOMAIN ops : OpStep(o)
    /\ UNCHANGED stdio

\* A change is reported, and what is awaited comes to an end: every request to a
\* server has a timeout.
Fairness == SF_vars(Watch /\ UNCHANGED stdio) /\ \A o \in 1..MaxOps : WF_vars(OpStep(o) /\ UNCHANGED stdio)

Spec == Init /\ [][Next]_vars /\ Fairness

=============================================================================
