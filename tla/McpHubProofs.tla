---------------------------- MODULE McpHubProofs ----------------------------
(***************************************************************************)
(* Proofs about McpHub, for any servers, operations and calls.             *)
(*                                                                         *)
(* The list of connections is right once all is quiet, if the last change  *)
(* was taken up alone.  What is inductive is where a server stands while    *)
(* that change is carried out: still to be removed or looked at, being     *)
(* connected with the settings' own entry, or done.                        *)
(***************************************************************************)
EXTENDS MCMcpHub, FiniteSetTheorems, TLAPS

\* The awaits of connectToServer at which the connection is listed.
Listed == {"connecting", "fetching", "fetched"}

\* What an operation looks at has an entry.
Shaped(op) ==
    /\ op.todo \subseteq Names(op.files)
    /\ op.pc = "none" => op.gone = {} /\ op.todo = {}
    /\ op.pc \in {"waiting", "starting"} \cup Listed => op.with \in Entry
    /\ op.pc = "writing" /\ op.what \in {"disable", "allow"} => op.with \in Entry

\* A connection being made is that of the operation making it.
Owned ==
    \A s \in Servers : \A i \in DOMAIN connections[s] :
      LET o == connections[s][i].by
      IN  o # 0 => ops[o].pc \in Listed /\ ops[o].at = s

Inv == TypeOK /\ (\A o \in 1..MaxOps : Shaped(ops[o])) /\ Owned

-----------------------------------------------------------------------------
\* As long as operations do not meet, the one there is has closed what it drops.
Alone == \A o, p \in 1..MaxOps : ops[o].pc # "none" /\ ops[p].pc # "none" => o = p

Tracked(o) ==
    LET s == ops[o].at
    IN  /\ ops[o].pc = "closing" /\ Known(s) => Find(s).closed
        /\ ops[o].pc = "starting" => ~Known(s)
        /\ ops[o].pc \in Listed => Known(s) /\ Find(s).by = o

Single == (\A s \in Servers : Len(connections[s]) <= 1) /\ \A o \in 1..MaxOps : Tracked(o)

Apart == ~met => Alone /\ Single

-----------------------------------------------------------------------------
\* The list of a server is what the settings say.
Right(s, list) ==
    LET e == file[s]
    IN  /\ e # None /\ s \notin stdio => list # <<>>
        /\ list # <<>> =>
             /\ e # None /\ Len(list) = 1 /\ list[1].by = 0
             /\ list[1].config = Parsed(e) /\ list[1].disabled = e.disabled
             /\ list[1].allow = "yes" => e.allow

\* What an operation does is what the settings say now.
Informed(op) ==
    /\ \A s \in op.gone : file[s] = None
    /\ \A s \in op.todo : op.parsed /\ op.files[s] = Parsed(file[s])
    /\ op.pc \in {"waiting", "closing", "starting"} \cup Listed => op.with = Parsed(file[op.at])
    /\ op.pc = "fetched" /\ op.allow = "yes" => file[op.at].allow

\* The list is as connectToServer has left it when it awaits.
Halfway(o, op, list) ==
    /\ op.pc = "starting" => list = <<>> /\ op.at \in stdio /\ ~op.with.disabled
    /\ op.pc \in Listed =>
         /\ Len(list) = 1 /\ list[1].by = o
         /\ list[1].config = op.with /\ list[1].disabled = op.with.disabled
         /\ ~op.with.disabled /\ list[1].allow = "unknown"

\* An operation is still to deal with a server, or is dealing with it.
Ahead(op, s) ==
    \/ s \in op.gone \cup op.todo
    \/ s = op.at /\ op.pc \in {"closing", "starting"} \cup Listed

Carried ==
    /\ \A o \in 1..MaxOps : Informed(ops[o]) /\ Halfway(o, ops[o], connections[ops[o].at])
    /\ \A s \in Servers : Right(s, connections[s]) \/ \E o \in 1..MaxOps : Ahead(ops[o], s)

Bringing == settled => Alone /\ (~changed /\ ~broken => Carried)

-----------------------------------------------------------------------------
(* Facts about entries, operations and lists. *)

LEMMA NoneIsNoEntry == None \notin Entry
<1>1. "none" \in DOMAIN None
  BY DEF None
<1>2. \A e \in Entry : "none" \notin DOMAIN e
  BY DEF Entry
<1>3. QED
  BY <1>1, <1>2

LEMMA EntryFields ==
    ASSUME NEW e \in Entry
    PROVE  e.disabled \in BOOLEAN /\ e.allow \in BOOLEAN /\ e.bare \in BOOLEAN
  BY DEF Entry

LEMMA ParsedTyped ==
    ASSUME NEW e \in Entry
    PROVE  /\ Parsed(e) \in Entry /\ ~Parsed(e).bare
           /\ Parsed(e).disabled = e.disabled /\ Parsed(e).allow = e.allow
           /\ Parsed(e).rev = e.rev
  BY NoneIsNoEntry DEF Parsed, Entry

LEMMA ParsedNone == Parsed(None) = None
  BY DEF Parsed

LEMMA ParsedFileTyped ==
    ASSUME NEW f \in Files
    PROVE  /\ ParsedFile(f) \in Files /\ Names(ParsedFile(f)) = Names(f)
           /\ \A s \in Servers : ParsedFile(f)[s] = Parsed(f[s])
  BY NoneIsNoEntry, ParsedTyped, ParsedNone DEF ParsedFile, Files, Names

LEMMA IdleTyped == Idle \in Op /\ Shaped(Idle)
  BY ServersAssumption DEF Idle, Op, Files, Shaped, Names, Listed

LEMMA NewTyped ==
    ASSUME NEW e \in Entry, NEW o \in 0..MaxOps
    PROVE  /\ New(e, o) \in Connection
           /\ New(e, o).by = o /\ New(e, o).config = e /\ New(e, o).disabled = e.disabled
           /\ New(e, o).allow = "unknown" /\ New(e, o).closed = e.disabled
  BY EntryFields DEF New, Connection

LEMMA FlagTyped ==
    ASSUME NEW e \in Entry \cup {None}
    PROVE  Flag(e) \in {"yes", "no"} /\ (Flag(e) = "yes" => e \in Entry /\ e.allow)
  BY DEF Flag

\* A list of one connection.
LEMMA OneTyped ==
    ASSUME NEW c \in Connection
    PROVE  /\ <<c>> \in Seq(Connection) /\ Len(<<c>>) = 1 /\ <<c>> # <<>>
           /\ DOMAIN <<c>> = {1} /\ <<c>>[1] = c
  OBVIOUS

\* A list whose first connection is changed.
LEMMA FirstChanged ==
    ASSUME NEW list \in Seq(Connection), list # <<>>, NEW c \in Connection
    PROVE  /\ [list EXCEPT ![1] = c] \in Seq(Connection)
           /\ Len([list EXCEPT ![1] = c]) = Len(list)
           /\ [list EXCEPT ![1] = c] # <<>>
           /\ DOMAIN [list EXCEPT ![1] = c] = DOMAIN list /\ 1 \in DOMAIN list
           /\ \A i \in DOMAIN list : [list EXCEPT ![1] = c][i] = IF i = 1 THEN c ELSE list[i]
  OBVIOUS

-----------------------------------------------------------------------------
(* Types, and what every step keeps. *)

LEMMA OpFields ==
    ASSUME NEW op \in Op
    PROVE  /\ op.at \in Servers /\ op.with \in Entry \cup {None} /\ op.files \in Files
           /\ op.gone \in SUBSET Servers /\ op.todo \in SUBSET Servers
           /\ op.parsed \in BOOLEAN /\ op.notifies \in BOOLEAN /\ op.allow \in {"yes", "no"}
           /\ op.what \in {"disable", "allow", "timeout", "add", "delete", "update"}
  BY DEF Op

LEMMA Types ==
    ASSUME Inv
    PROVE  /\ file \in Files /\ connections \in [Servers -> Seq(Connection)]
           /\ ops \in [1..MaxOps -> Op] /\ DOMAIN ops = 1..MaxOps
           /\ \A o \in 1..MaxOps : ops[o] \in Op /\ Shaped(ops[o])
           /\ \A s \in Servers : connections[s] \in Seq(Connection)
  BY DEF Inv, TypeOK

LEMMA FirstTyped ==
    ASSUME Inv, NEW s \in Servers, Known(s)
    PROVE  /\ Find(s) \in Connection /\ Find(s).config \in Entry
           /\ 1 \in DOMAIN connections[s] /\ Find(s) = connections[s][1]
<1>1. connections[s] \in Seq(Connection) /\ connections[s] # <<>>
  BY Types DEF Known
<1>2. 1 \in DOMAIN connections[s] /\ connections[s][1] \in Connection
  BY <1>1
<1>3. QED
  BY <1>2 DEF Find, Connection

\* What other variables may become.
OthersStay ==
    /\ file' \in Files /\ broken' \in BOOLEAN /\ changed' \in BOOLEAN /\ isConnecting' \in BOOLEAN
    /\ calls' \in 0..MaxCalls /\ stdio' \subseteq Servers

\* A step of one operation, which changes at most the list of one server.
Move(o, op, s, list) ==
    /\ o \in 1..MaxOps /\ op \in Op /\ Shaped(op)
    /\ s \in Servers /\ list \in Seq(Connection)
    /\ ops' = [ops EXCEPT ![o] = op]
    /\ connections' = [connections EXCEPT ![s] = list]
    /\ ops[o].pc \in Listed => s = ops[o].at
    /\ \A i \in DOMAIN list :
         \/ list[i].by = 0
         \/ list[i].by = o /\ op.pc \in Listed /\ op.at = s
         \/ list[i].by # o /\ \E k \in DOMAIN connections[s] : connections[s][k].by = list[i].by

LEMMA MoveKeepsInv ==
    ASSUME Inv, OthersStay, NEW o, NEW op, NEW s, NEW list, Move(o, op, s, list)
    PROVE  Inv'
<1> USE DEF Move, OthersStay
<1>1. connections' \in [Servers -> Seq(Connection)] /\ ops' \in [1..MaxOps -> Op]
  BY Types
<1>2. TypeOK'
  BY <1>1 DEF TypeOK
<1>3. \A p \in 1..MaxOps : Shaped(ops'[p])
  BY Types
<1>4. Owned'
  <2>1. SUFFICES ASSUME NEW t \in Servers, NEW i \in DOMAIN connections'[t],
                        connections'[t][i].by # 0
                 PROVE  ops'[connections'[t][i].by].pc \in Listed /\ ops'[connections'[t][i].by].at = t
    BY DEF Owned
  <2>2. CASE t = s
    <3>1. connections'[t] = list
      BY <2>2, Types
    <3>2. CASE list[i].by = o /\ op.pc \in Listed /\ op.at = s
      BY <3>1, <3>2, <2>2, Types
    <3>3. CASE list[i].by # o /\ \E k \in DOMAIN connections[s] : connections[s][k].by = list[i].by
      <4>1. ops[list[i].by].pc \in Listed /\ ops[list[i].by].at = s
        BY <3>1, <3>3, <2>1 DEF Inv, Owned
      <4>2. list[i].by \in 1..MaxOps
        <5>1. list[i] \in Connection
          BY <3>1, <2>1
        <5>2. QED
          BY <5>1, <3>1, <2>1, BoundAssumption DEF Connection
      <4>3. QED
        BY <4>1, <4>2, <3>1, <3>3, <2>2, Types
    <3>4. QED
      BY <3>1, <3>2, <3>3, <2>1
  <2>3. CASE t # s
    <3>1. connections'[t] = connections[t]
      BY <2>3, Types
    <3>2. ops[connections[t][i].by].pc \in Listed /\ ops[connections[t][i].by].at = t
      BY <3>1, <2>1 DEF Inv, Owned
    <3>3. connections[t][i].by \in 1..MaxOps
      <4>1. connections[t][i] \in Connection
        BY <3>1, <2>1, Types
      <4>2. QED
        BY <4>1, <3>1, <2>1, BoundAssumption DEF Connection
    <3>4. connections[t][i].by # o
      BY <3>2, <2>3
    <3>5. QED
      BY <3>1, <3>2, <3>3, <3>4, Types
  <2>4. QED
    BY <2>2, <2>3
<1>5. QED
  BY <1>2, <1>3, <1>4 DEF Inv

LEMMA InitInv == Init => Inv
<1> SUFFICES ASSUME Init PROVE Inv
  OBVIOUS
<1>1. ops \in [1..MaxOps -> Op] /\ \A o \in 1..MaxOps : Shaped(ops[o])
  BY IdleTyped DEF Init
<1>2. connections \in [Servers -> Seq(Connection)] /\ \A s \in Servers : connections[s] = <<>>
  BY DEF Init
<1>3. TypeOK
  <2>1. 0 \in 0..MaxCalls
    BY BoundAssumption
  <2>2. file \in Files /\ broken \in BOOLEAN /\ changed \in BOOLEAN /\ isConnecting \in BOOLEAN
        /\ calls \in 0..MaxCalls /\ stdio \subseteq Servers
    BY <2>1 DEF Init
  <2>3. QED
    BY <1>1, <1>2, <2>2 DEF TypeOK
<1>4. Owned
  BY <1>2 DEF Owned
<1>5. QED
  BY <1>1, <1>3, <1>4 DEF Inv

-----------------------------------------------------------------------------
(* Steps of the user and of the watcher. *)

\* What every call but a move of an operation keeps.
LEMMA StayKeepsInv ==
    ASSUME Inv, UNCHANGED <<ops, connections>>, OthersStay
    PROVE  Inv'
<1>1. TypeOK'
  BY Types DEF TypeOK, OthersStay
<1>2. Owned' /\ \A o \in 1..MaxOps : Shaped(ops[o])'
  BY DEF Inv, Owned
<1>3. QED
  BY <1>1, <1>2 DEF Inv

LEMMA OthersTyped ==
    ASSUME Inv
    PROVE  /\ broken \in BOOLEAN /\ changed \in BOOLEAN /\ isConnecting \in BOOLEAN
           /\ calls \in 0..MaxCalls /\ stdio \subseteq Servers
  BY DEF Inv, TypeOK

LEMMA CallTyped ==
    ASSUME Inv, Call
    PROVE  calls' \in 0..MaxCalls
<1>1. calls \in 0..MaxCalls
  BY OthersTyped
<1>2. QED
  BY <1>1, BoundAssumption DEF Call

LEMMA UpdateTyped ==
    ASSUME Inv, NEW f \in Files,
           NEW what \in {"disable", "allow", "timeout", "add", "delete", "update"},
           NEW op, \E parsed, notifies \in BOOLEAN : op = Update(what, f, parsed, notifies)
    PROVE  /\ op \in Op /\ Shaped(op) /\ op.pc = "next" /\ op.what = what /\ op.files = f
           /\ op.todo = Names(f) /\ op.gone = {s \in Servers : Known(s)} \ Names(f)
           /\ op.at = Idle.at
<1>1. Names(f) \in SUBSET Servers
  BY DEF Names
<1> PICK parsed, notifies \in BOOLEAN : op = Update(what, f, parsed, notifies)
  OBVIOUS
<1>2. /\ op.pc = "next" /\ op.what = what /\ op.files = f /\ op.todo = Names(f)
      /\ op.gone = {s \in Servers : Known(s)} \ Names(f) /\ op.at = Idle.at
  BY DEF Update, Idle
<1>3. op \in Op
  <2> DEFINE g == {s \in Servers : Known(s)} \ Names(f)
  <2>1. g \in SUBSET Servers
    OBVIOUS
  <2> DEFINE half == [Idle EXCEPT !.pc = "next", !.what = what, !.files = f]
  <2>2. op = [half EXCEPT !.parsed = parsed, !.notifies = notifies, !.todo = Names(f), !.gone = g]
    BY DEF Update, Idle
  <2>3. half \in Op
    BY IdleTyped DEF Op
  <2> HIDE DEF g, half
  <2>4. QED
    BY <1>1, <2>1, <2>2, <2>3 DEF Op
<1>4. Shaped(op)
  BY <1>2 DEF Shaped, Listed
<1>5. QED
  BY <1>2, <1>3, <1>4

\* An operation begins.
LEMMA BeginKeepsInv ==
    ASSUME Inv, NEW op \in Op, Shaped(op), Begin(op), UNCHANGED connections, OthersStay
    PROVE  Inv'
<1>1. PICK o \in 1..MaxOps : ops[o].pc = "none" /\ ops' = [ops EXCEPT ![o] = op]
  BY Types DEF Begin
<1> DEFINE s == ops[o].at
<1>2. s \in Servers /\ connections[s] \in Seq(Connection)
  BY Types, OpFields
<1>3. connections' = [connections EXCEPT ![s] = connections[s]]
  BY Types
<1>4. \A i \in DOMAIN connections[s] : connections[s][i].by # 0 => connections[s][i].by # o
  BY <1>1, <1>2 DEF Inv, Owned, Listed
<1>5. ops[o].pc \in Listed => s = ops[o].at
  OBVIOUS
<1>6. \A i \in DOMAIN connections[s] :
        \/ connections[s][i].by = 0
        \/ connections[s][i].by = o /\ op.pc \in Listed /\ op.at = s
        \/ /\ connections[s][i].by # o
           /\ \E k \in DOMAIN connections[s] : connections[s][k].by = connections[s][i].by
  BY <1>4
<1>7. Move(o, op, s, connections[s])
  BY <1>1, <1>2, <1>3, <1>5, <1>6 DEF Move
<1>8. QED
  BY <1>7, MoveKeepsInv

LEMMA WatchKeepsInv ==
    ASSUME Inv, Watch, UNCHANGED stdio
    PROVE  Inv'
<1>1. CASE broken
  BY <1>1, StayKeepsInv, OthersTyped, Types DEF Watch, OthersStay
<1>2. CASE ~broken
  <2>1. ParsedFile(file) \in Files
    BY Types, ParsedFileTyped
  <2> DEFINE op == Update("update", ParsedFile(file), TRUE, TRUE)
  <2>2. op \in Op /\ Shaped(op)
    <3>1. \E parsed, notifies \in BOOLEAN : op = Update("update", ParsedFile(file), parsed, notifies)
      BY Zenon
    <3> HIDE DEF op
    <3>2. QED
      BY <2>1, <3>1, UpdateTyped
  <2>3. Begin(op) /\ isConnecting' = TRUE /\ changed' = FALSE /\ UNCHANGED <<file, broken, connections, calls>>
    BY <1>2 DEF Watch
  <2> HIDE DEF op
  <2>4. OthersStay
    BY <2>3, OthersTyped, Types DEF OthersStay
  <2>5. QED
    BY <2>2, <2>3, <2>4, BeginKeepsInv
<1>3. QED
  BY <1>1, <1>2

LEMMA EditKeepsInv ==
    ASSUME Inv, Edit, UNCHANGED stdio
    PROVE  Inv'
<1>1. file' \in Files /\ broken' \in BOOLEAN
  BY Types, OthersTyped DEF Edit, Files
<1>2. calls' \in 0..MaxCalls
  BY CallTyped DEF Edit
<1>3. QED
  BY <1>1, <1>2, StayKeepsInv, OthersTyped DEF Edit, OthersStay

\* A call that changes the settings, having read them.
Writing(what, f, parsed, s, e) ==
    [Idle EXCEPT !.pc = "writing", !.what = what, !.at = s, !.with = e, !.files = f, !.parsed = parsed]

LEMMA WritingTyped ==
    ASSUME NEW f \in Files, NEW parsed \in BOOLEAN, NEW s \in Servers, NEW e \in Entry \cup {None},
           NEW what \in {"disable", "allow", "timeout", "add", "delete", "update"},
           what \in {"disable", "allow"} => e \in Entry
    PROVE  LET op == Writing(what, f, parsed, s, e)
           IN  /\ op \in Op /\ Shaped(op) /\ op.pc = "writing" /\ op.what = what
               /\ op.at = s /\ op.with = e /\ op.files = f /\ op.gone = {} /\ op.todo = {}
<1> DEFINE op == Writing(what, f, parsed, s, e)
<1>1. /\ op.pc = "writing" /\ op.what = what /\ op.at = s /\ op.with = e /\ op.files = f
      /\ op.gone = {} /\ op.todo = {}
  BY DEF Writing, Idle
<1>2. op \in Op
  BY IdleTyped DEF Writing, Op
<1>3. Shaped(op)
  BY <1>1 DEF Shaped, Listed
<1>4. QED
  BY <1>1, <1>2, <1>3

\* The calls that read the settings, as one.
Calls ==
    ToggleServerDisabled \/ ToggleToolAutoApprove \/ UpdateServerTimeout \/ DeleteServer \/ AddRemoteServer

LEMMA CallsRead ==
    ASSUME Inv, Calls
    PROVE  \E op \in Op :
             /\ Shaped(op) /\ op.pc = "writing" /\ op.gone = {} /\ op.todo = {}
             /\ Begin(op) /\ Call /\ UNCHANGED <<settings, connections, isConnecting>>
<1>1. \A s \in Names(file) : s \in Servers /\ file[s] \in Entry
  BY Types DEF Names, Files
<1>2. ParsedFile(file) \in Files
  BY Types, ParsedFileTyped
<1>3. ASSUME NEW what \in {"disable", "allow", "timeout", "add", "delete", "update"},
             NEW f \in Files, NEW parsed \in BOOLEAN, NEW s \in Servers, NEW e \in Entry \cup {None},
             what \in {"disable", "allow"} => e \in Entry,
             Reads(what, f, parsed, s, e)
      PROVE  \E op \in Op :
               /\ Shaped(op) /\ op.pc = "writing" /\ op.gone = {} /\ op.todo = {}
               /\ Begin(op) /\ Call /\ UNCHANGED <<settings, connections, isConnecting>>
  <2>1. Begin(Writing(what, f, parsed, s, e))
    BY <1>3 DEF Reads, Writing
  <2>2. QED
    BY <1>3, <2>1, WritingTyped DEF Reads
<1>4. CASE ToggleServerDisabled
  <2>1. PICK s \in Names(file), v \in BOOLEAN :
          Reads("disable", ParsedFile(file), TRUE, s, [Parsed(file[s]) EXCEPT !.disabled = v])
    BY <1>4 DEF ToggleServerDisabled
  <2>2. [Parsed(file[s]) EXCEPT !.disabled = v] \in Entry
    BY <1>1, ParsedTyped DEF Entry
  <2>3. QED
    BY <1>1, <1>2, <1>3, <2>1, <2>2
<1>5. CASE ToggleToolAutoApprove
  <2>1. PICK s \in Names(file), v \in BOOLEAN : Reads("allow", file, FALSE, s, [file[s] EXCEPT !.allow = v])
    BY <1>5 DEF ToggleToolAutoApprove
  <2>2. [file[s] EXCEPT !.allow = v] \in Entry
    BY <1>1 DEF Entry
  <2>3. QED
    BY <1>1, <1>3, <2>1, <2>2, Types
<1>6. CASE UpdateServerTimeout
  <2>1. PICK s \in Names(file), r \in Revs : Reads("timeout", file, FALSE, s, [file[s] EXCEPT !.rev = r])
    BY <1>6 DEF UpdateServerTimeout
  <2>2. [file[s] EXCEPT !.rev = r] \in Entry
    BY <1>1 DEF Entry
  <2>3. QED
    BY <1>1, <1>3, <2>1, <2>2, Types
<1>7. CASE DeleteServer
  BY <1>1, <1>3, <1>7, Types DEF DeleteServer
<1>8. CASE AddRemoteServer
  <2>1. PICK s \in Servers, r \in Revs :
          Reads("add", ParsedFile(file), TRUE, s, [disabled |-> FALSE, rev |-> r, allow |-> FALSE, bare |-> TRUE])
    BY <1>8 DEF AddRemoteServer
  <2>2. [disabled |-> FALSE, rev |-> r, allow |-> FALSE, bare |-> TRUE] \in Entry
    BY DEF Entry
  <2>3. QED
    BY <1>2, <1>3, <2>1, <2>2
<1>9. QED
  BY <1>4, <1>5, <1>6, <1>7, <1>8 DEF Calls

LEMMA CallsKeepInv ==
    ASSUME Inv, Calls, UNCHANGED stdio
    PROVE  Inv'
  BY CallsRead, CallTyped, BeginKeepsInv, OthersTyped, Types DEF settings, OthersStay

\* A restart waits with the configuration in memory.
Waiting(s, notifies) ==
    [Idle EXCEPT !.pc = "waiting", !.at = s, !.notifies = notifies, !.with = Find(s).config]

LEMMA WaitingTyped ==
    ASSUME Inv, NEW s \in Servers, NEW notifies \in BOOLEAN, Known(s)
    PROVE  LET op == Waiting(s, notifies)
           IN  /\ op \in Op /\ Shaped(op) /\ op.pc = "waiting" /\ op.at = s
               /\ op.with = Find(s).config /\ op.gone = {} /\ op.todo = {}
<1> DEFINE op == Waiting(s, notifies)
<1>1. op.pc = "waiting" /\ op.at = s /\ op.with = Find(s).config /\ op.gone = {} /\ op.todo = {}
  BY DEF Waiting, Idle
<1>2. Find(s).config \in Entry
  BY FirstTyped
<1>3. op \in Op
  BY <1>2, IdleTyped DEF Waiting, Op
<1>4. Shaped(op)
  BY <1>1, <1>2 DEF Shaped, Listed
<1>5. QED
  BY <1>1, <1>3, <1>4

LEMMA RestartBegins ==
    ASSUME Inv, Restart
    PROVE  /\ Call /\ isConnecting' \in BOOLEAN /\ UNCHANGED <<settings, connections>>
           /\ \/ UNCHANGED ops
              \/ \E s \in Servers, notifies \in BOOLEAN : Known(s) /\ Begin(Waiting(s, notifies))
<1>1. PICK s \in Servers, notifies \in BOOLEAN :
        /\ isConnecting' = (Known(s) \/ (notifies /\ broken))
        /\ IF Known(s) /\ ~(notifies /\ broken)
             THEN Begin(Waiting(s, notifies)) ELSE UNCHANGED ops
        /\ UNCHANGED <<settings, connections>>
  BY DEF Restart, Waiting
<1>2. QED
  BY <1>1 DEF Restart

LEMMA RestartKeepsInv ==
    ASSUME Inv, Restart, UNCHANGED stdio
    PROVE  Inv'
<1>1. calls' \in 0..MaxCalls /\ isConnecting' \in BOOLEAN /\ UNCHANGED <<settings, connections>>
  BY RestartBegins, CallTyped
<1>2. CASE UNCHANGED ops
  BY <1>1, <1>2, StayKeepsInv, OthersTyped, Types DEF settings, OthersStay
<1>3. CASE \E s \in Servers, notifies \in BOOLEAN : Known(s) /\ Begin(Waiting(s, notifies))
  BY <1>1, <1>3, WaitingTyped, BeginKeepsInv, OthersTyped, Types DEF settings, OthersStay
<1>4. QED
  BY <1>2, <1>3, RestartBegins

-----------------------------------------------------------------------------
(* Steps of an operation. *)

\* It goes on to another await with a server, or has dealt with it.
Goes(op, pc, s, e) == [op EXCEPT !.pc = pc, !.at = s, !.with = e]
Ended(op) == [op EXCEPT !.pc = "next", !.at = Idle.at, !.with = None, !.allow = "no"]

Plan(op, op2) ==
    /\ op2.gone = op.gone /\ op2.todo = op.todo /\ op2.files = op.files /\ op2.parsed = op.parsed
    /\ op2.notifies = op.notifies /\ op2.what = op.what

LEMMA GoesTyped ==
    ASSUME NEW op \in Op, op.todo \subseteq Names(op.files), NEW s \in Servers,
           NEW pc \in {"closing", "starting", "connecting"},
           NEW e \in Entry \cup {None}, pc # "closing" => e \in Entry,
           NEW op2, op2 = Goes(op, pc, s, e)
    PROVE  /\ op2 \in Op /\ Shaped(op2) /\ Plan(op, op2)
           /\ op2.pc = pc /\ op2.at = s /\ op2.with = e
<1>1. op2.pc = pc /\ op2.at = s /\ op2.with = e /\ Plan(op, op2)
  BY DEF Goes, Op, Plan
<1>2. op2 \in Op
  BY DEF Goes, Op
<1>3. Shaped(op2)
  BY <1>1 DEF Shaped, Plan, Listed
<1>4. QED
  BY <1>1, <1>2, <1>3

LEMMA EndedTyped ==
    ASSUME NEW op \in Op, op.todo \subseteq Names(op.files), NEW op2, op2 = Ended(op)
    PROVE  /\ op2 \in Op /\ Shaped(op2) /\ Plan(op, op2)
           /\ op2.pc = "next" /\ op2.at = Idle.at /\ op2.with = None
<1>1. op2.pc = "next" /\ op2.at = Idle.at /\ op2.with = None /\ Plan(op, op2)
  BY DEF Ended, Op, Plan
<1>2. op2 \in Op
  BY IdleTyped DEF Ended, Op
<1>3. Shaped(op2)
  BY <1>1 DEF Shaped, Plan, Listed
<1>4. QED
  BY <1>1, <1>2, <1>3

\* What connectToServer makes of the list up to its first await.
Connects(o, op2, s, e, list) ==
    \/ op2.pc = "next" /\ e.disabled /\ list = <<New(e, 0)>>
    \/ op2.pc = "next" /\ e.bare /\ list = <<>>
    \/ /\ op2.pc = "starting" /\ op2.at = s /\ op2.with = e
       /\ list = <<>> /\ ~e.disabled /\ s \in stdio
    \/ /\ op2.pc = "connecting" /\ op2.at = s /\ op2.with = e
       /\ list = <<New(e, o)>> /\ ~e.disabled

LEMMA ConnectMoves ==
    ASSUME Inv, NEW o \in 1..MaxOps, NEW op \in Op, op.todo \subseteq Names(op.files),
           NEW s \in Servers, NEW e \in Entry, ops[o].pc \notin Listed, Connect(o, op, s, e)
    PROVE  \E op2, list : Move(o, op2, s, list) /\ Plan(op, op2) /\ Connects(o, op2, s, e, list)
<1>1. <<New(e, 0)>> \in Seq(Connection) /\ <<New(e, o)>> \in Seq(Connection)
  <2>1. New(e, 0) \in Connection
    <3>1. 0 \in 0..MaxOps
      BY BoundAssumption
    <3>2. QED
      BY <3>1, NewTyped
  <2>2. New(e, o) \in Connection
    BY NewTyped, BoundAssumption
  <2>3. QED
    BY <2>1, <2>2
<1>2. /\ DOMAIN <<New(e, 0)>> = {1} /\ <<New(e, 0)>>[1].by = 0
      /\ DOMAIN <<New(e, o)>> = {1} /\ <<New(e, o)>>[1].by = o
  BY DEF New
<1>3. CASE e.disabled /\ connections' = With(s, New(e, 0)) /\ Done(o, op)
  <2> DEFINE op2 == Ended(op)
  <2>1. op2 \in Op /\ Shaped(op2) /\ Plan(op, op2) /\ op2.pc = "next"
    BY EndedTyped
  <2>2. ops' = [ops EXCEPT ![o] = op2] /\ connections' = [connections EXCEPT ![s] = <<New(e, 0)>>]
    BY <1>3 DEF Done, Ended, With
  <2> HIDE DEF op2
  <2>3. Move(o, op2, s, <<New(e, 0)>>)
    BY <1>1, <1>2, <2>1, <2>2 DEF Move
  <2>4. QED
    BY <1>3, <2>1, <2>3 DEF Connects
<1>4. CASE e.bare /\ connections' = Without(s) /\ Done(o, op)
  <2> DEFINE op2 == Ended(op)
  <2>1. op2 \in Op /\ Shaped(op2) /\ Plan(op, op2) /\ op2.pc = "next"
    BY EndedTyped
  <2>2. ops' = [ops EXCEPT ![o] = op2] /\ connections' = [connections EXCEPT ![s] = <<>>]
    BY <1>4 DEF Done, Ended, Without
  <2> HIDE DEF op2
  <2>3. Move(o, op2, s, <<>>)
    BY <2>1, <2>2 DEF Move
  <2>4. QED
    BY <1>4, <2>1, <2>3 DEF Connects
<1>5. CASE /\ ~e.disabled /\ s \in stdio /\ connections' = Without(s)
           /\ ops' = [ops EXCEPT ![o] = Goes(op, "starting", s, e)]
  <2> DEFINE op2 == Goes(op, "starting", s, e)
  <2>1. op2 \in Op /\ Shaped(op2) /\ Plan(op, op2) /\ op2.pc = "starting" /\ op2.at = s /\ op2.with = e
    BY GoesTyped
  <2>2. ops' = [ops EXCEPT ![o] = op2] /\ connections' = [connections EXCEPT ![s] = <<>>]
    BY <1>5 DEF Without
  <2> HIDE DEF op2
  <2>3. Move(o, op2, s, <<>>)
    BY <2>1, <2>2 DEF Move
  <2>4. QED
    BY <1>5, <2>1, <2>3 DEF Connects
<1>6. CASE /\ ~e.disabled /\ connections' = With(s, New(e, o))
           /\ ops' = [ops EXCEPT ![o] = Goes(op, "connecting", s, e)]
  <2> DEFINE op2 == Goes(op, "connecting", s, e)
  <2>1. op2 \in Op /\ Shaped(op2) /\ Plan(op, op2) /\ op2.pc = "connecting" /\ op2.at = s /\ op2.with = e
    BY GoesTyped
  <2>2. ops' = [ops EXCEPT ![o] = op2] /\ connections' = [connections EXCEPT ![s] = <<New(e, o)>>]
    BY <1>6 DEF With
  <2> HIDE DEF op2
  <2>3. Move(o, op2, s, <<New(e, o)>>)
    BY <1>1, <1>2, <2>1, <2>2 DEF Move, Listed
  <2>4. QED
    BY <1>6, <2>1, <2>3 DEF Connects
<1>7. QED
  BY <1>3, <1>4, <1>5, <1>6 DEF Connect, Goes

\* deleteConnection up to its await.
Closes(op2, s, e, list) ==
    /\ op2.pc = "closing" /\ op2.at = s /\ op2.with = e
    /\ list # <<>> /\ Len(list) = Len(connections[s]) /\ list[1].closed
    /\ \A i \in DOMAIN list : i \in DOMAIN connections[s] /\ list[i].by = connections[s][i].by

LEMMA CloseMoves ==
    ASSUME Inv, NEW o \in 1..MaxOps, NEW op \in Op, op.todo \subseteq Names(op.files),
           NEW s \in Servers, NEW e \in Entry \cup {None}, Known(s),
           ops[o].pc \notin Listed, Close(o, op, s, e)
    PROVE  \E op2, list : Move(o, op2, s, list) /\ Plan(op, op2) /\ Closes(op2, s, e, list)
<1> DEFINE op2 == Goes(op, "closing", s, e)
           c == [Find(s) EXCEPT !.closed = TRUE]
           list == [connections[s] EXCEPT ![1] = c]
<1>1. c \in Connection /\ c.closed /\ c.by = Find(s).by
  BY FirstTyped DEF Connection
<1>2. connections[s] \in Seq(Connection) /\ connections[s] # <<>>
  BY Types DEF Known
<1>3. /\ op2 \in Op /\ Shaped(op2) /\ Plan(op, op2) /\ op2.pc = "closing" /\ op2.at = s /\ op2.with = e
  BY GoesTyped
<1>4. ops' = [ops EXCEPT ![o] = op2]
  BY DEF Close, Goes
<1>5. connections' = [connections EXCEPT ![s] = list]
  BY Types DEF Close, Find
<1> HIDE DEF c, op2
<1>6. /\ list \in Seq(Connection) /\ list # <<>> /\ Len(list) = Len(connections[s]) /\ list[1].closed
      /\ \A i \in DOMAIN list : i \in DOMAIN connections[s] /\ list[i].by = connections[s][i].by
  BY <1>1, <1>2 DEF Find
<1> HIDE DEF list
<1>7. \A i \in DOMAIN list : list[i].by # 0 => list[i].by # o
  <2>1. ASSUME NEW i \in DOMAIN list, list[i].by # 0 PROVE ops[list[i].by].pc \in Listed
    BY <1>6, <2>1 DEF Inv, Owned
  <2>2. QED
    BY <2>1
<1>8. Move(o, op2, s, list)
  BY <1>3, <1>4, <1>5, <1>6, <1>7 DEF Move
<1>9. QED
  BY <1>3, <1>6, <1>8 DEF Closes

\* The list of a server with the same connections, by whom they are made.
Same(s, list) ==
    /\ list \in Seq(Connection) /\ Len(list) = Len(connections[s])
    /\ \A i \in DOMAIN list : list[i].by = connections[s][i].by

LEMMA SameMoves ==
    ASSUME Inv, NEW o \in 1..MaxOps, NEW op2 \in Op, Shaped(op2), NEW s \in Servers, NEW list,
           Same(s, list), s = ops[o].at,
           ops[o].pc \in Listed => op2.pc \in Listed /\ op2.at = s,
           ops' = [ops EXCEPT ![o] = op2], connections' = [connections EXCEPT ![s] = list]
    PROVE  Move(o, op2, s, list)
<1>1. connections[s] \in Seq(Connection) /\ DOMAIN list = DOMAIN connections[s]
  BY Types DEF Same
<1>2. \A i \in DOMAIN connections[s] :
        connections[s][i].by = o => op2.pc \in Listed /\ op2.at = s
  <2>1. o # 0
    BY BoundAssumption
  <2>2. QED
    BY <2>1 DEF Inv, Owned
<1>3. \A i \in DOMAIN list :
        \/ list[i].by = 0
        \/ list[i].by = o /\ op2.pc \in Listed /\ op2.at = s
        \/ list[i].by # o /\ \E k \in DOMAIN connections[s] : connections[s][k].by = list[i].by
  BY <1>1, <1>2 DEF Same
<1>4. QED
  BY <1>3 DEF Move, Same

\* A step that leaves the list alone.
LEMMA QuietMoves ==
    ASSUME Inv, NEW o \in 1..MaxOps, NEW op2 \in Op, Shaped(op2),
           ops[o].pc \in Listed => op2.pc \in Listed /\ op2.at = ops[o].at,
           ops' = [ops EXCEPT ![o] = op2], UNCHANGED connections
    PROVE  /\ Move(o, op2, ops[o].at, connections[ops[o].at])
           /\ ops[o].at \in Servers /\ Same(ops[o].at, connections[ops[o].at])
<1>1. ops[o].at \in Servers
  BY Types, OpFields
<1>2. Same(ops[o].at, connections[ops[o].at])
  BY <1>1, Types DEF Same
<1>3. connections' = [connections EXCEPT ![ops[o].at] = connections[ops[o].at]]
  BY Types
<1>4. QED
  BY <1>1, <1>2, <1>3, SameMoves

\* A call writes the settings.
LEMMA WriteMoves ==
    ASSUME Inv, NEW o \in 1..MaxOps, Write(o)
    PROVE  /\ file' \in Files /\ broken' = FALSE /\ changed' = TRUE
           /\ isConnecting' \in BOOLEAN /\ UNCHANGED calls
           /\ \E op2, list :
                /\ Move(o, op2, ops[o].at, list) /\ Same(ops[o].at, list)
                /\ op2.pc \in {"none", "next"}
<1> DEFINE op == ops[o]
           s == op.at
           f == [op.files EXCEPT ![s] = op.with]
<1>1. op \in Op /\ Shaped(op) /\ op.pc = "writing" /\ s \in Servers /\ op.with \in Entry \cup {None}
      /\ op.files \in Files /\ ops[o].pc \notin Listed
  BY Types, OpFields DEF Write, Listed
<1>2. f \in Files
  BY <1>1 DEF Files
<1>3. file' = f /\ broken' = FALSE /\ changed' = TRUE /\ UNCHANGED calls
  BY DEF Write
<1>4. ASSUME NEW c \in Connection, Known(s), c.by = Find(s).by,
             connections' = [connections EXCEPT ![s] = [connections[s] EXCEPT ![1] = c]]
      PROVE  \E list : Same(s, list) /\ connections' = [connections EXCEPT ![s] = list]
  <2> DEFINE list == [connections[s] EXCEPT ![1] = c]
  <2>1. connections[s] \in Seq(Connection) /\ connections[s] # <<>>
    BY <1>1, <1>4, Types DEF Known
  <2>2. Same(s, list)
    BY <1>4, <2>1, FirstChanged DEF Same, Find
  <2>3. QED
    BY <1>4, <2>2
<1>5. UNCHANGED connections => \E list : Same(s, list) /\ connections' = [connections EXCEPT ![s] = list]
  <2>1. Same(s, connections[s])
    BY <1>1, Types DEF Same
  <2>2. QED
    BY <2>1, Types
<1>6. CASE op.what \in {"disable", "allow"} /\ ops' = [ops EXCEPT ![o] = Idle] /\ UNCHANGED isConnecting
  <2>1. op.with \in Entry
    BY <1>1, <1>6 DEF Shaped
  <2>2. \E list : Same(s, list) /\ connections' = [connections EXCEPT ![s] = list]
    <3>1. CASE UNCHANGED connections
      BY <1>5, <3>1
    <3>2. CASE Known(s) /\ connections' = [connections EXCEPT ![s][1].disabled = op.with.disabled]
      <4> DEFINE c == [Find(s) EXCEPT !.disabled = op.with.disabled]
      <4>1. c \in Connection /\ c.by = Find(s).by
        BY <1>1, <2>1, <3>2, FirstTyped, EntryFields DEF Connection
      <4>2. connections' = [connections EXCEPT ![s] = [connections[s] EXCEPT ![1] = c]]
        BY <1>1, <3>2, Types DEF Find
      <4> HIDE DEF c
      <4>3. QED
        BY <1>4, <3>2, <4>1, <4>2
    <3>3. CASE Known(s) /\ connections' = [connections EXCEPT ![s][1].allow = Flag(op.with)]
      <4> DEFINE c == [Find(s) EXCEPT !.allow = Flag(op.with)]
      <4>1. c \in Connection /\ c.by = Find(s).by
        BY <1>1, <3>3, FirstTyped, FlagTyped DEF Connection
      <4>2. connections' = [connections EXCEPT ![s] = [connections[s] EXCEPT ![1] = c]]
        BY <1>1, <3>3, Types DEF Find
      <4> HIDE DEF c
      <4>3. QED
        BY <1>4, <3>3, <4>1, <4>2
    <3>4. QED
      BY <1>1, <1>6, <3>1, <3>2, <3>3 DEF Write
  <2>3. PICK list : Same(s, list) /\ connections' = [connections EXCEPT ![s] = list]
    BY <2>2
  <2>4. Move(o, Idle, s, list)
    BY <1>1, <1>6, <2>3, IdleTyped, SameMoves
  <2>5. Idle.pc = "none"
    BY DEF Idle
  <2>6. QED
    BY <1>2, <1>3, <1>6, <2>3, <2>4, <2>5, OthersTyped
<1>7. CASE /\ ops' = [ops EXCEPT ![o] = Update(op.what, IF op.parsed THEN ParsedFile(f) ELSE f, op.parsed, FALSE)]
           /\ isConnecting' = TRUE /\ UNCHANGED connections
  <2> DEFINE g == IF op.parsed THEN ParsedFile(f) ELSE f
             op2 == Update(op.what, g, op.parsed, FALSE)
  <2>1. g \in Files
    BY <1>2, ParsedFileTyped
  <2>2. op2 \in Op /\ Shaped(op2) /\ op2.pc = "next"
    <3>1. \E parsed, notifies \in BOOLEAN : op2 = Update(op.what, g, parsed, notifies)
      <4>1. op.parsed \in BOOLEAN
        BY <1>1, OpFields
      <4>2. QED
        BY <4>1, Zenon
    <3>2. op.what \in {"disable", "allow", "timeout", "add", "delete", "update"}
      BY <1>1, OpFields
    <3> HIDE DEF op2, g, op
    <3>3. QED
      BY <2>1, <3>1, <3>2, UpdateTyped
  <2>3. ops' = [ops EXCEPT ![o] = op2]
    BY <1>7
  <2> HIDE DEF op2
  <2>4. Move(o, op2, s, connections[s]) /\ Same(s, connections[s])
    BY <1>1, <1>7, <2>2, <2>3, QuietMoves
  <2>5. QED
    BY <1>2, <1>3, <1>7, <2>2, <2>4
<1>8. QED
  BY <1>6, <1>7 DEF Write

\* An update looks for what to remove.
RemoveMove(o, op2, s, list) ==
    /\ ops[o].pc = "next" /\ s \in ops[o].gone
    /\ op2.gone = ops[o].gone \ {s} /\ op2.todo = ops[o].todo
    /\ op2.files = ops[o].files /\ op2.parsed = ops[o].parsed
    /\ \/ Closes(op2, s, None, list)
       \/ ~Known(s) /\ op2.pc = "next" /\ list = <<>>

LEMMA RemoveMoves ==
    ASSUME Inv, NEW o \in 1..MaxOps, Remove(o)
    PROVE  \E op2, s, list : Move(o, op2, s, list) /\ RemoveMove(o, op2, s, list)
<1> DEFINE s == CHOOSE s \in ops[o].gone : TRUE
           op == [ops[o] EXCEPT !.gone = @ \ {s}]
<1>1. ops[o] \in Op /\ Shaped(ops[o]) /\ ops[o].pc = "next" /\ ops[o].pc \notin Listed
  BY Types DEF Remove, Step, Listed
<1>2. s \in ops[o].gone /\ s \in Servers
  BY <1>1, OpFields DEF Remove
<1>3. /\ op \in Op /\ op.todo = ops[o].todo /\ op.gone = ops[o].gone \ {s} /\ op.files = ops[o].files
      /\ op.parsed = ops[o].parsed /\ op.todo \subseteq Names(op.files)
  BY <1>1 DEF Op, Shaped
<1>4. IF Known(s) THEN Close(o, op, s, None) ELSE Done(o, op) /\ UNCHANGED connections
  BY DEF Remove
<1> HIDE DEF s, op
<1>5. CASE Known(s)
  <2>1. PICK op2, list : Move(o, op2, s, list) /\ Plan(op, op2) /\ Closes(op2, s, None, list)
    BY <1>1, <1>2, <1>3, <1>4, <1>5, CloseMoves
  <2>2. QED
    BY <1>1, <1>2, <1>3, <2>1 DEF Plan, RemoveMove
<1>6. CASE ~Known(s)
  <2> DEFINE op2 == Ended(op)
  <2>1. ops' = [ops EXCEPT ![o] = op2]
    BY <1>4, <1>6 DEF Done, Ended
  <2>2. op2 \in Op /\ Shaped(op2) /\ Plan(op, op2) /\ op2.pc = "next"
    BY <1>3, EndedTyped
  <2> HIDE DEF op2
  <2>3. connections[s] = <<>>
    BY <1>6 DEF Known
  <2>4. connections' = [connections EXCEPT ![s] = <<>>]
    BY <1>2, <1>4, <1>6, <2>3, Types
  <2>5. Move(o, op2, s, <<>>)
    BY <1>1, <1>2, <2>1, <2>2, <2>4 DEF Move
  <2>6. QED
    BY <1>1, <1>2, <1>3, <1>6, <2>2, <2>5 DEF Plan, RemoveMove
<1>7. QED
  BY <1>5, <1>6

\* It looks at the next server of the settings.
LookMove(o, op2, s, list) ==
    LET e == ops[o].files[s]
    IN  /\ ops[o].pc = "next" /\ s \in ops[o].todo /\ e \in Entry
        /\ op2.todo = ops[o].todo \ {s} /\ op2.gone = ops[o].gone
        /\ op2.files = ops[o].files /\ op2.parsed = ops[o].parsed
        /\ \/ ~Known(s) /\ Connects(o, op2, s, e, list)
           \/ Closes(op2, s, e, list)
           \/ ~op2.parsed /\ op2.pc = "next" /\ list = connections[s]

LEMMA LookMoves ==
    ASSUME Inv, NEW o \in 1..MaxOps, Look(o)
    PROVE  \E op2, s, list : Move(o, op2, s, list) /\ LookMove(o, op2, s, list)
<1> DEFINE s == CHOOSE s \in ops[o].todo : TRUE
           op == [ops[o] EXCEPT !.todo = @ \ {s}]
           e == ops[o].files[s]
<1>1. ops[o] \in Op /\ Shaped(ops[o]) /\ ops[o].pc = "next" /\ ops[o].pc \notin Listed
  BY Types DEF Look, Step, Listed
<1>2. s \in ops[o].todo /\ s \in Servers /\ e \in Entry
  BY <1>1, OpFields DEF Look, Shaped, Names, Files
<1>3. /\ op \in Op /\ op.gone = ops[o].gone /\ op.todo = ops[o].todo \ {s} /\ op.files = ops[o].files
      /\ op.parsed = ops[o].parsed /\ op.todo \subseteq Names(op.files)
  BY <1>1 DEF Op, Shaped
<1>4. IF ~Known(s) THEN Connect(o, op, s, e)
      ELSE IF op.parsed \/ Find(s).config # e THEN Close(o, op, s, e)
      ELSE Done(o, op) /\ UNCHANGED connections
  BY DEF Look
<1> HIDE DEF s, op
<1>5. CASE ~Known(s)
  <2>1. PICK op2, list : Move(o, op2, s, list) /\ Plan(op, op2) /\ Connects(o, op2, s, e, list)
    BY <1>1, <1>2, <1>3, <1>4, <1>5, ConnectMoves
  <2>2. QED
    BY <1>1, <1>2, <1>3, <1>5, <2>1 DEF Plan, LookMove
<1>6. CASE Known(s) /\ Close(o, op, s, e)
  <2>1. PICK op2, list : Move(o, op2, s, list) /\ Plan(op, op2) /\ Closes(op2, s, e, list)
    BY <1>1, <1>2, <1>3, <1>6, CloseMoves
  <2>2. QED
    BY <1>1, <1>2, <1>3, <2>1 DEF Plan, LookMove
<1>7. CASE ~op.parsed /\ Done(o, op) /\ UNCHANGED connections
  <2> DEFINE op2 == Ended(op)
  <2>1. ops' = [ops EXCEPT ![o] = op2]
    BY <1>7 DEF Done, Ended
  <2>2. op2 \in Op /\ Shaped(op2) /\ Plan(op, op2) /\ op2.pc = "next"
    BY <1>3, EndedTyped
  <2> HIDE DEF op2
  <2>3. connections' = [connections EXCEPT ![s] = connections[s]] /\ connections[s] \in Seq(Connection)
    BY <1>2, <1>7, Types
  <2>4. \A i \in DOMAIN connections[s] : connections[s][i].by # 0 => connections[s][i].by # o
    BY <1>1, <1>2 DEF Inv, Owned
  <2>5. Move(o, op2, s, connections[s])
    BY <1>1, <1>2, <2>1, <2>2, <2>3, <2>4 DEF Move
  <2>6. QED
    BY <1>1, <1>2, <1>3, <1>7, <2>2, <2>5 DEF Plan, LookMove
<1>8. QED
  BY <1>4, <1>5, <1>6, <1>7

\* The delay of a restart is over.
WaitedMove(o, op2, s, list) ==
    /\ ops[o].pc = "waiting" /\ s = ops[o].at /\ Plan(ops[o], op2)
    /\ \/ ~Known(s) /\ Connects(o, op2, s, ops[o].with, list)
       \/ Closes(op2, s, ops[o].with, list)

LEMMA WaitedMoves ==
    ASSUME Inv, NEW o \in 1..MaxOps, Waited(o)
    PROVE  \E op2, s, list : Move(o, op2, s, list) /\ WaitedMove(o, op2, s, list)
<1> DEFINE op == ops[o]
<1>1. /\ op \in Op /\ op.todo \subseteq Names(op.files) /\ op.at \in Servers /\ op.with \in Entry
      /\ op.pc = "waiting" /\ op.pc \notin Listed
  BY Types, OpFields DEF Waited, Step, Shaped, Listed
<1>2. CASE Known(op.at)
  <2>1. Close(o, op, op.at, op.with)
    BY <1>2 DEF Waited
  <2>2. QED
    BY <1>1, <1>2, <2>1, CloseMoves DEF WaitedMove
<1>3. CASE ~Known(op.at)
  <2>1. Connect(o, op, op.at, op.with)
    BY <1>3 DEF Waited
  <2>2. QED
    BY <1>1, <1>3, <2>1, ConnectMoves DEF WaitedMove
<1>4. QED
  BY <1>2, <1>3

\* The transport is closed.
ClosedMove(o, op2, s, list) ==
    /\ ops[o].pc = "closing" /\ s = ops[o].at /\ Plan(ops[o], op2)
    /\ \/ ops[o].with = None /\ op2.pc = "next" /\ list = <<>>
       \/ ops[o].with \in Entry /\ Connects(o, op2, s, ops[o].with, list)

LEMMA ClosedMoves ==
    ASSUME Inv, NEW o \in 1..MaxOps, Closed(o)
    PROVE  \E op2, s, list : Move(o, op2, s, list) /\ ClosedMove(o, op2, s, list)
<1> DEFINE op == ops[o]
<1>1. /\ op \in Op /\ op.todo \subseteq Names(op.files) /\ op.at \in Servers
      /\ op.with \in Entry \cup {None} /\ op.pc = "closing" /\ op.pc \notin Listed
  BY Types, OpFields DEF Closed, Step, Shaped, Listed
<1>2. CASE op.with = None
  <2> DEFINE op2 == Ended(op)
  <2>1. ops' = [ops EXCEPT ![o] = op2] /\ connections' = [connections EXCEPT ![op.at] = <<>>]
    BY <1>2 DEF Closed, Done, Ended, Without
  <2>2. op2 \in Op /\ Shaped(op2) /\ Plan(op, op2) /\ op2.pc = "next"
    BY <1>1, EndedTyped
  <2> HIDE DEF op2
  <2>3. Move(o, op2, op.at, <<>>)
    BY <1>1, <2>1, <2>2 DEF Move
  <2>4. QED
    BY <1>1, <1>2, <2>2, <2>3 DEF ClosedMove
<1>3. CASE op.with # None
  <2>1. Connect(o, op, op.at, op.with)
    BY <1>3 DEF Closed
  <2>2. QED
    BY <1>1, <1>3, <2>1, ConnectMoves DEF ClosedMove
<1>4. QED
  BY <1>2, <1>3

\* The process runs.
StartedMove(o, op2, s, list) ==
    /\ ops[o].pc = "starting" /\ s = ops[o].at /\ Plan(ops[o], op2)
    /\ op2.pc = "connecting" /\ op2.at = s /\ op2.with = ops[o].with
    /\ list = Append(connections[s], New(ops[o].with, o))

LEMMA StartedMoves ==
    ASSUME Inv, NEW o \in 1..MaxOps, Started(o)
    PROVE  \E op2, s, list : Move(o, op2, s, list) /\ StartedMove(o, op2, s, list)
<1> DEFINE op == ops[o]
           op2 == [op EXCEPT !.pc = "connecting"]
           c == New(op.with, o)
           list == Append(connections[op.at], c)
<1>1. /\ op \in Op /\ Shaped(op) /\ op.at \in Servers /\ op.with \in Entry
      /\ op.pc = "starting" /\ op.pc \notin Listed
  BY Types, OpFields DEF Started, Step, Shaped, Listed
<1>2. /\ op2 \in Op /\ Plan(op, op2) /\ op2.pc = "connecting" /\ op2.at = op.at /\ op2.with = op.with
  BY <1>1 DEF Op, Plan
<1>3. ops' = [ops EXCEPT ![o] = op2] /\ connections' = [connections EXCEPT ![op.at] = list]
  BY Types DEF Started
<1>4. c \in Connection /\ c.by = o
  BY <1>1, NewTyped, BoundAssumption
<1> HIDE DEF op2, c
<1>5. Shaped(op2)
  BY <1>1, <1>2 DEF Shaped, Plan, Listed
<1>6. connections[op.at] \in Seq(Connection)
  BY <1>1, Types
<1>7. /\ list \in Seq(Connection)
      /\ \A i \in DOMAIN list : list[i] = c \/ \E k \in DOMAIN connections[op.at] : list[i] = connections[op.at][k]
  BY <1>4, <1>6
<1>8. \A i \in DOMAIN connections[op.at] : connections[op.at][i].by # 0 => connections[op.at][i].by # o
  BY <1>1 DEF Inv, Owned
<1> HIDE DEF list
<1>9. Move(o, op2, op.at, list)
  <2>1. \A i \in DOMAIN list :
          \/ list[i].by = 0
          \/ list[i].by = o /\ op2.pc \in Listed /\ op2.at = op.at
          \/ list[i].by # o /\ \E k \in DOMAIN connections[op.at] : connections[op.at][k].by = list[i].by
    BY <1>2, <1>4, <1>7, <1>8 DEF Listed
  <2>2. QED
    BY <1>1, <1>2, <1>3, <1>5, <1>7, <2>1 DEF Move
<1>10. QED
  BY <1>1, <1>2, <1>9 DEF StartedMove, list, c

\* The server has answered; its tools are fetched.
FetchMove(o, op2, s, list) ==
    /\ ops[o].pc \in Listed /\ s = ops[o].at /\ Plan(ops[o], op2)
    /\ op2.pc \in Listed /\ op2.at = s /\ op2.with = ops[o].with
    /\ op2.pc = "fetched" /\ op2.allow = "yes" => ~broken /\ file[s] \in Entry /\ file[s].allow
    /\ list = connections[s]

LEMMA FetchMoves ==
    ASSUME Inv, NEW o \in 1..MaxOps, Connected(o) \/ Fetch(o)
    PROVE  \E op2, s, list : Move(o, op2, s, list) /\ FetchMove(o, op2, s, list)
<1>1. ops[o] \in Op /\ Shaped(ops[o]) /\ ops[o].at \in Servers /\ UNCHANGED connections
      /\ ops[o].pc \in Listed
  BY Types, OpFields DEF Connected, Fetch, Step, Listed
<1>2. ASSUME NEW op2 \in Op, Plan(ops[o], op2), op2.pc \in Listed, op2.at = ops[o].at,
             op2.with = ops[o].with, ops' = [ops EXCEPT ![o] = op2]
      PROVE  Move(o, op2, ops[o].at, connections[ops[o].at])
  <2>1. Shaped(op2)
    BY <1>1, <1>2 DEF Shaped, Plan, Listed
  <2>2. QED
    BY <1>1, <1>2, <2>1, QuietMoves
<1>3. CASE Connected(o)
  <2> DEFINE op2 == [ops[o] EXCEPT !.pc = "fetching"]
  <2>1. /\ op2 \in Op /\ Plan(ops[o], op2) /\ op2.pc = "fetching" /\ op2.at = ops[o].at
        /\ op2.with = ops[o].with /\ ops' = [ops EXCEPT ![o] = op2]
    BY <1>1, <1>3, Types DEF Op, Plan, Connected
  <2> HIDE DEF op2
  <2>2. Move(o, op2, ops[o].at, connections[ops[o].at])
    BY <1>2, <2>1 DEF Listed
  <2>3. QED
    BY <1>1, <2>1, <2>2 DEF FetchMove, Listed
<1>4. CASE Fetch(o)
  <2>1. PICK tools \in BOOLEAN :
          ops' = [ops EXCEPT ![o].pc = "fetched",
                    ![o].allow = IF tools /\ ~broken /\ Known(ops[o].at)
                                   THEN Flag(file[ops[o].at]) ELSE "no"]
    BY <1>4 DEF Fetch
  <2> DEFINE allow == IF tools /\ ~broken /\ Known(ops[o].at) THEN Flag(file[ops[o].at]) ELSE "no"
             op2 == [ops[o] EXCEPT !.pc = "fetched", !.allow = allow]
  <2>2. file[ops[o].at] \in Entry \cup {None}
    BY <1>1, Types DEF Files
  <2>3. /\ allow \in {"yes", "no"}
        /\ allow = "yes" => ~broken /\ file[ops[o].at] \in Entry /\ file[ops[o].at].allow
    BY <2>2, FlagTyped
  <2>4. ops' = [ops EXCEPT ![o] = op2]
    BY <2>1, Types
  <2> HIDE DEF allow
  <2>5. /\ op2 \in Op /\ Plan(ops[o], op2) /\ op2.pc = "fetched" /\ op2.at = ops[o].at
        /\ op2.with = ops[o].with /\ op2.allow = allow
    BY <1>1, <2>3 DEF Op, Plan
  <2> HIDE DEF op2
  <2>6. Move(o, op2, ops[o].at, connections[ops[o].at])
    BY <1>2, <2>4, <2>5 DEF Listed
  <2>7. QED
    BY <1>1, <2>3, <2>5, <2>6 DEF FetchMove, Listed
<1>5. QED
  BY <1>3, <1>4

\* The server is connected, or has failed.
EndMove(o, op2, s, list) ==
    /\ ops[o].pc \in {"starting"} \cup Listed /\ s = ops[o].at
    /\ Plan(ops[o], op2) /\ op2.pc = "next"
    /\ Len(list) = Len(connections[s])
    /\ \A i \in DOMAIN connections[s] :
         LET c == connections[s][i]
         IN  IF c.by = o
               THEN /\ list[i].by = 0
                    /\ list[i].config = c.config /\ list[i].disabled = c.disabled
                    /\ list[i].allow = c.allow \/ (ops[o].pc = "fetched" /\ list[i].allow = ops[o].allow)
               ELSE list[i] = c

LEMMA EndMoves ==
    ASSUME Inv, NEW o \in 1..MaxOps, Fails(o) \/ Fetched(o)
    PROVE  \E op2, s, list : Move(o, op2, s, list) /\ EndMove(o, op2, s, list)
<1> DEFINE op2 == Ended(ops[o])
           s == ops[o].at
           L == connections[s]
<1>1. /\ ops[o] \in Op /\ Shaped(ops[o]) /\ s \in Servers /\ ops[o].pc \in {"starting"} \cup Listed
      /\ ops[o].todo \subseteq Names(ops[o].files) /\ ops[o].allow \in {"yes", "no"}
  BY Types, OpFields DEF Fails, Fetched, Step, Shaped, Listed
<1>2. op2 \in Op /\ Shaped(op2) /\ Plan(ops[o], op2) /\ op2.pc = "next"
  BY <1>1, EndedTyped
<1>3. ops' = [ops EXCEPT ![o] = op2]
  BY DEF Fails, Fetched, Done, Ended
<1>4. L \in Seq(Connection)
  BY <1>1, Types
<1> HIDE DEF op2
<1>5. ASSUME NEW list, DOMAIN list = DOMAIN L, list \in [DOMAIN L -> Connection],
             connections' = [connections EXCEPT ![s] = list],
             \A i \in DOMAIN L :
               IF L[i].by = o
                 THEN /\ list[i].by = 0 /\ list[i].config = L[i].config /\ list[i].disabled = L[i].disabled
                      /\ list[i].allow = L[i].allow \/ (ops[o].pc = "fetched" /\ list[i].allow = ops[o].allow)
                 ELSE list[i] = L[i]
      PROVE  \E l : Move(o, op2, s, l) /\ EndMove(o, op2, s, l)
  <2>1. list \in Seq(Connection) /\ Len(list) = Len(L)
    <3>1. DOMAIN L = 1..Len(L) /\ Len(L) \in Nat
      BY <1>4
    <3>2. QED
      BY <1>5, <3>1
  <2>2. EndMove(o, op2, s, list)
    BY <1>1, <1>2, <1>5, <2>1 DEF EndMove
  <2>3. Move(o, op2, s, list)
    BY <1>1, <1>2, <1>3, <1>5, <2>1 DEF Move
  <2>4. QED
    BY <2>2, <2>3
<1>6. \A i \in DOMAIN L : L[i] \in Connection
  BY <1>4
<1>7. CASE Fails(o)
  <2> DEFINE list == [i \in DOMAIN L |->
                        IF L[i].by = o THEN [L[i] EXCEPT !.by = 0, !.closed = TRUE] ELSE L[i]]
  <2>1. connections' = [connections EXCEPT ![s] = list]
    BY <1>7 DEF Fails, Changed
  <2>2. \A i \in DOMAIN L :
          /\ list[i] \in Connection
          /\ IF L[i].by = o
               THEN /\ list[i].by = 0 /\ list[i].config = L[i].config
                    /\ list[i].disabled = L[i].disabled /\ list[i].allow = L[i].allow
               ELSE list[i] = L[i]
    <3>1. SUFFICES ASSUME NEW c \in Connection
                   PROVE  LET d == [c EXCEPT !.by = 0, !.closed = TRUE]
                          IN  /\ d \in Connection /\ d.by = 0 /\ d.config = c.config
                              /\ d.disabled = c.disabled /\ d.allow = c.allow
      BY <1>6
    <3>2. 0 \in 0..MaxOps
      BY BoundAssumption
    <3>3. QED
      BY <3>2 DEF Connection
  <2>3. DOMAIN list = DOMAIN L /\ list \in [DOMAIN L -> Connection]
    BY <2>2
  <2> HIDE DEF list
  <2>4. QED
    BY <1>5, <2>1, <2>2, <2>3
<1>8. CASE Fetched(o)
  <2> DEFINE list == [i \in DOMAIN L |->
                        IF L[i].by = o THEN [L[i] EXCEPT !.by = 0, !.allow = ops[o].allow] ELSE L[i]]
  <2>1. connections' = [connections EXCEPT ![s] = list] /\ ops[o].pc = "fetched"
    BY <1>8 DEF Fetched, Step, Changed
  <2>2. \A i \in DOMAIN L :
          /\ list[i] \in Connection
          /\ IF L[i].by = o
               THEN /\ list[i].by = 0 /\ list[i].config = L[i].config
                    /\ list[i].disabled = L[i].disabled /\ list[i].allow = ops[o].allow
               ELSE list[i] = L[i]
    <3>1. SUFFICES ASSUME NEW c \in Connection
                   PROVE  LET d == [c EXCEPT !.by = 0, !.allow = ops[o].allow]
                          IN  /\ d \in Connection /\ d.by = 0 /\ d.config = c.config
                              /\ d.disabled = c.disabled /\ d.allow = ops[o].allow
      BY <1>6
    <3>2. 0 \in 0..MaxOps
      BY BoundAssumption
    <3>3. QED
      BY <1>1, <3>2 DEF Connection
  <2>3. DOMAIN list = DOMAIN L /\ list \in [DOMAIN L -> Connection]
    BY <2>2
  <2> HIDE DEF list
  <2>4. QED
    BY <1>5, <2>1, <2>2, <2>3
<1>9. QED
  BY <1>7, <1>8

\* An update or a restart comes to its end.
FinishMove(o, op2, s, list) ==
    /\ ops[o].pc = "next" /\ ops[o].gone = {} /\ ops[o].todo = {}
    /\ op2 = Idle /\ s = ops[o].at /\ list = connections[s]

LEMMA FinishMoves ==
    ASSUME Inv, NEW o \in 1..MaxOps, Finish(o)
    PROVE  /\ isConnecting' \in BOOLEAN
           /\ \E op2, s, list : Move(o, op2, s, list) /\ FinishMove(o, op2, s, list)
<1>1. /\ ops[o].pc = "next" /\ ops[o].gone = {} /\ ops[o].todo = {} /\ ops[o].pc \notin Listed
      /\ ops' = [ops EXCEPT ![o] = Idle] /\ UNCHANGED connections /\ isConnecting' \in BOOLEAN
  BY DEF Finish, Step, Listed
<1>2. Move(o, Idle, ops[o].at, connections[ops[o].at])
  BY <1>1, IdleTyped, QuietMoves
<1>3. QED
  BY <1>1, <1>2 DEF FinishMove

\* A step of an operation, but for one that writes the settings.
Moved(o, op2, s, list) ==
    \/ RemoveMove(o, op2, s, list) \/ LookMove(o, op2, s, list) \/ WaitedMove(o, op2, s, list)
    \/ ClosedMove(o, op2, s, list) \/ StartedMove(o, op2, s, list) \/ FetchMove(o, op2, s, list)
    \/ EndMove(o, op2, s, list) \/ FinishMove(o, op2, s, list)

LEMMA OpStepMoves ==
    ASSUME Inv, NEW o \in 1..MaxOps, OpStep(o), ~Write(o)
    PROVE  /\ UNCHANGED <<settings, calls>> /\ isConnecting' \in BOOLEAN
           /\ \E op2, s, list : Move(o, op2, s, list) /\ Moved(o, op2, s, list)
<1>1. UNCHANGED <<settings, calls>>
  BY DEF OpStep, Remove, Look, Waited, Closed, Started, Connected, Fails, Fetch, Fetched, Finish, Step
<1>2. isConnecting \in BOOLEAN
  BY OthersTyped
<1>3. Remove(o) \/ Look(o) \/ Waited(o) \/ Closed(o) \/ Started(o) => UNCHANGED isConnecting
  BY DEF Remove, Look, Waited, Closed, Started
<1>4. Connected(o) \/ Fails(o) \/ Fetch(o) \/ Fetched(o) => UNCHANGED isConnecting
  BY DEF Connected, Fails, Fetch, Fetched
<1>5. isConnecting' \in BOOLEAN
  BY <1>2, <1>3, <1>4, FinishMoves DEF OpStep
<1>6. Remove(o) \/ Look(o) \/ Waited(o) \/ Closed(o)
        => \E op2, s, list : Move(o, op2, s, list) /\ Moved(o, op2, s, list)
  BY RemoveMoves, LookMoves, WaitedMoves, ClosedMoves DEF Moved
<1>7. Started(o) \/ Connected(o) \/ Fetch(o)
        => \E op2, s, list : Move(o, op2, s, list) /\ Moved(o, op2, s, list)
  BY StartedMoves, FetchMoves DEF Moved
<1>8. Fails(o) \/ Fetched(o) \/ Finish(o)
        => \E op2, s, list : Move(o, op2, s, list) /\ Moved(o, op2, s, list)
  BY EndMoves, FinishMoves DEF Moved
<1>9. QED
  BY <1>1, <1>5, <1>6, <1>7, <1>8 DEF OpStep

LEMMA OpStepKeepsInv ==
    ASSUME Inv, NEW o \in 1..MaxOps, OpStep(o), UNCHANGED stdio
    PROVE  Inv'
<1>1. CASE Write(o)
  <2>1. OthersStay
    BY <1>1, WriteMoves, OthersTyped DEF OthersStay
  <2>2. QED
    BY <1>1, <2>1, WriteMoves, MoveKeepsInv
<1>2. CASE ~Write(o)
  <2>1. UNCHANGED <<settings, calls>> /\ isConnecting' \in BOOLEAN
    BY <1>2, OpStepMoves
  <2>2. OthersStay
    BY <2>1, OthersTyped, Types DEF OthersStay, settings
  <2>3. QED
    BY <1>2, <2>2, OpStepMoves, MoveKeepsInv
<1>3. QED
  BY <1>1, <1>2

LEMMA NextCases ==
    ASSUME Inv, Next
    PROVE  /\ UNCHANGED stdio
           /\ Watch \/ Edit \/ Restart \/ Calls \/ \E o \in 1..MaxOps : OpStep(o)
<1>1. UNCHANGED stdio
  BY DEF Next
<1>2. \/ Watch \/ Edit \/ Restart
      \/ ToggleServerDisabled \/ ToggleToolAutoApprove \/ UpdateServerTimeout
      \/ DeleteServer \/ AddRemoteServer
      \/ \E o \in DOMAIN ops : OpStep(o)
  BY DEF Next
<1>3. DOMAIN ops = 1..MaxOps
  BY Types
<1>4. QED
  BY <1>1, <1>2, <1>3 DEF Calls

LEMMA NextKeepsInv ==
    ASSUME Inv, [Next]_vars
    PROVE  Inv'
<1>1. CASE UNCHANGED vars
  BY <1>1, StayKeepsInv, OthersTyped, Types DEF vars, settings, OthersStay
<1>2. CASE Next
  BY <1>2, NextCases, WatchKeepsInv, EditKeepsInv, RestartKeepsInv, CallsKeepInv, OpStepKeepsInv
<1>3. QED
  BY <1>1, <1>2

\* At any time the list holds connections of servers under their names, and one
\* that is being made belongs to the operation that makes it.
THEOREM HubInvariant == Spec => []Inv
<1>1. Init => Inv
  BY InitInv
<1>2. Inv /\ [Next]_vars => Inv'
  BY NextKeepsInv
<1>3. QED
  BY <1>1, <1>2, PTL DEF Spec

\* The values of McpHub's variables, however the operations interleave.
THEOREM HubTypeCorrect == Spec => []TypeOK
<1>1. Inv => TypeOK
  BY DEF Inv
<1>2. QED
  BY <1>1, HubInvariant, PTL

-----------------------------------------------------------------------------
(* As long as operations do not meet. *)

\* What is busy by itself is what can be counted as at most one.
LEMMA AtMostOne ==
    ASSUME NEW S, IsFiniteSet(S), Cardinality(S) <= 1, NEW x \in S, NEW y \in S
    PROVE  x = y
<1> SUFFICES ASSUME x # y PROVE FALSE
  OBVIOUS
<1>1. IsFiniteSet({x}) /\ Cardinality({x}) = 1
  BY FS_Singleton
<1>2. IsFiniteSet({x} \cup {y}) /\ Cardinality({x} \cup {y}) = Cardinality({x}) + 1
  BY <1>1, FS_AddElement
<1>3. Cardinality({x} \cup {y}) <= Cardinality(S) /\ Cardinality(S) \in Nat
  BY <1>2, FS_Subset, FS_CardinalityType
<1>4. QED
  BY <1>1, <1>2, <1>3

LEMMA NotMetAlone ==
    ASSUME Inv', ~Meet
    PROVE  Alone'
<1>1. DOMAIN ops' = 1..MaxOps
  BY DEF Inv, TypeOK
<1>2. IsFiniteSet(1..MaxOps)
  BY BoundAssumption, FS_Interval
<1>3. Busy(ops') \subseteq 1..MaxOps /\ \A o \in 1..MaxOps : ops'[o].pc # "none" => o \in Busy(ops')
  BY <1>1 DEF Busy
<1>4. IsFiniteSet(Busy(ops')) /\ Cardinality(Busy(ops')) \in Nat
  BY <1>2, <1>3, FS_Subset, FS_CardinalityType
<1>5. \A o, p \in Busy(ops') : o = p
  BY <1>4, AtMostOne DEF Meet
<1>6. QED
  BY <1>3, <1>5 DEF Alone

\* What a step makes of the list of a server, and where the operation stands.
Kept(s, list) ==
    \A i \in DOMAIN connections[s] :
      ~connections[s][i].closed => \E k \in DOMAIN list : list[k].by \in {0, connections[s][i].by}

Held(o, op2, s, list) ==
    /\ Len(list) <= 1 /\ Kept(s, list)
    /\ op2.pc \in {"closing", "starting"} \cup Listed => op2.at = s
    /\ op2.pc = "closing" /\ list # <<>> => list[1].closed
    /\ op2.pc = "starting" => list = <<>>
    /\ op2.pc \in Listed => list # <<>> /\ list[1].by = o

\* A list of at most one connection.
LEMMA ListsOfOne ==
    ASSUME NEW list \in Seq(Connection), Len(list) <= 1
    PROVE  \A i \in DOMAIN list : i = 1
  OBVIOUS

LEMMA SameHeld ==
    ASSUME Inv, NEW o, NEW op2, NEW s \in Servers, NEW list, Same(s, list), Len(connections[s]) <= 1,
           op2.pc \in {"none", "next"}
    PROVE  Held(o, op2, s, list)
<1>1. connections[s] \in Seq(Connection) /\ DOMAIN list = DOMAIN connections[s]
  BY Types DEF Same
<1>2. Kept(s, list)
  BY <1>1 DEF Kept, Same
<1>3. QED
  BY <1>2 DEF Held, Same, Listed

LEMMA ConnectsHeld ==
    ASSUME NEW o \in 1..MaxOps, NEW op2, NEW s \in Servers, NEW e \in Entry, NEW list,
           Connects(o, op2, s, e, list), Kept(s, list)
    PROVE  Held(o, op2, s, list)
<1>1. New(e, 0).by = 0 /\ New(e, o).by = o
  BY DEF New
<1>2. CASE list = <<New(e, 0)>> /\ op2.pc = "next"
  BY <1>2 DEF Held, Listed
<1>3. CASE list = <<>> /\ op2.pc \in {"next", "starting"} /\ (op2.pc = "starting" => op2.at = s)
  BY <1>3 DEF Held, Listed
<1>4. CASE list = <<New(e, o)>> /\ op2.pc = "connecting" /\ op2.at = s
  BY <1>1, <1>4 DEF Held, Listed
<1>5. QED
  BY <1>2, <1>3, <1>4 DEF Connects

LEMMA MovedHeld ==
    ASSUME Inv, NEW o \in 1..MaxOps, NEW op2, NEW s \in Servers, NEW list \in Seq(Connection),
           Moved(o, op2, s, list), \A t \in Servers : Len(connections[t]) <= 1, Tracked(o)
    PROVE  Held(o, op2, s, list)
<1>1. connections[s] \in Seq(Connection) /\ Len(connections[s]) <= 1
  BY Types
<1>2. ~Known(s) => Kept(s, list)
  BY DEF Known, Kept
<1>3. ASSUME NEW e, Closes(op2, s, e, list) PROVE Held(o, op2, s, list)
  <2>1. DOMAIN list = DOMAIN connections[s]
    BY <1>1, <1>3 DEF Closes
  <2>2. Kept(s, list)
    BY <1>3, <2>1 DEF Kept, Closes
  <2>3. QED
    BY <1>1, <1>3, <2>2 DEF Held, Closes, Listed
<1>4. CASE op2.pc \in {"none", "next"} /\ list = connections[s]
  <2>1. Same(s, list)
    BY <1>1, <1>4 DEF Same
  <2>2. QED
    BY <1>1, <1>4, <2>1, SameHeld
<1>5. CASE ~Known(s) /\ op2.pc = "next" /\ list = <<>>
  BY <1>2, <1>5 DEF Held, Listed
<1>6. CASE RemoveMove(o, op2, s, list)
  BY <1>3, <1>5, <1>6 DEF RemoveMove
<1>7. CASE LookMove(o, op2, s, list)
  BY <1>2, <1>3, <1>4, <1>7, ConnectsHeld DEF LookMove
<1>8. CASE WaitedMove(o, op2, s, list)
  <2>1. ops[o].with \in Entry
    BY <1>8, Types DEF WaitedMove, Shaped
  <2>2. QED
    BY <1>2, <1>3, <1>8, <2>1, ConnectsHeld DEF WaitedMove
<1>9. CASE ClosedMove(o, op2, s, list)
  <2>1. Kept(s, list)
    <3>1. Known(s) => connections[s][1].closed
      BY <1>9 DEF ClosedMove, Tracked, Find
    <3>2. QED
      BY <1>1, <1>2, <3>1, ListsOfOne DEF Kept
  <2>2. CASE op2.pc = "next" /\ list = <<>>
    BY <2>1, <2>2 DEF Held, Listed
  <2>3. QED
    BY <1>9, <2>1, <2>2, ConnectsHeld DEF ClosedMove
<1>10. CASE StartedMove(o, op2, s, list)
  <2>1. connections[s] = <<>> /\ Kept(s, list)
    BY <1>2, <1>10 DEF StartedMove, Tracked, Known
  <2>2. list = <<New(ops[o].with, o)>>
    BY <1>10, <2>1 DEF StartedMove
  <2>3. New(ops[o].with, o).by = o
    BY DEF New
  <2>4. QED
    BY <1>10, <2>1, <2>2, <2>3 DEF StartedMove, Held, Listed
<1>11. CASE FetchMove(o, op2, s, list)
  <2>1. Known(s) /\ connections[s][1].by = o
    BY <1>11 DEF FetchMove, Tracked, Find
  <2>2. Kept(s, list)
    BY <1>11 DEF FetchMove, Kept
  <2>3. QED
    BY <1>1, <1>11, <2>1, <2>2 DEF FetchMove, Held, Listed, Known
<1>12. CASE EndMove(o, op2, s, list)
  <2>1. DOMAIN list = DOMAIN connections[s]
    BY <1>1, <1>12 DEF EndMove
  <2>2. Kept(s, list)
    BY <1>12, <2>1 DEF EndMove, Kept
  <2>3. QED
    BY <1>1, <1>12, <2>2 DEF EndMove, Held, Listed
<1>13. CASE FinishMove(o, op2, s, list)
  <2>1. Idle.pc = "none"
    BY DEF Idle
  <2>2. QED
    BY <1>4, <1>13, <2>1 DEF FinishMove
<1>14. QED
  BY <1>6, <1>7, <1>8, <1>9, <1>10, <1>11, <1>12, <1>13 DEF Moved

\* What NothingForgotten says of a step.
NothingIsForgotten ==
    \A s \in Servers : \A i \in DOMAIN connections[s] :
      ~connections[s][i].closed =>
        \E k \in DOMAIN connections'[s] : connections'[s][k].by \in {0, connections[s][i].by}

LEMMA HeldKeepsSingle ==
    ASSUME Inv, Single, Alone, NEW o \in 1..MaxOps, NEW op2, NEW s, NEW list,
           Move(o, op2, s, list), Held(o, op2, s, list), ops[o].pc # "none"
    PROVE  Single' /\ NothingIsForgotten
<1>1. /\ s \in Servers /\ connections'[s] = list
      /\ \A t \in Servers \ {s} : connections'[t] = connections[t]
  BY Types DEF Move
<1>2. \A t \in Servers : Len(connections'[t]) <= 1
  BY <1>1 DEF Single, Held
<1>3. ops'[o] = op2 /\ \A p \in 1..MaxOps \ {o} : ops'[p] = ops[p] /\ ops[p].pc = "none"
  BY Types DEF Move, Alone
<1>4. Tracked(o)'
  BY <1>1, <1>3 DEF Tracked, Held, Known, Find, Listed
<1>5. \A p \in 1..MaxOps \ {o} : Tracked(p)'
  BY <1>3 DEF Tracked, Listed
<1>6. NothingIsForgotten
  BY <1>1 DEF NothingIsForgotten, Held, Kept
<1>7. QED
  BY <1>2, <1>4, <1>5, <1>6 DEF Single

\* An operation that begins has done nothing yet.
LEMMA QuietKeepsSingle ==
    ASSUME Inv, Single, UNCHANGED connections,
           \A o \in 1..MaxOps : ops'[o] = ops[o] \/ ops'[o].pc \in {"next", "writing", "waiting"}
    PROVE  Single' /\ NothingIsForgotten
<1>1. \A o \in 1..MaxOps : Tracked(o)'
  BY DEF Single, Tracked, Known, Find, Listed
<1>2. QED
  BY <1>1 DEF Single, NothingIsForgotten

LEMMA BeginsQuietly ==
    ASSUME Inv, NEW op, Begin(op), op.pc \in {"next", "writing", "waiting"}
    PROVE  \A o \in 1..MaxOps : ops'[o] = ops[o] \/ ops'[o].pc \in {"next", "writing", "waiting"}
<1>1. PICK o \in 1..MaxOps : ops' = [ops EXCEPT ![o] = op]
  BY Types DEF Begin
<1>2. QED
  BY <1>1, Types

LEMMA UserStepsQuiet ==
    ASSUME Inv, Watch \/ Edit \/ Restart \/ Calls
    PROVE  /\ UNCHANGED connections
           /\ \A o \in 1..MaxOps : ops'[o] = ops[o] \/ ops'[o].pc \in {"next", "writing", "waiting"}
<1>1. CASE Watch
  <2>1. Update("update", ParsedFile(file), TRUE, TRUE).pc = "next"
    BY DEF Update, Idle
  <2>2. UNCHANGED ops \/ Begin(Update("update", ParsedFile(file), TRUE, TRUE))
    BY <1>1 DEF Watch
  <2>3. UNCHANGED connections
    BY <1>1 DEF Watch
  <2>4. QED
    BY <2>1, <2>2, <2>3, BeginsQuietly
<1>2. CASE Edit
  BY <1>2 DEF Edit
<1>3. CASE Restart
  BY <1>3, RestartBegins, WaitingTyped, BeginsQuietly
<1>4. CASE Calls
  BY <1>4, CallsRead, BeginsQuietly
<1>5. QED
  BY <1>1, <1>2, <1>3, <1>4

LEMMA SingleStep ==
    ASSUME Inv, Single, Alone, [Next]_vars
    PROVE  Single' /\ NothingIsForgotten
<1>1. CASE UNCHANGED vars
  BY <1>1, QuietKeepsSingle DEF vars
<1>2. CASE Watch \/ Edit \/ Restart \/ Calls
  BY <1>2, UserStepsQuiet, QuietKeepsSingle
<1>3. ASSUME NEW o \in 1..MaxOps, Write(o)
      PROVE  Single' /\ NothingIsForgotten
  <2>1. ops[o].pc # "none"
    BY <1>3 DEF Write
  <2>2. PICK op2, list : Move(o, op2, ops[o].at, list) /\ Same(ops[o].at, list) /\ op2.pc \in {"none", "next"}
    BY <1>3, WriteMoves
  <2>3. Held(o, op2, ops[o].at, list)
    BY <2>2, SameHeld DEF Single, Move
  <2>4. QED
    BY <2>1, <2>2, <2>3, HeldKeepsSingle
<1>4. ASSUME NEW o \in 1..MaxOps, OpStep(o), ~Write(o)
      PROVE  Single' /\ NothingIsForgotten
  <2>1. PICK op2, s, list : Move(o, op2, s, list) /\ Moved(o, op2, s, list)
    BY <1>4, OpStepMoves
  <2>2. ops[o].pc # "none"
    BY <1>4 DEF OpStep, Remove, Look, Waited, Closed, Started, Connected, Fails, Fetch, Fetched, Finish, Step
  <2>3. Held(o, op2, s, list)
    BY <2>1, MovedHeld DEF Single, Move
  <2>4. QED
    BY <2>1, <2>2, <2>3, HeldKeepsSingle
<1>5. QED
  BY <1>1, <1>2, <1>3, <1>4, NextCases

\* The history variables tell what they are meant to.
LEMMA ApartStep ==
    ASSUME Inv, Apart, [MCNext]_<<vars, met, settled>>
    PROVE  Apart' /\ (~met' => NothingIsForgotten)
<1>1. Inv' /\ [Next]_vars
  BY NextKeepsInv DEF MCNext, vars
<1>2. SUFFICES ASSUME ~met' PROVE Apart' /\ NothingIsForgotten
  BY DEF Apart
<1>3. ~met
  BY <1>2 DEF MCNext
<1>4. Single' /\ NothingIsForgotten
  BY <1>1, <1>3, SingleStep DEF Apart, Single
<1>5. Alone'
  <2>1. CASE UNCHANGED vars
    BY <1>3, <2>1 DEF Apart, Alone, vars
  <2>2. CASE MCNext
    BY <1>1, <1>2, <2>2, NotMetAlone DEF MCNext
  <2>3. QED
    BY <2>1, <2>2
<1>6. QED
  BY <1>4, <1>5 DEF Apart, Single

LEMMA MCInitHolds == MCInit => Inv /\ Apart
<1> SUFFICES ASSUME MCInit PROVE Inv /\ Apart
  OBVIOUS
<1>1. Inv
  BY InitInv DEF MCInit
<1>2. \A o \in 1..MaxOps : ops[o].pc = "none"
  BY DEF MCInit, Init, Idle
<1>3. \A s \in Servers : Len(connections[s]) <= 1
  BY DEF MCInit, Init
<1>4. QED
  BY <1>1, <1>2, <1>3 DEF Apart, Single, Alone, Tracked, Listed

\* A transport that is open leaves the list only after it was closed, as long as
\* no two operations are under way at a time: deleteConnection closes what
\* connectToServer then drops.
THEOREM NothingForgottenHolds == MCSpec => NothingForgotten
<1>1. MCInit => Inv /\ Apart
  BY MCInitHolds
<1>2. Inv /\ Apart /\ [MCNext]_<<vars, met, settled>> => (Inv /\ Apart)'
  BY ApartStep, NextKeepsInv DEF MCNext, vars
<1>3. Inv /\ Apart /\ [MCNext]_<<vars, met, settled>>
        => [\A s \in Servers : \A i \in DOMAIN connections[s] :
              ~met' /\ ~connections[s][i].closed =>
                \E k \in DOMAIN connections'[s] :
                  connections'[s][k].by \in {0, connections[s][i].by}]_vars
  BY ApartStep DEF NothingIsForgotten
<1>4. QED
  BY <1>1, <1>2, <1>3, PTL DEF MCSpec, NothingForgotten

-----------------------------------------------------------------------------
(* A change of the settings is carried out. *)

LEMMA ParsedIsNone ==
    ASSUME NEW e \in Entry \cup {None}
    PROVE  /\ Parsed(e) = None <=> e = None
           /\ e # None => e \in Entry /\ Parsed(e) \in Entry /\ ~Parsed(e).bare
                          /\ Parsed(e).disabled = e.disabled /\ Parsed(e).allow = e.allow
  BY ParsedTyped, ParsedNone, NoneIsNoEntry

LEMMA FileTyped ==
    ASSUME Inv, NEW s \in Servers
    PROVE  file[s] \in Entry \cup {None}
  BY Types DEF Files

\* What an operation has read stays what it is; it is at one server.
Onward(o, op2, s) ==
    /\ op2.files = ops[o].files /\ op2.parsed = ops[o].parsed
    /\ op2.gone \in {ops[o].gone, ops[o].gone \ {s}}
    /\ op2.todo \in {ops[o].todo, ops[o].todo \ {s}}
    /\ ops[o].pc = "next" \/ s = ops[o].at

\* Where an operation stands with the server it is at, and with the others.
Reached(o, op2, s, list) ==
    /\ Informed(op2) /\ Halfway(o, op2, list)
    /\ op2.pc \in {"closing", "starting"} \cup Listed => op2.at = s
    /\ Ahead(op2, s) \/ Right(s, list)
    /\ \A t \in Servers \ {s} : Ahead(ops[o], t) => Ahead(op2, t)

LEMMA OnwardReaches ==
    ASSUME NEW o, Informed(ops[o]), NEW op2, NEW s, NEW list, Onward(o, op2, s),
           op2.pc \in {"closing", "starting"} \cup Listed
             => op2.at = s /\ op2.with = Parsed(file[s]),
           op2.pc # "waiting",
           op2.pc = "fetched" /\ op2.allow = "yes" => file[s].allow,
           Halfway(o, op2, list),
           op2.pc \in {"closing", "starting"} \cup Listed \/ Right(s, list)
    PROVE  Reached(o, op2, s, list)
<1>1. Informed(op2)
  BY DEF Informed, Onward, Listed
<1>2. \A t \in Servers \ {s} : Ahead(ops[o], t) => Ahead(op2, t)
  BY DEF Onward, Ahead, Listed
<1>3. Ahead(op2, s) \/ Right(s, list)
  BY DEF Ahead
<1>4. QED
  BY <1>1, <1>2, <1>3 DEF Reached

LEMMA ClosesReaches ==
    ASSUME NEW o, Informed(ops[o]), NEW op2, NEW s, NEW list, Onward(o, op2, s),
           Closes(op2, s, Parsed(file[s]), list)
    PROVE  Reached(o, op2, s, list)
<1>1. op2.pc = "closing" /\ op2.at = s /\ op2.with = Parsed(file[s])
  BY DEF Closes
<1>2. Halfway(o, op2, list)
  BY <1>1 DEF Halfway, Listed
<1>3. QED
  BY <1>1, <1>2, OnwardReaches

\* A server that is dealt with as the settings say.
LEMMA NewIsRight ==
    ASSUME Inv, NEW s \in Servers, NEW e \in Entry, e = Parsed(file[s])
    PROVE  Right(s, <<New(e, 0)>>)
<1>1. file[s] \in Entry /\ file[s] # None /\ e.disabled = file[s].disabled
  BY FileTyped, ParsedIsNone, NoneIsNoEntry
<1>2. New(e, 0).by = 0 /\ New(e, 0).config = e /\ New(e, 0).disabled = e.disabled
      /\ New(e, 0).allow = "unknown"
  BY DEF New
<1>3. Len(<<New(e, 0)>>) = 1 /\ <<New(e, 0)>>[1] = New(e, 0) /\ <<New(e, 0)>> # <<>>
  OBVIOUS
<1>4. QED
  BY <1>1, <1>2, <1>3 DEF Right

LEMMA ConnectsReaches ==
    ASSUME Inv, NEW o \in 1..MaxOps, Informed(ops[o]), NEW op2, NEW s \in Servers, NEW list,
           Onward(o, op2, s), NEW e \in Entry, e = Parsed(file[s]), Connects(o, op2, s, e, list)
    PROVE  Reached(o, op2, s, list)
<1>1. ~e.bare
  BY FileTyped, ParsedIsNone, NoneIsNoEntry
<1>2. CASE op2.pc = "next" /\ list = <<New(e, 0)>>
  <2>1. Halfway(o, op2, list)
    BY <1>2 DEF Halfway, Listed
  <2>2. QED
    BY <1>2, <2>1, NewIsRight, OnwardReaches DEF Listed
<1>3. CASE op2.pc = "starting" /\ op2.at = s /\ op2.with = e /\ list = <<>> /\ ~e.disabled /\ s \in stdio
  <2>1. Halfway(o, op2, list)
    BY <1>3 DEF Halfway, Listed
  <2>2. QED
    BY <1>3, <2>1, OnwardReaches
<1>4. CASE op2.pc = "connecting" /\ op2.at = s /\ op2.with = e /\ list = <<New(e, o)>> /\ ~e.disabled
  <2>1. /\ New(e, o).by = o /\ New(e, o).config = e /\ New(e, o).disabled = e.disabled
        /\ New(e, o).allow = "unknown"
    BY DEF New
  <2>2. Len(list) = 1 /\ list[1] = New(e, o)
    BY <1>4
  <2>3. Halfway(o, op2, list)
    BY <1>4, <2>1, <2>2 DEF Halfway
  <2>4. QED
    BY <1>4, <2>3, OnwardReaches DEF Listed
<1>5. QED
  BY <1>1, <1>2, <1>3, <1>4 DEF Connects

LEMMA NoneIsRight ==
    ASSUME NEW s, file[s] = None
    PROVE  Right(s, <<>>)
  BY DEF Right

\* Nothing is ahead of an operation that is not under way.
LEMMA IdleIsNotAhead ==
    ASSUME Inv, NEW o \in 1..MaxOps, ops[o].pc = "none"
    PROVE  \A s \in Servers : ~Ahead(ops[o], s)
<1>1. ops[o].gone = {} /\ ops[o].todo = {}
  BY Types DEF Shaped
<1>2. QED
  BY <1>1 DEF Ahead, Listed

LEMMA RemoveReaches ==
    ASSUME Inv, NEW o \in 1..MaxOps, Informed(ops[o]), NEW op2, NEW s \in Servers, NEW list,
           RemoveMove(o, op2, s, list)
    PROVE  Reached(o, op2, s, list)
<1>1. Onward(o, op2, s) /\ file[s] = None
  BY DEF RemoveMove, Onward, Informed
<1>2. CASE Closes(op2, s, None, list)
  BY <1>1, <1>2, ParsedNone, ClosesReaches
<1>3. CASE op2.pc = "next" /\ list = <<>>
  <2>1. Halfway(o, op2, list)
    BY <1>3 DEF Halfway, Listed
  <2>2. QED
    BY <1>1, <1>3, <2>1, NoneIsRight, OnwardReaches DEF Listed
<1>4. QED
  BY <1>2, <1>3 DEF RemoveMove

LEMMA LookReaches ==
    ASSUME Inv, NEW o \in 1..MaxOps, Informed(ops[o]), NEW op2, NEW s \in Servers, NEW list,
           LookMove(o, op2, s, list)
    PROVE  Reached(o, op2, s, list)
<1> DEFINE e == ops[o].files[s]
<1>1. Onward(o, op2, s) /\ op2.parsed /\ e = Parsed(file[s]) /\ e \in Entry
  BY DEF LookMove, Onward, Informed
<1>2. Connects(o, op2, s, e, list) \/ Closes(op2, s, e, list)
  BY <1>1 DEF LookMove
<1> HIDE DEF e
<1>3. QED
  BY <1>1, <1>2, ClosesReaches, ConnectsReaches

LEMMA WaitedReaches ==
    ASSUME Inv, NEW o \in 1..MaxOps, Informed(ops[o]), NEW op2, NEW s \in Servers, NEW list,
           WaitedMove(o, op2, s, list)
    PROVE  Reached(o, op2, s, list)
<1>1. Onward(o, op2, s) /\ ops[o].with = Parsed(file[s])
  BY DEF WaitedMove, Onward, Plan, Informed
<1>2. ops[o].with \in Entry
  BY Types DEF WaitedMove, Shaped
<1>3. QED
  BY <1>1, <1>2, ClosesReaches, ConnectsReaches DEF WaitedMove

LEMMA ClosedReaches ==
    ASSUME Inv, NEW o \in 1..MaxOps, Informed(ops[o]), NEW op2, NEW s \in Servers, NEW list,
           ClosedMove(o, op2, s, list)
    PROVE  Reached(o, op2, s, list)
<1>1. Onward(o, op2, s) /\ ops[o].with = Parsed(file[s])
  BY DEF ClosedMove, Onward, Plan, Informed
<1>2. CASE ops[o].with = None /\ op2.pc = "next" /\ list = <<>>
  <2>1. file[s] = None
    BY <1>1, <1>2, FileTyped, ParsedIsNone
  <2>2. Halfway(o, op2, list)
    BY <1>2 DEF Halfway, Listed
  <2>3. QED
    BY <1>1, <1>2, <2>1, <2>2, NoneIsRight, OnwardReaches DEF Listed
<1>3. QED
  BY <1>1, <1>2, ConnectsReaches DEF ClosedMove

LEMMA StartedReaches ==
    ASSUME Inv, NEW o \in 1..MaxOps, Informed(ops[o]), NEW op2, NEW s \in Servers, NEW list,
           StartedMove(o, op2, s, list), Halfway(o, ops[o], connections[s])
    PROVE  Reached(o, op2, s, list)
<1> DEFINE e == ops[o].with
<1>1. Onward(o, op2, s) /\ e = Parsed(file[s])
  BY DEF StartedMove, Onward, Plan, Informed
<1>2. e \in Entry /\ ~e.disabled /\ list = <<New(e, o)>>
  <2>1. connections[s] = <<>> /\ ~e.disabled
    BY DEF StartedMove, Halfway
  <2>2. list = Append(connections[s], New(e, o)) /\ e \in Entry
    BY Types DEF StartedMove, Shaped
  <2>3. QED
    BY <2>1, <2>2
<1>3. Connects(o, op2, s, e, list)
  BY <1>2 DEF StartedMove, Connects
<1> HIDE DEF e
<1>4. QED
  BY <1>1, <1>2, <1>3, ConnectsReaches

LEMMA FetchReaches ==
    ASSUME Inv, NEW o \in 1..MaxOps, Informed(ops[o]), NEW op2, NEW s \in Servers, NEW list,
           FetchMove(o, op2, s, list), Halfway(o, ops[o], connections[s])
    PROVE  Reached(o, op2, s, list)
<1>1. Onward(o, op2, s) /\ op2.with = Parsed(file[s])
  BY DEF FetchMove, Onward, Plan, Informed
<1>2. Halfway(o, op2, list)
  BY DEF FetchMove, Halfway, Listed
<1>3. QED
  BY <1>1, <1>2, OnwardReaches DEF FetchMove, Listed

LEMMA EndReaches ==
    ASSUME Inv, NEW o \in 1..MaxOps, Informed(ops[o]), NEW op2, NEW s \in Servers, NEW list,
           EndMove(o, op2, s, list), Halfway(o, ops[o], connections[s])
    PROVE  Reached(o, op2, s, list)
<1> DEFINE e == file[s]
<1>1. Onward(o, op2, s) /\ ops[o].with = Parsed(e)
  BY DEF EndMove, Onward, Plan, Informed
<1>2. e \in Entry /\ e # None /\ ops[o].with.disabled = e.disabled
  <2>1. ops[o].with \in Entry
    BY Types DEF EndMove, Shaped
  <2>2. QED
    BY <1>1, <2>1, FileTyped, ParsedIsNone, NoneIsNoEntry
<1>3. Right(s, list)
  <2>1. connections[s] \in Seq(Connection) /\ Len(list) = Len(connections[s])
    BY Types DEF EndMove
  <2>2. CASE ops[o].pc = "starting"
    <3>1. s \in stdio /\ Len(list) = 0
      BY <2>1, <2>2 DEF Halfway, EndMove
    <3>2. CASE list = <<>>
      BY <3>1, <3>2 DEF Right
    <3>3. QED
      BY <3>1, <3>2, <2>2, <2>1
  <2>3. CASE ops[o].pc \in Listed
    <3> DEFINE c == connections[s][1]
    <3>1. /\ Len(connections[s]) = 1 /\ c.by = o /\ c.config = ops[o].with
          /\ c.disabled = ops[o].with.disabled /\ c.allow = "unknown"
      BY <2>3 DEF Halfway
    <3>2. 1 \in DOMAIN connections[s] /\ list # <<>> /\ Len(list) = 1
      BY <2>1, <3>1
    <3>3. /\ list[1].by = 0 /\ list[1].config = Parsed(e) /\ list[1].disabled = e.disabled
          /\ list[1].allow = "yes" => ops[o].pc = "fetched" /\ ops[o].allow = "yes"
      BY <1>1, <1>2, <3>1, <3>2 DEF EndMove
    <3>4. list[1].allow = "yes" => e.allow
      BY <3>3 DEF Informed, EndMove
    <3>5. QED
      BY <1>2, <3>2, <3>3, <3>4 DEF Right
  <2>4. QED
    BY <2>2, <2>3 DEF EndMove
<1>4. op2.pc = "next" /\ Halfway(o, op2, list)
  BY DEF EndMove, Halfway, Listed
<1>5. QED
  BY <1>1, <1>3, <1>4, OnwardReaches DEF Listed

\* What other operations and servers keep while one goes on.
LEMMA ReachedCarries ==
    ASSUME Inv, Alone, Carried, NEW o \in 1..MaxOps, ops[o].pc # "none",
           NEW op2, NEW s, NEW list, Move(o, op2, s, list), Reached(o, op2, s, list),
           UNCHANGED <<settings, stdio>>
    PROVE  Carried'
<1>1. /\ s \in Servers /\ connections'[s] = list
      /\ \A t \in Servers \ {s} : connections'[t] = connections[t]
      /\ ops'[o] = op2
      /\ \A p \in 1..MaxOps \ {o} : ops'[p] = ops[p] /\ ops[p].pc = "none"
  BY Types DEF Move, Alone
<1>2. UNCHANGED <<file, stdio>>
  BY DEF settings
<1>3. Informed(ops[o])' /\ Halfway(o, ops[o], connections[ops[o].at])'
  BY <1>1, <1>2 DEF Reached, Informed, Halfway, Listed
<1>4. \A p \in 1..MaxOps \ {o} :
        Informed(ops[p])' /\ Halfway(p, ops[p], connections[ops[p].at])'
  BY <1>1, <1>2 DEF Carried, Informed, Halfway, Listed
<1>5. ASSUME NEW t \in Servers
      PROVE  Right(t, connections[t])' \/ Ahead(op2, t)
  <2>1. CASE t = s
    BY <1>1, <1>2, <2>1 DEF Reached, Right
  <2>2. CASE t # s
    <3>1. Right(t, connections[t]) \/ Ahead(ops[o], t)
      BY <1>1, IdleIsNotAhead DEF Carried
    <3>2. QED
      BY <1>1, <1>2, <2>2, <3>1 DEF Reached, Right
  <2>3. QED
    BY <2>1, <2>2
<1>6. \A t \in Servers : Right(t, connections[t])' \/ Ahead(ops'[o], t)
  BY <1>1, <1>5
<1>7. QED
  BY <1>3, <1>4, <1>6 DEF Carried, Ahead

LEMMA MovedCarries ==
    ASSUME Inv, Alone, Carried, NEW o \in 1..MaxOps, OpStep(o), ~Write(o), UNCHANGED stdio
    PROVE  Carried'
<1>1. PICK op2, s, list : Move(o, op2, s, list) /\ Moved(o, op2, s, list)
  BY OpStepMoves
<1>2. UNCHANGED <<settings, stdio>>
  BY OpStepMoves
<1>3. ops[o].pc # "none"
  BY DEF OpStep, Remove, Look, Waited, Closed, Started, Connected, Fails, Fetch, Fetched, Finish, Step
<1>4. Informed(ops[o]) /\ Halfway(o, ops[o], connections[ops[o].at]) /\ s \in Servers
  BY <1>1 DEF Carried, Move
<1>5. RemoveMove(o, op2, s, list) \/ LookMove(o, op2, s, list)
           \/ WaitedMove(o, op2, s, list) \/ ClosedMove(o, op2, s, list)
        => Reached(o, op2, s, list)
  BY <1>4, RemoveReaches, LookReaches, WaitedReaches, ClosedReaches
<1>6. StartedMove(o, op2, s, list) \/ FetchMove(o, op2, s, list) \/ EndMove(o, op2, s, list)
        => Reached(o, op2, s, list)
  <2> SUFFICES ASSUME StartedMove(o, op2, s, list) \/ FetchMove(o, op2, s, list) \/ EndMove(o, op2, s, list)
               PROVE  Reached(o, op2, s, list)
    OBVIOUS
  <2>1. s = ops[o].at
    BY DEF StartedMove, FetchMove, EndMove
  <2>2. QED
    BY <1>4, <2>1, StartedReaches, FetchReaches, EndReaches
<1>7. FinishMove(o, op2, s, list) => Reached(o, op2, s, list)
  <2> SUFFICES ASSUME FinishMove(o, op2, s, list) PROVE Reached(o, op2, s, list)
    OBVIOUS
  <2>1. Idle.pc = "none" /\ Idle.gone = {} /\ Idle.todo = {}
    BY DEF Idle
  <2>2. \A t \in Servers : ~Ahead(ops[o], t)
    BY DEF FinishMove, Ahead, Listed
  <2>3. \A p \in 1..MaxOps \ {o} : ops[p].pc = "none"
    BY <1>3 DEF Alone
  <2>4. Right(s, list)
    BY <1>4, <2>2, <2>3, IdleIsNotAhead DEF Carried, FinishMove
  <2>5. Informed(op2) /\ Halfway(o, op2, list)
    BY <2>1 DEF FinishMove, Informed, Halfway, Listed
  <2>6. QED
    BY <2>1, <2>2, <2>4, <2>5 DEF FinishMove, Reached, Listed
<1>8. Reached(o, op2, s, list)
  BY <1>1, <1>5, <1>6, <1>7 DEF Moved
<1>9. QED
  BY <1>1, <1>2, <1>3, <1>8, ReachedCarries

\* A change is taken up alone: every server is looked at, or removed.
LEMMA WatchCarries ==
    ASSUME Inv, Inv', Watch, Alone', ~broken', UNCHANGED stdio
    PROVE  Carried'
<1> DEFINE f == ParsedFile(file)
           op == Update("update", f, TRUE, TRUE)
<1>1. f \in Files /\ Names(f) = Names(file) /\ \A s \in Servers : f[s] = Parsed(file[s])
  BY Types, ParsedFileTyped
<1>2. Begin(op) /\ UNCHANGED <<file, broken, connections>>
  BY DEF Watch
<1>3. /\ op.pc = "next" /\ op.files = f /\ op.todo = Names(f) /\ op.parsed
      /\ op.gone = {s \in Servers : Known(s)} \ Names(f)
  BY DEF Update, Idle
<1> HIDE DEF op, f
<1>4. PICK o \in 1..MaxOps : ops[o].pc = "none" /\ ops' = [ops EXCEPT ![o] = op]
  BY <1>2, Types DEF Begin
<1>5. ops'[o] = op /\ \A p \in 1..MaxOps \ {o} : ops'[p].pc = "none"
  BY <1>3, <1>4, Types DEF Alone
<1>6. Informed(ops[o])' /\ Halfway(o, ops[o], connections[ops[o].at])'
  <2>1. \A s \in op.gone : file[s] = None
    BY <1>1, <1>3 DEF Names
  <2>2. \A s \in op.todo : op.parsed /\ op.files[s] = Parsed(file[s])
    BY <1>1, <1>3 DEF Names
  <2>3. QED
    BY <1>2, <1>3, <1>5, <2>1, <2>2 DEF Informed, Halfway, Listed
<1>7. ASSUME NEW p \in 1..MaxOps \ {o}
      PROVE  Informed(ops[p])' /\ Halfway(p, ops[p], connections[ops[p].at])'
  <2>1. ops'[p].pc = "none" /\ ops'[p].gone = {} /\ ops'[p].todo = {}
    BY <1>5 DEF Inv, Shaped
  <2>2. QED
    BY <2>1 DEF Informed, Halfway, Listed
<1>8. ASSUME NEW s \in Servers
      PROVE  Right(s, connections[s])' \/ Ahead(ops'[o], s)
  <2>1. CASE Known(s) \/ file[s] # None
    BY <1>1, <1>3, <1>5, <2>1 DEF Ahead, Names
  <2>2. CASE ~Known(s) /\ file[s] = None
    BY <1>2, <2>2 DEF Right, Known
  <2>3. QED
    BY <2>1, <2>2
<1>9. QED
  BY <1>6, <1>7, <1>8 DEF Carried, Ahead

\* A call, or a restart, begins while nothing else goes on.
LEMMA BeginCarries ==
    ASSUME Inv, Carried, NEW op, Begin(op), op.pc \in {"writing", "waiting"}, Informed(op),
           UNCHANGED <<settings, connections, stdio>>
    PROVE  Carried'
<1>1. PICK o \in 1..MaxOps : ops[o].pc = "none" /\ ops' = [ops EXCEPT ![o] = op]
  BY Types DEF Begin
<1>2. UNCHANGED <<file, connections, stdio>>
  BY DEF settings
<1>3. ops'[o] = op /\ \A p \in 1..MaxOps \ {o} : ops'[p] = ops[p]
  BY <1>1, Types
<1>4. Informed(ops[o])' /\ Halfway(o, ops[o], connections[ops[o].at])'
  BY <1>2, <1>3 DEF Informed, Halfway, Listed
<1>5. \A p \in 1..MaxOps \ {o} : Informed(ops[p])' /\ Halfway(p, ops[p], connections[ops[p].at])'
  BY <1>2, <1>3 DEF Carried, Informed, Halfway
<1>6. ASSUME NEW s \in Servers
      PROVE  Right(s, connections[s])' \/ \E p \in 1..MaxOps : Ahead(ops[p], s)'
  <2>1. Right(s, connections[s]) => Right(s, connections[s])'
    BY <1>2 DEF Right
  <2>2. ASSUME NEW p \in 1..MaxOps, Ahead(ops[p], s) PROVE Ahead(ops[p], s)'
    <3>1. p # o
      BY <1>1, <2>2, IdleIsNotAhead
    <3>2. QED
      BY <1>3, <2>2, <3>1 DEF Ahead
  <2>3. QED
    BY <2>1, <2>2 DEF Carried
<1>7. QED
  BY <1>4, <1>5, <1>6 DEF Carried

LEMMA CallsCarry ==
    ASSUME Inv, Carried, Calls, UNCHANGED stdio
    PROVE  Carried' /\ UNCHANGED settings
<1>1. PICK op \in Op :
        /\ op.pc = "writing" /\ op.gone = {} /\ op.todo = {}
        /\ Begin(op) /\ UNCHANGED <<settings, connections>>
  BY CallsRead
<1>2. Informed(op)
  BY <1>1 DEF Informed, Listed
<1>3. QED
  BY <1>1, <1>2, BeginCarries

LEMMA QuietCarries ==
    ASSUME Carried, UNCHANGED <<ops, settings, connections, stdio>>
    PROVE  Carried'
  BY DEF Carried, Informed, Halfway, Right, Ahead, settings

\* What a restart keeps over its delay is what the settings say, if all is quiet.
LEMMA RestartCarries ==
    ASSUME Inv, Carried, Restart, Alone', UNCHANGED stdio
    PROVE  Carried' /\ UNCHANGED settings
<1>1. UNCHANGED <<settings, connections>>
  BY RestartBegins
<1>2. CASE UNCHANGED ops
  BY <1>1, <1>2, QuietCarries
<1>3. ASSUME NEW s \in Servers, NEW notifies \in BOOLEAN, Known(s), Begin(Waiting(s, notifies))
      PROVE  Carried'
  <2> DEFINE op == Waiting(s, notifies)
  <2>1. op.pc = "waiting" /\ op.at = s /\ op.with = Find(s).config /\ op.gone = {} /\ op.todo = {}
    BY <1>3, WaitingTyped
  <2> HIDE DEF op
  <2>2. PICK o \in 1..MaxOps : ops[o].pc = "none" /\ ops' = [ops EXCEPT ![o] = op]
    BY <1>3, Types DEF Begin, op
  <2>3. \A p \in 1..MaxOps : ops[p].pc = "none"
    BY <2>1, <2>2, Types DEF Alone
  <2>4. Right(s, connections[s])
    BY <2>3, IdleIsNotAhead DEF Carried
  <2>5. Find(s).config = Parsed(file[s])
    BY <1>3, <2>4 DEF Right, Known, Find
  <2>6. Informed(op)
    BY <2>1, <2>5 DEF Informed, Listed
  <2>7. QED
    BY <1>1, <1>3, <2>1, <2>6, BeginCarries DEF op
<1>4. QED
  BY <1>1, <1>2, <1>3, RestartBegins

LEMMA BringingStep ==
    ASSUME Inv, Bringing, [MCNext]_<<vars, met, settled>>
    PROVE  Bringing'
<1>1. Inv'
  BY NextKeepsInv DEF MCNext, vars
<1>2. CASE UNCHANGED <<vars, met, settled>>
  BY <1>2, QuietCarries DEF Bringing, Alone, vars, settings
<1>3. CASE MCNext
  <2> SUFFICES ASSUME settled' PROVE Bringing'
    BY DEF Bringing
  <2>1. Next /\ Alone' /\ (settled \/ Watch)
    BY <1>1, <1>3, NotMetAlone DEF MCNext
  <2> SUFFICES ASSUME ~changed', ~broken' PROVE Carried'
    BY <2>1 DEF Bringing
  <2>2. UNCHANGED stdio
    BY <2>1, NextCases
  <2>3. CASE Watch
    BY <1>1, <2>1, <2>2, <2>3, WatchCarries
  <2>4. CASE ~Watch
    <3>1. Alone /\ (~changed /\ ~broken => Carried)
      BY <2>1, <2>4 DEF Bringing
    <3>2. ~Edit /\ \A o \in 1..MaxOps : ~Write(o)
      BY WriteMoves DEF Edit
    <3>3. Restart \/ Calls => UNCHANGED settings
      BY RestartBegins, CallsRead
    <3>4. ASSUME NEW o \in 1..MaxOps, OpStep(o) PROVE UNCHANGED settings
      BY <3>2, <3>4, OpStepMoves
    <3>5. UNCHANGED settings
      BY <2>1, <2>4, <3>2, <3>3, <3>4, NextCases
    <3>6. Carried
      BY <3>1, <3>5 DEF settings
    <3>7. QED
      BY <2>1, <2>2, <2>4, <3>1, <3>2, <3>6, NextCases, RestartCarries, CallsCarry, MovedCarries
  <2>5. QED
    BY <2>3, <2>4
<1>4. QED
  BY <1>2, <1>3

\* Whatever operations that met have made of the list, the next change of the
\* settings that updateServerConnections takes up alone puts it right.
THEOREM FollowsFileHolds == MCSpec => []FollowsFile
<1>1. MCInit => Inv /\ Bringing
  BY MCInitHolds DEF MCInit, Bringing
<1>2. Inv /\ Bringing /\ [MCNext]_<<vars, met, settled>> => (Inv /\ Bringing)'
  BY BringingStep, NextKeepsInv DEF MCNext, vars
<1>3. Inv /\ Bringing => FollowsFile
  <2> SUFFICES ASSUME Inv, Bringing, AtRest, settled PROVE FollowsFile
    BY DEF FollowsFile
  <2>1. \A o \in 1..MaxOps : ops[o].pc = "none"
    BY Types DEF AtRest, Busy
  <2>2. Carried
    BY DEF Bringing, AtRest
  <2>3. \A s \in Servers : Right(s, connections[s])
    BY <2>1, <2>2, IdleIsNotAhead DEF Carried
  <2>4. QED
    BY <2>3 DEF Right, FollowsFile, Known, Find
<1>4. QED
  BY <1>1, <1>2, <1>3, PTL DEF MCSpec

=============================================================================
