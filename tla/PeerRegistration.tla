-------------------------- MODULE PeerRegistration --------------------------
(***************************************************************************)
(* Peer registration (src/app/peer.c, cli.c): the listener thread of an    *)
(* initiator, its command loop, and the responders that register with it.  *)
(* A step is one critical section of the table mutex or one socket call.   *)
(* The command loop works on a copy of the selected record, which the      *)
(* operator may edit, and writes it back at the end of every command.      *)
(***************************************************************************)
EXTENDS PeerTable

CONSTANTS Address,        \* outer addresses of the responders
          SelectorsOf,    \* local selectors each of them may register
          Typed,          \* values `config set` is given for each setting
          Files,          \* configurations `config load` finds
          MaxCalls,       \* connections made to the listener
          MaxCommands,    \* commands typed, listen and quit not counted
          MaxFaults       \* calls that fail, configurations refused, clients that leave

Outer == Address \cup {"none"}
NoIds == [group |-> 0, logon |-> 0]
Ids == {NoIds} \cup {GetNativeAppPeerSequence(n) : n \in 0..(Capacity - 1)}
Selector == {NoSelector} \cup UNION {SelectorsOf[a] : a \in Address}

ASSUME RegistrationAssumption ==
    /\ DOMAIN SelectorsOf = Address
    /\ \A a \in Address : \A s \in SelectorsOf[a] : s.prefix \in Nat
    /\ Typed.addr \subseteq Outer /\ Typed.id \subseteq Ids /\ Typed.name \subseteq Ids
    /\ Typed.ts \subseteq Selector
    /\ Files \subseteq [addr : Outer, id : Ids, name : Ids, ts : Selector]

VARIABLES table, selected,   \* aPeers[0..uiCount), uiSelectedIndex + 1 or 0
          session,           \* the session's copy of the selected record
          loaded,            \* names the daemon holds a connection or an SA of
          cli,               \* the command under way: where, and on what
          running, stop,     \* bRunning, bStopRequested
          lis,               \* the listener thread: where, and which connection
          backlog,           \* connections not yet accepted
          inbox,             \* per responder: the ASSIGN it got and has not read
          mine,              \* per responder: the names it took
          edited,            \* history: a selected peer's profile was changed by hand
          calls, commands, faults

cliVars == <<selected, session, loaded, cli, running, stop, edited, commands>>
peerVars == <<inbox, mine, calls>>
vars == <<table, cliVars, lis, backlog, peerVars, faults>>

NoSession == [addr |-> "none", id |-> NoIds, name |-> NoIds, ts |-> NoSelector, active |-> FALSE]
Prompt == [at |-> "prompt", arg |-> NoIds, prev |-> 0]
NoCall == [addr |-> "none", ts |-> NoSelector, live |-> FALSE]
Off == [at |-> "off", call |-> NoCall, ids |-> NoIds]

Init ==
    /\ table = <<>> /\ selected = 0 /\ loaded = {}
    /\ session = NoSession /\ edited = FALSE
    /\ cli = Prompt /\ running = FALSE /\ stop = FALSE /\ lis = Off
    /\ backlog = <<>> /\ inbox = [a \in Address |-> NoIds]
    /\ mine = [a \in Address |-> NoIds]
    /\ calls = MaxCalls /\ commands = MaxCommands /\ faults = MaxFaults

Fault == faults > 0 /\ faults' = faults - 1
NoFault == UNCHANGED faults

-----------------------------------------------------------------------------
(* The command loop                                                        *)

Cli(at) == cli' = [cli EXCEPT !.at = at]
threads == <<running, stop, lis, backlog, peerVars>>

\* SaveNativeAppSelectedPeer: configuration and state of the session go to the
\* selected record; its ids and its count stay.
Saved(t) ==
    IF selected \in 1..Len(t)
    THEN [t EXCEPT ![selected].addr = session.addr, ![selected].id = session.id,
                   ![selected].name = session.name, ![selected].ts = session.ts,
                   ![selected].active = session.active]
    ELSE t

Copy(r) == [addr |-> r.addr, id |-> r.id, name |-> r.name, ts |-> r.ts, active |-> r.active]

\* The first step of each command; `drop` is connection unload of another name.
First == [show |-> "show save", select |-> "select save", load |-> "load",
          unload |-> "unload", drop |-> "drop", config |-> "config",
          listen |-> "listen", stop |-> "stop", quit |-> "stop"]

\* With no peer selected, load, unload and config work on the application's own
\* configuration, which no record holds.  Of the other commands, credential, ike,
\* child, up, down and test change of a record its state only, as load and unload
\* do, and packet and show nothing.
Command ==
    /\ cli = Prompt
    /\ \E c \in DOMAIN First, id \in {table[i].id : i \in 1..Len(table)} \cup {NoIds} :
          /\ c \in {"quit", "listen"} \/ commands > 0
          /\ id # NoIds => c = "select"
          /\ c \in {"load", "unload", "config"} => selected # 0
          /\ commands' = CASE c = "quit" -> 0 [] c = "listen" -> commands [] OTHER -> commands - 1
          /\ cli' = [at |-> First[c], arg |-> id, prev |-> selected]
    /\ UNCHANGED <<table, selected, session, loaded, edited, faults, threads>>

\* peer show: write back, ask the daemon, then note the state of every record.
ShowSave ==
    /\ cli.at = "show save" /\ table' = Saved(table) /\ Cli("show refresh")
    /\ UNCHANGED <<selected, session, loaded, edited, commands, faults, threads>>

RefreshNativeAppPeerStates ==
    /\ cli.at = "show refresh" /\ Cli("done")
    /\ \/ Fault /\ UNCHANGED <<table, session>>
       \/ /\ NoFault
          /\ table' = [i \in 1..Len(table) |-> [table[i] EXCEPT !.active = table[i].name \in loaded]]
          /\ session' = IF selected = 0 THEN session
                        ELSE [session EXCEPT !.active = table'[selected].active]
    /\ UNCHANGED <<selected, loaded, edited, commands, threads>>

\* peer select: write back, find the record, rebuild the runtime from it; when
\* that fails the session and the index go back to what they were.
SelectSave ==
    /\ cli.at = "select save" /\ table' = Saved(table) /\ Cli("select record")
    /\ UNCHANGED <<selected, session, loaded, edited, commands, faults, threads>>

SelectRecord ==
    LET found == {i \in 1..Len(table) : table[i].id = cli.arg}
        i == CHOOSE i \in found : \A j \in found : i <= j
    IN
    /\ cli.at = "select record"
    /\ \/ found = {} /\ NoFault /\ Cli("done") /\ UNCHANGED <<selected, session>>
       \/ found # {} /\ NoFault /\ selected' = i /\ session' = Copy(table[i]) /\ Cli("done")
       \/ found # {} /\ Fault /\ selected' = i /\ Cli("select undo") /\ UNCHANGED session
    /\ UNCHANGED <<table, loaded, edited, commands, threads>>

\* Seeded fault: the index is left on the record that was refused.
SelectUndoForgotten ==
    /\ cli.at = "select undo" /\ Cli("done")
    /\ UNCHANGED <<table, selected, session, loaded, edited, commands, faults, threads>>

SelectUndo ==
    /\ cli.at = "select undo" /\ selected' = cli.prev /\ Cli("done")
    /\ UNCHANGED <<table, session, loaded, edited, commands, faults, threads>>

\* Whether the session's configuration validates depends on settings no field
\* stands for: where the code asks, both answers are possible.
\* connection load: it does not validate, the call fails, or it is loaded.
Load ==
    /\ cli.at = "load" /\ Cli("done")
    /\ \/ UNCHANGED <<loaded, session>>
       \/ /\ loaded' = loaded \cup {session.name}
          /\ session' = [session EXCEPT !.active = TRUE]
    /\ UNCHANGED <<table, selected, edited, commands, faults, threads>>

\* connection unload, after a refresh and before another: refused while an SA
\* is up.
Unload ==
    /\ cli.at = "remove"
    /\ \/ Cli("done") /\ UNCHANGED <<loaded, session>>
       \/ /\ Cli("removed") /\ loaded' = loaded \ {session.name}
          /\ session' = [session EXCEPT !.active = FALSE]
    /\ UNCHANGED <<table, selected, edited, commands, faults, threads>>

UnloadNamed ==
    /\ cli.at = "drop" /\ Cli("done")
    /\ \E n \in Ids : (selected = 0 \/ n # session.name) /\ loaded' = loaded \ {n}
    /\ UNCHANGED <<table, selected, session, edited, commands, faults, threads>>

\* RefreshNativeAppSelectedState: ask the daemon and write back.  A failure ends
\* the command; config alone goes on, unasked, when the configuration does not
\* validate.
Refreshed == [config |-> "set", unload |-> "remove", removed |-> "done"]

RefreshSelected ==
    /\ cli.at \in DOMAIN Refreshed
    /\ \/ Cli("done") /\ UNCHANGED <<table, session>>
       \/ cli.at = "config" /\ Cli("set") /\ UNCHANGED <<table, session>>
       \/ /\ Cli(Refreshed[cli.at])
          /\ session' = [session EXCEPT !.active = session.name \in loaded]
          /\ table' = [table EXCEPT ![selected] = [Saved(table)[selected]
                                          EXCEPT !.active = session'.active]]
    /\ UNCHANGED <<selected, loaded, edited, commands, faults, threads>>

\* config set of one setting (mode set is one), config load of all: refused for
\* an active peer, a key, a value or a file.  No value is compared with the
\* table, and one that does not validate stays.  Another role is another `id`.
Profile(s) == [addr |-> s.addr, id |-> s.id, name |-> s.name, ts |-> s.ts]
OneSetting(p) ==
    {p} \cup {[p EXCEPT !.addr = a] : a \in Typed.addr}
        \cup {[p EXCEPT !.id = d] : d \in Typed.id}
        \cup {[p EXCEPT !.name = d] : d \in Typed.name}
        \cup {[p EXCEPT !.ts = s] : s \in Typed.ts}

SetConfig ==
    /\ cli.at = "set"
    /\ \/ Cli("done") /\ UNCHANGED <<session, edited>>
       \/ /\ ~session.active /\ Cli("changed")
          /\ \E p \in OneSetting(Profile(session)) \cup Files :
                session' = [addr |-> p.addr, id |-> p.id, name |-> p.name, ts |-> p.ts,
                            active |-> FALSE]
          /\ edited' = (edited \/ Profile(session') # Profile(session))
    /\ UNCHANGED <<table, selected, loaded, commands, faults, threads>>

\* peer listen: refused while bRunning, which outlives a thread that died.
Listen ==
    /\ cli.at = "listen" /\ Cli("done")
    /\ IF running
       THEN UNCHANGED <<running, stop, lis, faults>>
       ELSE \/ Fault /\ UNCHANGED <<running, stop, lis>>
            \/ /\ NoFault /\ running' = TRUE /\ stop' = FALSE
               /\ lis' = [Off EXCEPT !.at = "poll"]
    /\ UNCHANGED <<table, selected, session, loaded, edited, commands, backlog, peerVars>>

\* StopNativeAppPeerListener: ask, then join.
StopListener ==
    /\ cli.at = "stop"
    /\ IF running THEN stop' = TRUE /\ Cli("join") ELSE UNCHANGED stop /\ Cli("done")
    /\ UNCHANGED <<table, selected, session, loaded, running, edited, commands, lis, backlog, peerVars,
                   faults>>

Join ==
    /\ cli.at = "join" /\ lis.at = "end"
    /\ running' = FALSE /\ lis' = Off /\ Cli("done")
    /\ UNCHANGED <<table, selected, session, loaded, stop, edited, commands, backlog, peerVars, faults>>

\* Every command ends by writing back.
Done ==
    /\ cli.at \in {"done", "changed"} /\ cli' = Prompt /\ table' = Saved(table)
    /\ UNCHANGED <<selected, session, loaded, edited, commands, faults, threads>>

CliStep ==
    \/ ShowSave \/ RefreshNativeAppPeerStates \/ SelectSave \/ SelectRecord \/ SelectUndo
    \/ Load \/ Unload \/ UnloadNamed \/ RefreshSelected \/ SetConfig
    \/ Listen \/ StopListener \/ Join \/ Done

-----------------------------------------------------------------------------
(* The listener thread                                                     *)

Lis(at) == lis' = [lis EXCEPT !.at = at]
Candidate == BuildNativeAppPeer(lis.ids, lis.call.addr, lis.call.ts)

\* RunNativeAppPeerListener: look at the stop flag, poll, accept.  A dead
\* server socket ends the thread.  Seeded fault: the flag is not looked at.
PollBlocking ==
    /\ lis.at = "poll"
    /\ backlog # <<>> /\ backlog' = Tail(backlog)
    /\ NoFault /\ lis' = [Off EXCEPT !.at = "receive", !.call = Head(backlog)]
    /\ UNCHANGED <<table, cliVars, peerVars>>

Poll ==
    /\ lis.at = "poll"
    /\ \/ stop /\ Lis("close") /\ NoFault /\ UNCHANGED backlog
       \/ ~stop /\ Fault /\ Lis("close") /\ UNCHANGED backlog
       \/ /\ ~stop /\ backlog # <<>> /\ backlog' = Tail(backlog)
          /\ \/ NoFault /\ lis' = [Off EXCEPT !.at = "receive", !.call = Head(backlog)]
             \/ Fault /\ lis' = [Off EXCEPT !.at = "after", !.call = Head(backlog)]
    /\ UNCHANGED <<table, cliVars, peerVars>>

\* One deadline covers the whole message; a client that sends nothing, too
\* little or something else is an error, and so is a stop meanwhile.  What a
\* client sent before it left is still read.
Receive ==
    /\ lis.at = "receive" /\ (Lis("lookup") \/ Lis("after"))
    /\ UNCHANGED <<table, cliVars, backlog, peerVars, faults>>

\* The ids, old or next.  The command loop may change an address between the
\* two critical sections, but the second looks at the number of records only.
Lookup ==
    LET a == lis.call.addr IN
    /\ lis.at = "lookup"
    /\ lis' = IF CanAssign(table, a)
              THEN [lis EXCEPT !.at = "validate", !.ids = AssignedIds(table, a)]
              ELSE [lis EXCEPT !.at = "after"]
    /\ UNCHANGED <<table, cliVars, backlog, peerVars, faults>>

\* The selector is checked before the answer.  Seeded fault: only afterwards.
ValidateSkipped ==
    /\ lis.at = "validate" /\ Lis("send")
    /\ UNCHANGED <<table, cliVars, backlog, peerVars, faults>>

Validate ==
    /\ lis.at = "validate"
    /\ Lis(IF ValidateRemoteTrafficSelector(table, Candidate,
                                            FindByRemoteAddress(table, lis.call.addr))
           THEN "send" ELSE "after")
    /\ UNCHANGED <<table, cliVars, backlog, peerVars, faults>>

\* ASSIGN reaches a client that is still there.  It is sent before the record
\* is stored.
SendAssign ==
    /\ lis.at = "send"
    /\ \/ /\ NoFault /\ ~stop /\ Lis("store")
          /\ inbox' = IF lis.call.live THEN [inbox EXCEPT ![lis.call.addr] = lis.ids] ELSE inbox
       \/ (Fault \/ (stop /\ NoFault)) /\ Lis("after") /\ UNCHANGED inbox
    /\ UNCHANGED <<table, cliVars, backlog, mine, calls>>

Store ==
    /\ lis.at = "store" /\ Lis("after")
    /\ table' = UpsertNativeAppPeer(table, Candidate)
    /\ UNCHANGED <<cliVars, backlog, peerVars, faults>>

\* The connection is closed, and the event reported unless stopping.
After ==
    /\ lis.at = "after" /\ lis' = [Off EXCEPT !.at = "poll"]
    /\ UNCHANGED <<table, cliVars, backlog, peerVars, faults>>

\* The server socket is closed and with it every connection not accepted.
CloseServer ==
    /\ lis.at = "close" /\ lis' = [Off EXCEPT !.at = "end"] /\ backlog' = <<>>
    /\ UNCHANGED <<table, cliVars, peerVars, faults>>

LisStep ==
    \/ Poll \/ Receive \/ Lookup \/ Validate \/ SendAssign \/ Store \/ After \/ CloseServer

-----------------------------------------------------------------------------
(* The responders: RegisterNativeAppPeer                                   *)

Waiting(a) ==
    \/ lis.call.live /\ lis.call.addr = a
    \/ \E i \in 1..Len(backlog) : backlog[i].live /\ backlog[i].addr = a

Connect ==
    /\ calls > 0 /\ calls' = calls - 1 /\ lis.at \notin {"off", "end"}
    /\ \E a \in Address : \E s \in SelectorsOf[a] :
          /\ ~Waiting(a) /\ inbox[a] = NoIds
          /\ backlog' = Append(backlog, [addr |-> a, ts |-> s, live |-> TRUE])
    /\ UNCHANGED <<table, cliVars, lis, inbox, mine, faults>>

\* The record is stored and selected.  Before the selection the configuration
\* of the session is written back over it, so that only the first assignment
\* of a process gives it its names.
TakeAssign ==
    /\ \E a \in Address :
          /\ inbox[a] # NoIds
          /\ mine' = [mine EXCEPT ![a] = IF @ = NoIds THEN inbox[a] ELSE @]
          /\ inbox' = [inbox EXCEPT ![a] = NoIds]
    /\ UNCHANGED <<table, cliVars, lis, backlog, calls, faults>>

\* A client that times out leaves; a restarted one forgets its names.
Left(call, a) == [call EXCEPT !.live = @ /\ call.addr # a]
Leave ==
    /\ \E a \in Address :
          /\ Waiting(a) \/ inbox[a] # NoIds
          /\ lis' = [lis EXCEPT !.call = Left(@, a)]
          /\ backlog' = [i \in 1..Len(backlog) |-> Left(backlog[i], a)]
          /\ inbox' = [inbox EXCEPT ![a] = NoIds]
          /\ mine' \in {mine, [mine EXCEPT ![a] = NoIds]}
    /\ Fault /\ UNCHANGED <<table, cliVars, calls>>

Next == Command \/ CliStep \/ LisStep \/ Connect \/ TakeAssign \/ Leave

Spec == Init /\ [][Next]_vars /\ WF_vars(CliStep) /\ WF_vars(LisStep)

-----------------------------------------------------------------------------
(* Properties                                                              *)

SessionType == [addr : Outer, id : Ids, name : Ids, ts : Selector, active : BOOLEAN]

TypeOK ==
    /\ table \in Seq([addr : Outer, ids : Ids, id : Ids, name : Ids,
                      ts : Selector, count : 1..MaxCount, active : BOOLEAN])
    /\ selected \in 0..Capacity /\ loaded \subseteq Ids /\ session \in SessionType
    /\ running \in BOOLEAN /\ stop \in BOOLEAN /\ edited \in BOOLEAN /\ lis.ids \in Ids
    /\ inbox \in [Address -> Ids] /\ mine \in [Address -> Ids]

\* The table stays within its capacity.  However registrations and write-backs
\* interleave, until a selected peer's profile is edited by hand a record keeps
\* the ids of its place, its identity and names are spelled from them, and an
\* address has one record (UpsertNativeAppPeer, SaveNativeAppSelectedPeer).
TableKeyed ==
    /\ Len(table) <= Capacity
    /\ ~edited => \A i \in 1..Len(table) :
          /\ table[i].ids = GetNativeAppPeerSequence(i - 1)
          /\ table[i].id = table[i].ids /\ table[i].name = table[i].ids
          /\ \A j \in 1..Len(table) : table[i].addr = table[j].addr => i = j

\* Outside a selection under way and between an edit and its write-back, the
\* session works on the record the index points at: the write-back at the end
\* of any other command leaves every record its address, and, until a profile
\* is edited, its identity and names (SelectNativeAppPeer).
SelectionCoherent ==
    selected # 0 /\ cli.at \notin {"select undo", "changed"} =>
        /\ selected <= Len(table) /\ session.addr = table[selected].addr
        /\ ~edited => session.id = table[selected].id /\ session.name = table[selected].name

Overlap(t, i, j) == AreNativeAppTrafficSelectorsOverlapping(t[i].ts, t[j].ts)

\* README: the table holds no two peers with overlapping remote selectors.  Here
\* of a table whose profiles were never edited by hand.
SelectorsDisjoint ==
    ~edited => \A i, j \in 1..Len(table) : Overlap(table, i, j) => i = j

\* A registration never makes two selectors overlap that did not before,
\* though the table may change between its check and its store.
RegistrationDisjoint ==
    [][lis' # lis =>
         \A i, j \in 1..Len(table') :
             Overlap(table', i, j) =>
                 i = j \/ (i <= Len(table) /\ j <= Len(table) /\ Overlap(table, i, j))]_vars

\* While the command loop has selected no peer, a responder that took names has
\* the names the initiator stored, or is about to store, for its address:
\* ASSIGN goes out first, but nothing refuses the record afterwards.
AssignAgrees ==
    selected = 0 /\ cli.at # "select undo" =>
        \A a \in Address : mine[a] # NoIds =>
            \/ \E i \in 1..Len(table) : table[i].addr = a /\ table[i].ids = mine[a]
            \/ lis.at = "store" /\ lis.call.addr = a /\ lis.ids = mine[a]

\* peer listen stop and quit come back whatever the clients do.
StopReturns == cli.at = "join" ~> cli.at # "join"
=============================================================================
