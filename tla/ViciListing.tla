----------------------------- MODULE ViciListing -----------------------------
(***************************************************************************)
(* What the library says and reads in vici messages: the load-conn request *)
(* of src/src/ike/vici/vici_connection.c, and the collectors that turn the *)
(* elements of list-sa and list-conn events into the lists of vici_sa.c    *)
(* and vici_connection.c.  Names are texts here, and a value is one of     *)
(*   Text(t), Long (a text longer than its field), Number(n) (digits), and *)
(*   Seconds(n) (digits and an "s").                                       *)
(***************************************************************************)
EXTENDS ViciMessage

CONSTANTS MaxNumber,        \* UINT64_MAX
          MaxShort,         \* UINT32_MAX
          MaxListItems,     \* IPSEC_VICI_MAX_LIST_ITEMS
          MaxText           \* the values a joined text field can hold

ASSUME ViciListingAssumption ==
    MaxNumber \in Nat /\ MaxShort \in Nat /\ MaxListItems \in Nat /\ MaxText \in Nat

Text(t) == [kind |-> "text", text |-> t, number |-> 0]
Long == [kind |-> "long", text |-> "", number |-> 0]
Number(n) == [kind |-> "number", text |-> "", number |-> n]
Seconds(n) == [kind |-> "seconds", text |-> "", number |-> n]

Section(name) == Element(SectionStart, name, Text(""))
EndSection == Element(SectionEnd, "", Text(""))
Pair(name, value) == Element(KeyValue, name, value)

-----------------------------------------------------------------------------
(* The load-conn request                                                   *)

\* ValidateConnectionList, for a list that is required
ValidList(l) == Len(l) \in 1..MaxListItems /\ \A i \in DOMAIN l : l[i].text # ""

\* ContainsConnectionProposalToken, ContainsConnectionPfsToken; a proposal is
\* the sequence of its keywords, and a method never comes first.
ContainsToken(proposals, token) ==
    \E i \in DOMAIN proposals : \E k \in DOMAIN proposals[i].keys : proposals[i].keys[k] = token
ContainsPfs(proposals, methods) ==
    \E i \in DOMAIN proposals :
        \E k \in 2..Len(proposals[i].keys) : proposals[i].keys[k] \in methods

ValidateViciConnectionConfigInternal(c, methods) ==
    /\ c.localId # "" /\ c.remoteId # "" /\ c.mode \in {"tunnel", "transport"}
    /\ c.name # "" /\ c.localAuth = "psk" /\ c.remoteAuth = "psk"
    /\ c.childName # ""
    /\ \A l \in {c.localAddrs, c.remoteAddrs, c.ike, c.esp, c.localTs, c.remoteTs} : ValidList(l)
    /\ c.esn = "enabled" => ContainsToken(c.esp, "esn")
    /\ c.esn = "disabled" => ContainsToken(c.esp, "noesn")
    /\ c.pfs => ContainsPfs(c.esp, methods)

AddConnectionList(name, l) ==
    <<Element(ListStart, name, Text(""))>>
    \o [i \in 1..Len(l) |-> Element(ListItem, "", Text(l[i].text))]
    \o <<Element(ListEnd, "", Text(""))>>

\* Zero keeps the daemon's default; a part of a second counts as one.
DurationFits(ms) == ms = 0 \/ ms <= MaxNumber - 999
AddConnectionDuration(name, ms) ==
    IF ms = 0 THEN <<>> ELSE <<Pair(name, Seconds((ms + 999) \div 1000))>>

Peer(section, id) ==
    <<Section(section), Pair("auth", Text("psk")), Pair("id", Text(id)), EndSection>>

YesNo(b) == Text(IF b THEN "yes" ELSE "no")

Child(c) ==
    <<Section("children"), Section(c.childName)>>
    \o AddConnectionList("local_ts", c.localTs)
    \o AddConnectionList("remote_ts", c.remoteTs)
    \o <<Pair("mode", Text(c.mode))>>
    \o AddConnectionList("esp_proposals", c.esp)
    \o <<Pair("start_action", Text("none")), Pair("close_action", Text("none")),
         Pair("dpd_action", Text("clear"))>>
    \o AddConnectionDuration("rekey_time", c.childRekeyTime)
    \o AddConnectionDuration("life_time", c.childLifetime)
    \o <<EndSection, EndSection>>

\* A time that cannot be rounded up makes no request.
BuildConnectionMessage(c) ==
    IF \E ms \in {c.dpdDelay, c.dpdTimeout, c.rekeyTime, c.lifetime,
                   c.childRekeyTime, c.childLifetime} : ~DurationFits(ms)
    THEN <<>> ELSE
    <<Section(c.name), Pair("version", Number(2))>>
    \o AddConnectionList("local_addrs", c.localAddrs)
    \o AddConnectionList("remote_addrs", c.remoteAddrs)
    \o AddConnectionList("proposals", c.ike)
    \o <<Pair("mobike", YesNo(c.mobike)), Pair("fragmentation", YesNo(c.fragmentation)),
         Pair("encap", YesNo(c.encap)),
         Pair("childless", Text(IF c.childless THEN "force" ELSE "allow"))>>
    \o AddConnectionDuration("dpd_delay", c.dpdDelay)
    \o AddConnectionDuration("dpd_timeout", c.dpdTimeout)
    \o AddConnectionDuration("rekey_time", c.rekeyTime)
    \o AddConnectionDuration("reauth_time", c.lifetime)
    \o Peer("local", c.localId) \o Peer("remote", c.remoteId)
    \o Child(c) \o <<EndSection>>

-----------------------------------------------------------------------------
(* Conversions of a value.  A result is the stored value or an error.      *)

Stored(v) == [ok |-> TRUE, value |-> v]
Refused == [ok |-> FALSE, value |-> Text("")]

CopyIpsecString(v) == IF v.kind = "long" THEN Refused ELSE Stored(v)
ParseNumber(v) == IF v.kind = "number" /\ v.number <= MaxNumber THEN Stored(v) ELSE Refused
ParseShort(v) == IF v.kind = "number" /\ v.number <= MaxShort THEN Stored(v) ELSE Refused
ParseSaSeconds(v) ==
    IF ParseNumber(v).ok /\ v.number <= MaxNumber \div 1000
    THEN Stored(Number(v.number * 1000)) ELSE Refused
ParseSaBoolean(v) ==
    CASE v \in {Text("yes"), Number(1)} -> Stored(Text("yes"))
      [] v \in {Text("no"), Number(0)} -> Stored(Text("no"))
      [] OTHER -> Refused
ParseMode(v) ==
    Stored(CASE v.text \in {"tunnel", "TUNNEL"} -> Text("tunnel")
             [] v.text \in {"transport", "TRANSPORT"} -> Text("transport")
             [] v.text \in {"beet", "BEET"} -> Text("beet")
             [] OTHER -> Text("unknown"))

\* AppendIpsecText: one more value behind those a field holds already
AppendIpsecText(held, v) ==
    IF v.kind = "long" \/ Len(held) >= MaxText THEN [ok |-> FALSE, held |-> held]
    ELSE [ok |-> TRUE, held |-> Append(held, v)]

AppendSaKeySize(held, v) ==
    IF ParseShort(v).ok /\ v.number # 0 THEN AppendIpsecText(held, v)
    ELSE [ok |-> FALSE, held |-> held]

\* The name of a section or a list that does not fit its field
LongName == "(long)"
TooLong(e) == e.type \in {SectionStart, ListStart} /\ e.name = LongName

-----------------------------------------------------------------------------
(* The list of SAs.  inIke and inChild say whether pCurrentIke and         *)
(* pCurrentChild are set: each is then the last entry of its list.         *)

IkeText == {"state", "local-host", "remote-host", "local-id", "remote-id"}
IkeBoolean == {"initiator", "nat-local", "nat-remote"}
IkeSeconds == {"established", "rekey-time"}
ChildText == {"name", "state"}
ChildShort == {"reqid", "spi-in", "spi-out"}
ChildNumber == {"bytes-in", "bytes-out", "packets-in", "packets-out"}
ChildBoolean == {"encap", "esn"}
ChildSeconds == {"install-time", "rekey-time", "life-time"}
ProposalField == {"encr-alg", "integ-alg", "prf-alg", "dh-group"}

NewInfo(ike, fields) ==
    [ike |-> ike, fields |-> fields, proposal |-> <<>>, localTs |-> <<>>, remoteTs |-> <<>>]

Last(l) == l[Len(l)]

\* The entry after one key and value, and whether there was an error
WithField(info, name, r) ==
    [ok |-> r.ok,
     info |-> IF r.ok
              THEN [info EXCEPT !.fields = [f \in DOMAIN @ \cup {name} |->
                                               IF f = name THEN r.value ELSE info.fields[f]]]
              ELSE info]
WithProposal(info, r) == [ok |-> r.ok, info |-> [info EXCEPT !.proposal = r.held]]

IkeValue(info, name, v) ==
    CASE name = "uniqueid" -> WithField(info, name, ParseNumber(v))
      [] name \in IkeText -> WithField(info, name, CopyIpsecString(v))
      [] name \in IkeBoolean -> WithField(info, name, ParseSaBoolean(v))
      [] name \in IkeSeconds -> WithField(info, name, ParseSaSeconds(v))
      [] name \in ProposalField -> WithProposal(info, AppendIpsecText(info.proposal, v))
      [] name = "encr-keysize" -> WithProposal(info, AppendSaKeySize(info.proposal, v))
      [] OTHER -> [ok |-> TRUE, info |-> info]

ChildValue(info, name, v) ==
    CASE name \in ChildText -> WithField(info, name, CopyIpsecString(v))
      [] name \in ChildShort -> WithField(info, name, ParseShort(v))
      [] name \in ChildNumber -> WithField(info, name, ParseNumber(v))
      [] name = "mode" -> WithField(info, name, ParseMode(v))
      [] name \in ChildBoolean -> WithField(info, name, ParseSaBoolean(v))
      [] name \in ChildSeconds -> WithField(info, name, ParseSaSeconds(v))
      [] name \in ProposalField -> WithProposal(info, AppendIpsecText(info.proposal, v))
      [] name = "encr-keysize" -> WithProposal(info, AppendSaKeySize(info.proposal, v))
      [] OTHER -> [ok |-> TRUE, info |-> info]

CollectIkeValue(c, e) ==
    IF ~c.inIke THEN c
    ELSE LET r == IkeValue(Last(c.ike), e.name, e.value)
         IN  [c EXCEPT !.ok = r.ok, !.ike[Len(c.ike)] = r.info]

CollectChildValue(c, e) ==
    IF ~c.inChild THEN c
    ELSE LET r == ChildValue(Last(c.child), e.name, e.value)
         IN  [c EXCEPT !.ok = r.ok, !.child[Len(c.child)] = r.info]

AppendIkeSa(c, name) ==
    IF ~c.wantIke THEN [c EXCEPT !.inIke = FALSE]
    ELSE [c EXCEPT !.inIke = TRUE,
                   !.ike = Append(@, NewInfo(name, [f \in {"name"} |-> Text(name)]))]

\* The section's name stands until a name is given.
AppendChildSa(c, name) ==
    IF ~c.wantChild THEN [c EXCEPT !.inChild = FALSE]
    ELSE [c EXCEPT !.inChild = TRUE,
                   !.child = Append(@, NewInfo(c.ikeName,
                                               [f \in {"name", "mode"} |->
                                                   IF f = "name" THEN Text(name) ELSE Text("unknown")]))]

CollectSaSectionStart(c, e) ==
    LET d == [c EXCEPT !.sections[e.depth] = e.name] IN
    CASE e.depth = 1 -> AppendIkeSa([d EXCEPT !.ikeName = e.name], e.name)
      [] e.depth = 3 /\ d.sections[2] = "child-sas" -> AppendChildSa(d, e.name)
      [] OTHER -> d

CollectSaSectionEnd(c, e) ==
    LET d == [c EXCEPT !.sections[e.depth] = ""] IN
    CASE e.depth = 3 -> [d EXCEPT !.inChild = FALSE]
      [] e.depth = 1 -> [d EXCEPT !.inIke = FALSE, !.ikeName = ""]
      [] OTHER -> d

\* A traffic selector of the current child
CollectSelector(c, e) ==
    LET n == Len(c.child)
        loc == AppendIpsecText(c.child[n].localTs, e.value)
        rem == AppendIpsecText(c.child[n].remoteTs, e.value)
    IN  CASE c.list = "local-ts" -> [c EXCEPT !.ok = loc.ok, !.child[n].localTs = loc.held]
          [] c.list = "remote-ts" -> [c EXCEPT !.ok = rem.ok, !.child[n].remoteTs = rem.held]
          [] OTHER -> c

CollectSaElement(c, e) ==
    CASE TooLong(e) -> [c EXCEPT !.ok = FALSE]
      [] ~TooLong(e) /\ e.type = SectionStart -> CollectSaSectionStart(c, e)
      [] e.type = SectionEnd -> CollectSaSectionEnd(c, e)
      [] ~TooLong(e) /\ e.type = ListStart -> [c EXCEPT !.list = e.name]
      [] e.type = ListEnd -> [c EXCEPT !.list = ""]
      [] e.type = ListItem ->
            IF e.depth = 3 /\ c.inChild THEN CollectSelector(c, e) ELSE c
      [] e.type = KeyValue ->
            IF e.depth = 1 THEN CollectIkeValue(c, e)
            ELSE IF e.depth = 3 /\ c.sections[2] = "child-sas" THEN CollectChildValue(c, e) ELSE c

\* The elements of a message are taken one by one until one fails.
RECURSIVE Collected(_, _, _, _)
Collected(Collect(_, _), c, s, i) ==
    IF i > Len(s) \/ ~c.ok THEN c
    ELSE IF ~Allowed(s[i].type, DepthBefore(s, i), ListOpenBefore(s, i)) THEN [c EXCEPT !.ok = FALSE]
    ELSE Collected(Collect, Collect(c, [type |-> s[i].type, name |-> s[i].name,
                                        value |-> s[i].value, depth |-> DepthOf(s, i)]), s, i + 1)

Event(Collect(_, _), c, s) ==
    LET d == Collected(Collect, c, s, 1) IN [d EXCEPT !.ok = @ /\ Accepted(s)]

RECURSIVE Events(_, _, _)
Events(Collect(_, _), c, events) ==
    IF events = <<>> \/ ~c.ok THEN c
    ELSE Events(Collect, Event(Collect, c, Head(events)), Tail(events))

QueryIpsecSas(events, wantIke, wantChild) ==
    Events(CollectSaElement,
           [ok |-> TRUE, ike |-> <<>>, child |-> <<>>, wantIke |-> wantIke, wantChild |-> wantChild,
            ikeName |-> "", inIke |-> FALSE, inChild |-> FALSE,
            sections |-> [d \in 1..MaxDepth |-> ""], list |-> ""],
           events)

-----------------------------------------------------------------------------
(* The list of connections                                                 *)

NewConnection(name) ==
    [name |-> name, localAddrs |-> <<>>, remoteAddrs |-> <<>>, children |-> <<>>,
     localId |-> Text(""), remoteId |-> Text(""), rekeyTime |-> Number(0), reauthTime |-> Number(0)]

\* MatchConnectionAuthSection: charon numbers the rounds, "local-1"
LocalAuth == {"local", "local-1"}
RemoteAuth == {"remote", "remote-1"}

CollectConnectionSection(c, e) ==
    LET d == [c EXCEPT !.sections[e.depth] = e.name]
        n == Len(d.items)
        r == AppendIpsecText(d.items[n].children, Text(e.name))
    IN  CASE e.depth = 1 -> [d EXCEPT !.items = Append(@, NewConnection(e.name))]
          [] e.depth = 3 /\ d.sections[2] = "children" ->
                [d EXCEPT !.ok = r.ok, !.items[n].children = r.held]
          [] OTHER -> d

CollectAddress(c, e) ==
    LET n == Len(c.items)
        loc == AppendIpsecText(c.items[n].localAddrs, e.value)
        rem == AppendIpsecText(c.items[n].remoteAddrs, e.value)
    IN  CASE c.list = "local_addrs" -> [c EXCEPT !.ok = loc.ok, !.items[n].localAddrs = loc.held]
          [] c.list = "remote_addrs" -> [c EXCEPT !.ok = rem.ok, !.items[n].remoteAddrs = rem.held]
          [] OTHER -> c

CollectConnectionValue(c, e) ==
    LET n == Len(c.items)
        Put(field, r) == IF r.ok THEN [c EXCEPT !.items[n][field] = r.value]
                         ELSE [c EXCEPT !.ok = FALSE]
    IN  CASE e.depth = 1 /\ e.name = "rekey_time" -> Put("rekeyTime", ParseSaSeconds(e.value))
          [] e.depth = 1 /\ e.name = "reauth_time" -> Put("reauthTime", ParseSaSeconds(e.value))
          [] e.depth = 2 /\ e.name = "id" /\ c.sections[2] \in LocalAuth ->
                Put("localId", CopyIpsecString(e.value))
          [] e.depth = 2 /\ e.name = "id" /\ c.sections[2] \in RemoteAuth ->
                Put("remoteId", CopyIpsecString(e.value))
          [] OTHER -> c

CollectConnectionElement(c, e) ==
    CASE TooLong(e) -> [c EXCEPT !.ok = FALSE]
      [] ~TooLong(e) /\ e.type = SectionStart -> CollectConnectionSection(c, e)
      [] e.type = SectionEnd -> [c EXCEPT !.sections[e.depth] = ""]
      [] ~TooLong(e) /\ e.type = ListStart -> [c EXCEPT !.list = e.name]
      [] e.type = ListEnd -> [c EXCEPT !.list = ""]
      [] e.type = ListItem ->
            IF c.items # <<>> /\ e.depth = 1 THEN CollectAddress(c, e) ELSE c
      [] e.type = KeyValue ->
            IF c.items # <<>> THEN CollectConnectionValue(c, e) ELSE c

\* A failed query returns no list.
GetIpsecConnections(events) ==
    LET c == Events(CollectConnectionElement,
                    [ok |-> TRUE, items |-> <<>>, list |-> "",
                     sections |-> [d \in 1..MaxDepth |-> ""]], events)
    IN  IF c.ok THEN c ELSE [c EXCEPT !.items = <<>>]
=============================================================================
