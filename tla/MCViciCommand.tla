---------------------------- MODULE MCViciCommand ----------------------------
(***************************************************************************)
(* Two API threads, one of them inside an SA wait, and two calls: a        *)
(* mutation and a streamed list.  The messages the calls exchange are      *)
(* checked here as functions.                                              *)
(***************************************************************************)
EXTENDS ViciCommand, ViciListing, TLC

CONSTANTS t1, t2, load, list

MCThread == {t1, t2}
MCCancellable == {t2}
MCMutation == {load}
MCStreamed == {list}
MCCall == MCMutation \cup MCStreamed

-----------------------------------------------------------------------------
(* Bytes of messages                                                       *)

UpTo(S, n) == UNION {[1..k -> S] : k \in 0..n}

\* Elements that do and do not fit their length fields
SomeElements ==
    {Element(SectionStart, <<1>>, <<>>), Element(SectionEnd, <<>>, <<>>),
     Element(KeyValue, <<2, 0>>, <<3>>), Element(KeyValue, <<>>, <<>>),
     Element(ListStart, <<4>>, <<>>), Element(ListItem, <<>>, <<5, 2>>),
     Element(ListEnd, <<>>, <<>>)}

\* k sections one inside the other
Nested(k) == [i \in 1..(2 * k) |-> IF i <= k THEN Element(SectionStart, <<1>>, <<>>)
                                   ELSE Element(SectionEnd, <<>>, <<>>)]

Plain(parsed) == [i \in DOMAIN parsed |-> Element(parsed[i].type, parsed[i].name, parsed[i].value)]

\* A message is read as it was written, with the depths of its sections, and
\* exactly when sections and lists nest (ParseViciMessage, the AddVici writers).
ASSUME WrittenIsRead ==
    \A s \in UpTo(SomeElements, 4) \cup {Nested(k) : k \in 0..(MaxDepth + 1)} :
        LET b == MessageOf(s)
            r == ParseViciMessage(b.data)
        IN  b.ok => /\ r.ok <=> Accepted(s)
                    /\ r.ok => Plain(r.elements) = s /\ \A i \in DOMAIN s : r.elements[i].depth = DepthOf(s, i)

\* Bytes that are accepted are the bytes that would be written for what was
\* read: no two encodings of one message (ReadViciName, ReadViciValue).
ASSUME ReadIsWritten ==
    \A m \in UpTo(0..(Radix - 1), 4) \cup {<<3, 1, 7>> \o v : v \in UpTo(0..2, 5)} :
        LET r == ParseViciMessage(m) IN r.ok => MessageOf(Plain(r.elements)).data = m

\* A packet is decoded to what it was built from, or refused because its kind
\* has no message (BuildViciNamedPacket, DecodeViciPacket).
ASSUME PacketIsRead ==
    \A type \in {0, 3, 4, 7}, name \in {<<1>>, <<6, 6>>}, m \in UpTo({0, 3}, 2) :
        LET r == DecodeViciPacket(BuildViciNamedPacket(type, name, m).data)
        IN  /\ r.ok <=> (type \in Bare => m = <<>>)
            /\ r.ok => r.type = type /\ r.name = name /\ r.message = m

\* The storage holds the data and ends at the segment length (ReserveViciBuffer).
ASSUME StorageSuffices ==
    \A have \in 0..MaxSegment, more \in 0..(MaxSegment + 1), capacity \in {0} \cup FirstCapacity..MaxSegment :
        have <= capacity =>
            LET b == AppendViciBuffer([ok |-> TRUE, data |-> [i \in 1..have |-> 0], capacity |-> capacity],
                                      [i \in 1..more |-> 1])
            IN  /\ b.ok <=> have + more <= MaxSegment
                /\ Len(b.data) <= b.capacity /\ b.capacity <= MaxSegment

-----------------------------------------------------------------------------
(* Lists of SAs.  A case is what charon says of an SA and the entry it     *)
(* stands for; charon reports one IKE SA per event (external).             *)

Selectors(name, l) == AddConnectionList(name, [i \in DOMAIN l |-> [text |-> l[i]]])
Texts(l) == [i \in DOMAIN l |-> Text(l[i])]

IkeCases ==
    {[says |-> <<Pair("uniqueid", Number(4)), Pair("state", Text("ESTABLISHED")),
                 Pair("encr-alg", Text("AES_CBC")), Pair("encr-keysize", Number(256)),
                 Pair("rekey-time", Number(9)), Pair("tasks", Long)>>,
      fields |-> [uniqueid |-> Number(4), state |-> Text("ESTABLISHED")]
                 @@ ("rekey-time" :> Number(9000)),
      proposal |-> <<Text("AES_CBC"), Number(256)>>],
     [says |-> <<Pair("initiator", Number(1)), Pair("nat-local", Text("no"))>>,
      fields |-> ("initiator" :> Text("yes")) @@ ("nat-local" :> Text("no")),
      proposal |-> <<>>]}

\* The second child has no name of its own, and a section within.
ChildCases ==
    {[says |-> <<Pair("name", Text("n")), Pair("reqid", Number(7)), Pair("mode", Text("TUNNEL")),
                 Pair("install-time", Number(2))>>
               \o Selectors("local-ts", <<"l">>) \o Selectors("remote-ts", <<"r", "s">>),
      fields |-> [name |-> Text("n"), reqid |-> Number(7), mode |-> Text("tunnel")]
                 @@ ("install-time" :> Number(2000)),
      localTs |-> <<"l">>, remoteTs |-> <<"r", "s">>],
     [says |-> <<Pair("state", Text("REKEYED")), Section("more"), Pair("state", Long), EndSection,
                 Pair("mode", Text("odd"))>>,
      fields |-> [name |-> Text("k"), state |-> Text("REKEYED"), mode |-> Text("unknown")],
      localTs |-> <<>>, remoteTs |-> <<>>]}

RECURSIVE Joined(_)
Joined(l) == IF l = <<>> THEN <<>> ELSE Head(l) \o Joined(Tail(l))

\* Another section of the same shape stands beside the children.
SaEvent(sa) ==
    <<Section(sa.name)>> \o sa.ike.says
    \o <<Section("vips"), Section("k"), Pair("state", Long), Pair("reqid", Number(1)),
         EndSection, EndSection, Section("child-sas")>>
    \o Joined([i \in DOMAIN sa.children |->
                  <<Section("k")>> \o sa.children[i].says \o <<EndSection>>])
    \o <<EndSection, EndSection>>

IkeEntry(sa) ==
    [NewInfo(sa.name, sa.ike.fields @@ [name |-> Text(sa.name)]) EXCEPT !.proposal = sa.ike.proposal]
ChildEntries(sa) ==
    [i \in DOMAIN sa.children |->
        [NewInfo(sa.name, sa.children[i].fields) EXCEPT
            !.localTs = Texts(sa.children[i].localTs), !.remoteTs = Texts(sa.children[i].remoteTs)]]

SomeSas == [name : {"a", "b"}, ike : IkeCases, children : UpTo(ChildCases, 1)]
           \cup [name : {"a"}, ike : IkeCases, children : [1..2 -> ChildCases]]

\* A list of SAs holds an entry for each SA of the daemon and nothing else: no
\* field of one ends up in another, and a child has the name of its own IKE SA,
\* whichever lists are asked for (CollectSaElement, QueryIpsecSas).
ASSUME SasListed ==
    \A sas \in UpTo(SomeSas, 2), want \in {<<TRUE, TRUE>>, <<TRUE, FALSE>>, <<FALSE, TRUE>>} :
        LET q == QueryIpsecSas([i \in DOMAIN sas |-> SaEvent(sas[i])], want[1], want[2])
        IN  /\ q.ok
            /\ q.ike = IF want[1] THEN [i \in DOMAIN sas |-> IkeEntry(sas[i])] ELSE <<>>
            /\ q.child = IF want[2] THEN Joined([i \in DOMAIN sas |-> ChildEntries(sas[i])]) ELSE <<>>

Malformed ==
    {Pair("uniqueid", Text("x")), Pair("uniqueid", Number(MaxNumber + 1)), Pair("state", Long),
     Pair("initiator", Text("maybe")), Pair("established", Number((MaxNumber \div 1000) + 1)),
     Pair("encr-keysize", Number(0)), Pair("encr-keysize", Number(MaxShort + 1)), Pair("dh-group", Long), Element(ListItem, "", Text("x")),
     EndSection, Section("open")}

\* One malformed element, wherever it stands among the fields of an IKE SA,
\* fails the whole query (ParseSaSeconds, ParseSaBoolean, AppendSaKeySize).
ASSUME MalformedFails ==
    \A m \in Malformed, sa \in [name : {"a"}, ike : IkeCases, children : {<<>>}] :
        \A at \in 1..Len(sa.ike.says) :
            LET says == SubSeq(sa.ike.says, 1, at - 1) \o <<m>> \o SubSeq(sa.ike.says, at, Len(sa.ike.says))
            IN  ~QueryIpsecSas(<<SaEvent([sa EXCEPT !.ike.says = says]), SaEvent(sa)>>, TRUE, TRUE).ok

-----------------------------------------------------------------------------
(* Connections                                                             *)

Esp(l) == [text |-> "esp", keys |-> l]
SomeConfigs ==
    [name : {"c"}, childName : {"k"}, localId : {"i"}, remoteId : {"", "j"},
     localAddrs : {<<[text |-> "1"]>>}, remoteAddrs : {<<>>, <<[text |-> "2"], [text |-> "3"]>>},
     ike : {<<[text |-> "p"]>>}, esp : {<<Esp(<<"aes", "ecp", "esn">>)>>, <<Esp(<<"aes", "noesn">>)>>},
     localTs : {<<[text |-> "l"]>>}, remoteTs : {<<[text |-> "r"]>>},
     localAuth : {"psk"}, remoteAuth : {"psk"}, mode : {"tunnel", "beet"}, esn : {"auto", "enabled", "disabled"}, pfs : BOOLEAN,
     mobike : {TRUE}, fragmentation : {FALSE}, encap : {FALSE}, childless : {TRUE},
     dpdDelay : {0}, dpdTimeout : {1}, rekeyTime : {0, 1, 1000, 1001}, lifetime : {0, MaxNumber - 999, MaxNumber - 998},
     childRekeyTime : {0}, childLifetime : {5}]

\* charon lists a connection under numbered rounds and with bare seconds (external).
ListedAs(e) ==
    CASE e.type = SectionStart /\ e.name \in {"local", "remote"} -> [e EXCEPT !.name = IF @ = "local" THEN "local-1" ELSE "remote-1"]
      [] e.value.kind = "seconds" -> [e EXCEPT !.value = Number(@.number)]
      [] OTHER -> e

RoundedUp(ms, listed) == listed.number >= ms /\ listed.number < ms + 1000 /\ listed.number % 1000 = 0

\* The request for a valid configuration, where its times can be said, is a message the parser accepts, and
\* a daemon that lists what it was told returns the configuration, its times
\* rounded up to seconds (BuildConnectionMessage, CollectConnectionElement).
ASSUME LoadedIsListed ==
    \A c \in {d \in SomeConfigs : ValidateViciConnectionConfigInternal(d, {"ecp"})
                                    /\ BuildConnectionMessage(d) # <<>>} :
        LET s == BuildConnectionMessage(c)
            q == GetIpsecConnections([i \in 1..2 |-> [j \in DOMAIN s |-> ListedAs(s[j])]])
        IN  /\ Accepted(s) /\ q.ok /\ Len(q.items) = 2
            /\ \A i \in 1..2 :
                  LET it == q.items[i] IN
                  /\ it.name = c.name /\ it.children = <<Text(c.childName)>>
                  /\ it.localId = Text(c.localId) /\ it.remoteId = Text(c.remoteId)
                  /\ it.localAddrs = [k \in DOMAIN c.localAddrs |-> Text(c.localAddrs[k].text)]
                  /\ it.remoteAddrs = [k \in DOMAIN c.remoteAddrs |-> Text(c.remoteAddrs[k].text)]
                  /\ RoundedUp(c.rekeyTime, it.rekeyTime) /\ RoundedUp(c.lifetime, it.reauthTime)
=============================================================================
