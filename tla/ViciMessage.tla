----------------------------- MODULE ViciMessage -----------------------------
(***************************************************************************)
(* The bytes of a vici message: the writers of                             *)
(* src/src/ike/vici/vici_packet.c and the parser of vici_parser.c.  A name *)
(* carries its length in one byte, a value in two; a byte is a number      *)
(* below Radix.  A buffer remembers in ok whether an append has failed:    *)
(* every writer stops at the first error.                                  *)
(***************************************************************************)
EXTENDS Integers, Sequences, FiniteSets

CONSTANTS Radix,            \* 256: the values of a byte
          MaxDepth,         \* VICI_MAX_SECTION_DEPTH
          MaxSegment,       \* VICI_MAX_SEGMENT_LENGTH
          FirstCapacity     \* 64: the storage a buffer begins with

ASSUME ViciMessageAssumption ==
    /\ Radix \in Nat /\ Radix > 7 /\ MaxDepth \in Nat
    /\ FirstCapacity \in Nat \ {0} /\ MaxSegment \in Nat /\ FirstCapacity <= MaxSegment

-----------------------------------------------------------------------------
(* Elements                                                                *)

SectionStart == 1
SectionEnd == 2
KeyValue == 3
ListStart == 4
ListItem == 5
ListEnd == 6

Element(type, name, value) == [type |-> type, name |-> name, value |-> value]

-----------------------------------------------------------------------------
(* Writing                                                                 *)

\* The storage doubles, to the segment length at most, until the data fit.
RECURSIVE Grown(_, _)
Grown(capacity, required) ==
    IF capacity >= required THEN capacity
    ELSE Grown(IF capacity > MaxSegment \div 2 THEN MaxSegment ELSE 2 * capacity, required)

ReserveViciBuffer(b, additional) ==
    LET required == Len(b.data) + additional IN
    IF ~b.ok \/ required > MaxSegment THEN [b EXCEPT !.ok = FALSE]
    ELSE IF b.capacity >= required THEN b
    ELSE [b EXCEPT !.capacity = Grown(IF @ = 0 THEN FirstCapacity ELSE @, required)]

InitializeViciBuffer(initial) ==
    ReserveViciBuffer([ok |-> TRUE, data |-> <<>>, capacity |-> 0], initial)

AppendViciBuffer(b, bytes) ==
    LET r == ReserveViciBuffer(b, Len(bytes))
    IN  IF r.ok THEN [r EXCEPT !.data = @ \o bytes] ELSE r

AppendViciName(b, name) ==
    IF Len(name) \in 1..(Radix - 1)
    THEN AppendViciBuffer(AppendViciBuffer(b, <<Len(name)>>), name)
    ELSE [b EXCEPT !.ok = FALSE]

\* The length of a value in network byte order
NetworkLength(value) == <<Len(value) \div Radix, Len(value) % Radix>>

AddViciSectionStart(b, name) == AppendViciName(AppendViciBuffer(b, <<SectionStart>>), name)
AddViciSectionEnd(b) == AppendViciBuffer(b, <<SectionEnd>>)

AddViciKeyValue(b, name, value) ==
    IF Len(value) >= Radix * Radix THEN [b EXCEPT !.ok = FALSE]
    ELSE AppendViciBuffer(
            AppendViciBuffer(AppendViciName(AppendViciBuffer(b, <<KeyValue>>), name),
                             NetworkLength(value)), value)

AddViciListStart(b, name) == AppendViciName(AppendViciBuffer(b, <<ListStart>>), name)

AddViciListItem(b, value) ==
    IF Len(value) >= Radix * Radix THEN [b EXCEPT !.ok = FALSE]
    ELSE AppendViciBuffer(
            AppendViciBuffer(AppendViciBuffer(b, <<ListItem>>), NetworkLength(value)), value)

AddViciListEnd(b) == AppendViciBuffer(b, <<ListEnd>>)

AddElement(b, e) ==
    CASE e.type = SectionStart -> AddViciSectionStart(b, e.name)
      [] e.type = SectionEnd -> AddViciSectionEnd(b)
      [] e.type = KeyValue -> AddViciKeyValue(b, e.name, e.value)
      [] e.type = ListStart -> AddViciListStart(b, e.name)
      [] e.type = ListItem -> AddViciListItem(b, e.value)
      [] e.type = ListEnd -> AddViciListEnd(b)

\* The message of a sequence of elements
RECURSIVE MessageOf(_)
MessageOf(elements) ==
    IF elements = <<>> THEN InitializeViciBuffer(1)
    ELSE AddElement(MessageOf(SubSeq(elements, 1, Len(elements) - 1)), elements[Len(elements)])

-----------------------------------------------------------------------------
(* Reading.  An offset counts the bytes already read.                      *)

NothingRead == [ok |-> FALSE, bytes |-> <<>>, offset |-> 0]

ReadViciName(m, offset) ==
    IF offset >= Len(m) THEN NothingRead
    ELSE LET n == m[offset + 1] IN
         IF n = 0 \/ n > Len(m) - (offset + 1) THEN NothingRead
         ELSE [ok |-> TRUE, bytes |-> SubSeq(m, offset + 2, offset + 1 + n),
               offset |-> offset + 1 + n]

ReadViciValue(m, offset) ==
    IF 2 > Len(m) - offset THEN NothingRead
    ELSE LET n == Radix * m[offset + 1] + m[offset + 2] IN
         IF n > Len(m) - (offset + 2) THEN NothingRead
         ELSE [ok |-> TRUE, bytes |-> SubSeq(m, offset + 3, offset + 2 + n),
               offset |-> offset + 2 + n]

\* What the state of the parser allows next: a list holds items only.
Allowed(type, depth, listOpen) ==
    CASE type = SectionStart -> ~listOpen /\ depth < MaxDepth
      [] type = SectionEnd -> ~listOpen /\ depth > 0
      [] type \in {KeyValue, ListStart} -> ~listOpen
      [] type \in {ListItem, ListEnd} -> listOpen
      [] OTHER -> FALSE

\* The elements from an offset on, each with the depth reported for it.
RECURSIVE ParseFrom(_, _, _, _, _)
ParseFrom(m, offset, depth, listOpen, out) ==
    IF offset = Len(m) THEN [ok |-> ~listOpen /\ depth = 0, elements |-> out]
    ELSE LET type == m[offset + 1]
             named == type \in {SectionStart, KeyValue, ListStart}
             valued == type \in {KeyValue, ListItem}
             name == IF named THEN ReadViciName(m, offset + 1)
                     ELSE [ok |-> TRUE, bytes |-> <<>>, offset |-> offset + 1]
             value == IF valued /\ name.ok THEN ReadViciValue(m, name.offset)
                      ELSE [name EXCEPT !.bytes = <<>>]
             inner == CASE type = SectionStart -> depth + 1
                        [] type = SectionEnd -> depth - 1
                        [] OTHER -> depth
             at == IF type = SectionStart THEN inner ELSE depth
         IN  IF ~Allowed(type, depth, listOpen) \/ ~value.ok
             THEN [ok |-> FALSE, elements |-> out]
             ELSE ParseFrom(m, value.offset, inner,
                            type = ListStart \/ (listOpen /\ type # ListEnd),
                            Append(out, [type |-> type, name |-> name.bytes,
                                         value |-> value.bytes, depth |-> at]))

ParseViciMessage(m) == ParseFrom(m, 0, 0, FALSE, <<>>)

\* The same for elements that are not yet bytes: the depth before element i,
\* the depth reported for it, and the messages that are accepted.
CountOf(s, n, type) == Cardinality({i \in 1..n : s[i].type = type})
DepthBefore(s, i) == CountOf(s, i - 1, SectionStart) - CountOf(s, i - 1, SectionEnd)
DepthOf(s, i) == CountOf(s, i, SectionStart) - CountOf(s, i - 1, SectionEnd)
ListOpenBefore(s, i) == CountOf(s, i - 1, ListStart) > CountOf(s, i - 1, ListEnd)
Accepted(s) ==
    /\ \A i \in 1..Len(s) : Allowed(s[i].type, DepthBefore(s, i), ListOpenBefore(s, i))
    /\ DepthBefore(s, Len(s) + 1) = 0 /\ ~ListOpenBefore(s, Len(s) + 1)

-----------------------------------------------------------------------------
(* Packets                                                                 *)

Named == {0, 3, 4, 7}       \* a command request, event (un)registration, an event
Bare == {2, 3, 4, 5, 6}     \* packets without a message

BuildViciNamedPacket(type, name, message) ==
    AppendViciBuffer(AppendViciName(AppendViciBuffer(InitializeViciBuffer(FirstCapacity), <<type>>),
                                    name), message)

DecodeViciPacket(p) ==
    LET name == IF p[1] \in Named THEN ReadViciName(p, 1)
                ELSE [ok |-> TRUE, bytes |-> <<>>, offset |-> 1]
    IN  IF p = <<>> \/ p[1] > 7 \/ ~name.ok \/ (p[1] \in Bare /\ name.offset # Len(p))
        THEN [ok |-> FALSE, type |-> 0, name |-> <<>>, message |-> <<>>]
        ELSE [ok |-> TRUE, type |-> p[1], name |-> name.bytes,
              message |-> SubSeq(p, name.offset + 1, Len(p))]
=============================================================================
