------------------------- MODULE MCPeerRegistration -------------------------
(***************************************************************************)
(* Two responders for a table of two, and addresses of two bytes of two    *)
(* bits.  The first may register two selectors; that of the second lies    *)
(* inside the first of them.                                               *)
(***************************************************************************)
EXTENDS PeerRegistration

Net(bytes, prefix) == [family |-> 4, bytes |-> bytes, prefix |-> prefix]

MCSelectorsOf == [a |-> {Net(<<0, 0>>, 1), Net(<<2, 0>>, 3)},
                  b |-> {Net(<<1, 2>>, 4)}]

\* The operator moves a peer to the second responder's address or to one
\* nobody has, renames it, or gives it another selector or none.
MCTyped == [addr |-> {"b", "none"}, id |-> {NoIds}, name |-> {NoIds},
            ts |-> {Net(<<0, 0>>, 1), NoSelector}]

\* A file for the second responder, written without a registration
MCFiles == {[addr |-> "b", id |-> NoIds, name |-> NoIds, ts |-> Net(<<1, 2>>, 4)]}

\* Two selectors overlap exactly when some address lies in both.
ASSUME OverlapIsIntersection ==
    LET Byte == 0..(2^ByteBits - 1)
        Bit(b, k) == (b \div 2^(ByteBits - k)) % 2
        In(h, s) == \A n \in 1..s.prefix :
                       LET i == ((n - 1) \div ByteBits) + 1  k == ((n - 1) % ByteBits) + 1
                       IN  Bit(h[i], k) = Bit(s.bytes[i], k)
        Nets == {Net(<<x, y>>, n) : x \in Byte, y \in Byte, n \in 0..(2 * ByteBits)}
    IN  \A l, r \in Nets :
          AreNativeAppTrafficSelectorsOverlapping(l, r)
              <=> \E x, y \in Byte : In(<<x, y>>, l) /\ In(<<x, y>>, r)
=============================================================================
