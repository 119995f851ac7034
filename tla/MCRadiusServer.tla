--------------------------- MODULE MCRadiusServer ---------------------------
(* An instance of RadiusServer for TLC. *)
EXTENDS RadiusServer, TLC

CONSTANTS d1, d2, a1, a2, s1, s2, m1, g1, g2, p1, p2

MCDevices == {d1, d2}
MCAddresses == {a1, a2}
MCSecrets == {s1, s2}
MCMacs == {m1}
MCGroups == {g1, g2}
MCPolicyNames == {p1, p2}
MCVlans == {10}

\* one user name that spells a MAC, in one byte
MCUserNameMac == [u \in {<<77>>} |-> m1]

Datagram(length, tail) ==
    [whole |-> TRUE, code |-> CODE_ACCESS_REQUEST, identifier |-> 7,
     length |-> length, authenticator |-> "request", tail |-> tail]

\* a request with a MAC, one without a user name, and what is no packet
MCDatagrams ==
    {[datagram |-> Datagram(HeaderSize + Len(t), t), from |-> a1] :
        t \in {<<1, 3, 77>>, <<>>, <<1, 4, 77>>}}

\* every tail of at most four bytes of 0..3, with every length around its own,
\* and the ends of the length field
MCParserInputs ==
    {Datagram(HeaderSize + n, t) :
        n \in -1..5, t \in UNION {[1..k -> 0..3] : k \in 0..4}}
    \cup {Datagram(n, <<>>) : n \in {0, MaxPacketSize, MaxPacketSize + 1}}
    \cup {[Datagram(HeaderSize, <<>>) EXCEPT !.whole = FALSE]}

\* one device, and one client in a group whose policy assigns a VLAN
Registered(spelling) ==
    {[heap |-> <<[address |-> a1, secret |-> s1],
                 [group |-> g1],
                 [name |-> p1, group |-> g1,
                  decision |-> "accept_with_vlan", vlan |-> 10]>>,
      devices |-> [n \in {d1} |-> 1],
      clients |-> [k \in {<<m1, spelling>>} |-> 2],
      policies |-> [n \in {p1} |-> 3],
      groupIndex |-> [g \in {g1} |-> p1]]}

\* the client was registered in upper case since the start, or loaded
MCRegistered == Registered("upper")
MCLoaded == Registered("lower")
=============================================================================
