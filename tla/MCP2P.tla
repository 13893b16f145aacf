-------------------------------- MODULE MCP2P -------------------------------
(* Two or three nodes on a chain g b1 b2 b3 and a rival a1.                 *)
EXTENDS P2P, TLC

CONSTANTS n1, n2, n3, g, b1, b2, b3, a1

mcParentOf == (g :> NoBlock) @@ (b1 :> g) @@ (b2 :> b1) @@ (b3 :> b2) @@ (a1 :> g)

Everywhere(b) == [n \in Nodes |-> b]
Nothing == Everywhere({})

Idle == [ dials |-> [pair \in Nodes \X Nodes |-> 0], overlap |-> FALSE, disconnects |-> 0,
          losses |-> 0, raises |-> 0, syncs |-> 0, mines |-> Nothing ]

\* A node far behind one that goes on mining; their connection is lost and
\* made again.
Behind ==
    [ start |-> [Everywhere(g) EXCEPT ![n2] = b2], refuses |-> Nothing,
      budget |-> [Idle EXCEPT !.dials[<<n1, n2>>] = 3, !.losses = 2, !.mines[n2] = {b3}] ]

\* A node on a branch of its own dials and asks for a sync.
Forked ==
    [ start |-> (n1 :> a1) @@ (n2 :> b2) @@ (n3 :> g), refuses |-> Nothing,
      budget |-> [Idle EXCEPT !.dials[<<n1, n2>>] = 1, !.syncs = 1, !.mines[n2] = {b3}] ]

\* Blocks on their way through a node to another, while both connect to it.
Relayed ==
    [ start |-> Everywhere(g), refuses |-> Nothing,
      budget |-> [Idle EXCEPT !.dials[<<n1, n2>>] = 1, !.dials[<<n3, n2>>] = 1,
                              !.mines[n1] = {b1, b2}] ]

\* A user disconnects and connects again.
Parted ==
    [ start |-> Everywhere(g), refuses |-> Nothing,
      budget |-> [Idle EXCEPT !.dials[<<n1, n2>>] = 2, !.disconnects = 1] ]

\* A node does not take the last block of another.
Stubborn ==
    [ start |-> Everywhere(g), refuses |-> [Nothing EXCEPT ![n1] = {b2}],
      budget |-> [Idle EXCEPT !.dials[<<n1, n2>>] = 1, !.mines[n2] = {b1, b2}] ]

\* A node does not take a block in the middle of the chain of another, which a
\* third follows.
Refusing ==
    [ start |-> [Everywhere(g) EXCEPT ![n2] = b3],
      refuses |-> [Nothing EXCEPT ![n1] = {b2}],
      budget |-> [Idle EXCEPT !.dials[<<n1, n2>>] = 1, !.dials[<<n3, n2>>] = 1] ]

\* A user disconnects from a peer whose handshake is still to be read, and a
\* write may meet the loss of a connection.
Disconnecting ==
    [ start |-> [Everywhere(g) EXCEPT ![n2] = b2], refuses |-> Nothing,
      budget |-> [Idle EXCEPT !.dials[<<n1, n2>>] = 2, !.disconnects = 1, !.raises = 1] ]

\* Two nodes dial each other; a connection is lost.
Mutual ==
    [ start |-> [Everywhere(g) EXCEPT ![n2] = b2], refuses |-> Nothing,
      budget |-> [Idle EXCEPT !.dials[<<n1, n2>>] = 1, !.dials[<<n2, n1>>] = 1,
                              !.overlap = TRUE, !.losses = 1, !.raises = 1] ]

\* Two nodes dial each other while one of them mines.
Growing ==
    [ start |-> [Everywhere(g) EXCEPT ![n2] = b2], refuses |-> Nothing,
      budget |-> [Idle EXCEPT !.dials[<<n1, n2>>] = 1, !.dials[<<n2, n1>>] = 1,
                              !.overlap = TRUE, !.mines[n2] = {b3}] ]

mcScenarios ==
    { Behind, Forked, Relayed, Parted, Stubborn, Refusing, Disconnecting, Mutual, Growing }

\* What is not so.
mcDisconnecting == { Disconnecting }
NobodyIsAGhost == Ghosts = {}
NoSyncIsStranded == Stranded = {}

mcRefusing == { Refusing }
EveryConversationEnds == <>[]Quiet
=============================================================================
