----------------------------- MODULE P2PProofs ------------------------------
(***************************************************************************)
(* Who a server believes it talks to, for any number of nodes, connections *)
(* and blocks: every peer that is listed is read by the task that will     *)
(* take it off the list, or its connection has ended, and that a listed    *)
(* peer is no longer read is the doing of a write that met a loss.         *)
(***************************************************************************)
EXTENDS P2P, FiniteSetTheorems, NaturalsInduction, WellFoundedInduction, TLAPS

----------------------------------------------------------------------------
(* Counting.                                                               *)

\* A non-empty set of naturals has a least element.
LEMMA LeastNatural == \A T \in SUBSET Nat : T # {} => \E m \in T : \A k \in T : m <= k
<1>1. IsWellFoundedOn(OpToRel(<, Nat), Nat)
  BY NatLessThanWellFounded
<1>2. SUFFICES ASSUME NEW T \in SUBSET Nat, T # {}
               PROVE  \E m \in T : \A k \in T : m <= k
  OBVIOUS
<1>3. PICK m \in T : \A k \in T : ~(<<k, m>> \in OpToRel(<, Nat))
  BY <1>1, <1>2, WFMin
<1>4. \A k \in T : ~(k < m)
  BY <1>3, <1>2 DEF OpToRel
<1> QED BY <1>4, <1>2

\* What holds at 0 and goes on holding holds at the last number.
LEMMA ReachesLast ==
    ASSUME NEW last \in Nat, NEW S, 0 \in S,
           \A n \in 0 .. last : n # last /\ n \in S => n + 1 \in S
    PROVE  last \in S
<1> DEFINE Missing == {n \in 0 .. last : n \notin S}
<1>1. SUFFICES ASSUME last \notin S PROVE FALSE
  OBVIOUS
<1>2. PICK n \in Missing : \A m \in Missing : n <= m
  <2>1. Missing \in SUBSET Nat /\ Missing # {}
    BY <1>1
  <2> HIDE DEF Missing
  <2> QED BY <2>1, LeastNatural
<1>3. n # 0 /\ n - 1 \in 0 .. last /\ n - 1 # last /\ (n - 1) + 1 = n /\ ~(n <= n - 1)
  BY <1>2
<1>4. n - 1 \in S
  BY <1>2, <1>3
<1>5. n \in S
  BY <1>3, <1>4
<1> QED BY <1>2, <1>5

----------------------------------------------------------------------------
(* Messages on their way.                                                  *)

\* A handshake carries the name of the node that sent it.
FromPeer(m, n) ==
    /\ m.type \in {"handshake", "chain_stream_request", "chain_request", "chain_chunk", "block"}
    /\ m.type = "handshake" => m.from = n /\ n \in Nodes

\* Messages that the node n sent, and messages with the connections they go to.
MailOf(s, n) == \E S : s \in Seq(S) /\ \A m \in S : FromPeer(m, n)
SentBy(out, n) == \E S : out \in Seq(S) /\ \A pair \in S : FromPeer(pair[2], n)

LEMMA NoMail == ASSUME NEW n PROVE MailOf(<< >>, n) /\ SentBy(<< >>, n)
<1> DEFINE none == << >>
<1>1. none \in Seq({})
  OBVIOUS
<1> HIDE DEF none
<1>2. MailOf(none, n)
  BY <1>1 DEF MailOf
<1>3. SentBy(none, n)
  BY <1>1 DEF SentBy
<1> QED BY <1>2, <1>3 DEF none

LEMMA MailIsRead ==
    ASSUME NEW s, NEW n, MailOf(s, n), s # << >>
    PROVE  FromPeer(Head(s), n) /\ MailOf(Tail(s), n)
<1>1. PICK S : s \in Seq(S) /\ \A m \in S : FromPeer(m, n)
  BY DEF MailOf
<1>2. Head(s) \in S /\ Tail(s) \in Seq(S)
  BY <1>1
<1> QED BY <1>1, <1>2 DEF MailOf

LEMMA MailArrives ==
    ASSUME NEW s, NEW t, NEW n, MailOf(s, n), MailOf(t, n)
    PROVE  MailOf(s \o t, n)
<1>1. PICK S : s \in Seq(S) /\ \A m \in S : FromPeer(m, n)
  BY DEF MailOf
<1>2. PICK T : t \in Seq(T) /\ \A m \in T : FromPeer(m, n)
  BY DEF MailOf
<1>3. s \in Seq(S \cup T) /\ t \in Seq(S \cup T)
  BY <1>1, <1>2
<1>4. s \o t \in Seq(S \cup T)
  BY <1>3
<1> QED BY <1>1, <1>2, <1>4 DEF MailOf

LEMMA OneIsSent ==
    ASSUME NEW out, NEW n, SentBy(out, n), NEW c, NEW m, FromPeer(m, n)
    PROVE  SentBy(Append(out, <<c, m>>), n)
<1>1. PICK S : out \in Seq(S) /\ \A pair \in S : FromPeer(pair[2], n)
  BY DEF SentBy
<1> DEFINE T == S \cup {<<c, m>>}
<1>2. Append(out, <<c, m>>) \in Seq(T)
  BY <1>1
<1>3. \A pair \in T : FromPeer(pair[2], n)
  BY <1>1
<1> QED BY <1>2, <1>3 DEF SentBy

NextMail(d, out, f, n) ==
    IF n = 0
    THEN << >>
    ELSE IF out[n][1] = d THEN Append(f[n - 1], out[n][2]) ELSE f[n - 1]

\* The recursion of MessagesOn has a solution.
LEMMA MessagesOnSolves ==
    ASSUME NEW d, NEW out, Len(out) \in Nat
    PROVE  \E f : /\ f = [n \in 0 .. Len(out) |-> NextMail(d, out, f, n)]
                  /\ MessagesOn(d, out) = f[Len(out)]
<1> DEFINE Next_(f, n) == NextMail(d, out, f, n)
           Solves(m, f) == f = [n \in 0 .. m |-> Next_(f, n)]
           Unsolved == {m \in Nat : ~\E f : Solves(m, f)}
<1>1. Unsolved = {}
  <2>1. SUFFICES ASSUME Unsolved # {} PROVE FALSE
    OBVIOUS
  <2>2. PICK m \in Unsolved : \A k \in Unsolved : m <= k
    <3>1. Unsolved \in SUBSET Nat
      OBVIOUS
    <3> HIDE DEF Unsolved
    <3> QED BY <2>1, <3>1, LeastNatural
  <2>3. m \in Nat
    OBVIOUS
  <2>4. m # 0
    <3> DEFINE f0 == [n \in 0 .. 0 |-> << >>]
    <3>1. \A n \in 0 .. 0 : Next_(f0, n) = << >>
      BY DEF NextMail
    <3> HIDE DEF Next_
    <3>2. Solves(0, f0)
      BY <3>1
    <3> QED BY <3>2
  <2>5. PICK g : Solves(m - 1, g)
    <3>1. m - 1 \in Nat /\ ~(m <= m - 1)
      BY <2>3, <2>4
    <3>2. m - 1 \notin Unsolved
      BY <3>1, <2>2
    <3> QED BY <3>1, <3>2
  <2> DEFINE f == [n \in 0 .. m |-> IF n = m THEN Next_(g, m) ELSE g[n]]
  <2>6. \A n \in 0 .. m : Next_(f, n) = Next_(g, n)
    <3> TAKE n \in 0 .. m
    <3>1. n # 0 => f[n - 1] = g[n - 1]
      BY <2>3
    <3> HIDE DEF f
    <3> QED BY <3>1 DEF NextMail
  <2>7. \A n \in 0 .. m - 1 : g[n] = Next_(g, n)
    <3> HIDE DEF Next_
    <3> QED BY <2>5
  <2>8. \A n \in 0 .. m : f[n] = Next_(f, n)
    <3> HIDE DEF Next_
    <3> QED BY <2>3, <2>6, <2>7
  <2>9. Solves(m, f)
    <3> HIDE DEF Next_
    <3> QED BY <2>8
  <2> QED BY <2>9
<1>2. PICK f : Solves(Len(out), f)
  BY <1>1
<1> DEFINE h == CHOOSE f_1 : f_1 = [n \in 0 .. Len(out) |-> Next_(f_1, n)]
<1>3. MessagesOn(d, out) = h[Len(out)]
  BY DEF MessagesOn, NextMail
<1>4. h = [n \in 0 .. Len(out) |-> Next_(h, n)]
  <2> HIDE DEF Next_
  <2> QED BY <1>2
<1> QED BY <1>3, <1>4

LEMMA MessagesOnMail ==
    ASSUME NEW out, NEW n, SentBy(out, n), NEW d
    PROVE  MailOf(MessagesOn(d, out), n)
<1>1. PICK S : out \in Seq(S) /\ \A pair \in S : FromPeer(pair[2], n)
  BY DEF SentBy
<1>2. Len(out) \in Nat /\ \A i \in 1 .. Len(out) : out[i] \in S
  BY <1>1
<1>3. PICK f : /\ f = [i \in 0 .. Len(out) |-> NextMail(d, out, f, i)]
               /\ MessagesOn(d, out) = f[Len(out)]
  BY <1>2, MessagesOnSolves
<1>4. \A i \in 0 .. Len(out) : f[i] = NextMail(d, out, f, i)
  BY <1>3
<1> DEFINE last == Len(out)
           T == {pair[2] : pair \in S}
           Good == {i \in 0 .. last : f[i] \in Seq(T)}
<1>5. 0 \in Good
  <2> DEFINE none == << >>
  <2>1. f[0] = none
    BY <1>2, <1>4 DEF NextMail
  <2>2. none \in Seq(T)
    OBVIOUS
  <2> HIDE DEF none, T
  <2> QED BY <1>2, <2>1, <2>2
<1>6. ASSUME NEW i \in 0 .. last, i # last, i \in Good PROVE i + 1 \in Good
  <2> DEFINE k == i + 1
  <2>1. k \in 0 .. last /\ k \in 1 .. last /\ k # 0 /\ k - 1 = i
    BY <1>2, <1>6
  <2>2. out[k][2] \in T
    BY <1>2, <2>1
  <2>3. f[k] = IF out[k][1] = d THEN Append(f[i], out[k][2]) ELSE f[i]
    BY <1>4, <2>1 DEF NextMail
  <2> HIDE DEF T, k
  <2>4. f[i] \in Seq(T)
    BY <1>6
  <2>5. f[k] \in Seq(T)
    BY <2>2, <2>3, <2>4
  <2> QED BY <2>1, <2>5 DEF k
<1>7. last \in Good
  <2> HIDE DEF Good
  <2> QED BY <1>2, <1>5, <1>6, ReachesLast
<1> QED BY <1>1, <1>3, <1>7 DEF MailOf

\* The elements of a finite set, as a list.
LEMMA ListOfSet ==
    ASSUME NEW S, IsFiniteSet(S)
    PROVE  SetToSeq(S) \in Seq(S)
<1>1. Cardinality(S) \in Nat /\ ExistsBijection(1 .. Cardinality(S), S)
  BY FS_CardinalityType
<1>2. \E f \in [1 .. Cardinality(S) -> S] : IsInjective(f)
  BY <1>1 DEF ExistsBijection, Bijection, Injection, IsInjective
<1>3. SetToSeq(S) \in [1 .. Cardinality(S) -> S]
  BY <1>2 DEF SetToSeq
<1> QED BY <1>1, <1>3

----------------------------------------------------------------------------
(* What a handler leaves.                                                  *)

NodeFields == {"active", "sync", "stored", "tip", "orphans", "seen", "refuses"}
WorkFields == {"n", "key", "raising", "s", "out", "shut", "serve", "failed", "took"}

\* A sync that is active holds finitely many chunks.
IsEntry(entry) ==
    /\ "active" \in DOMAIN entry
    /\ entry.active => "chunks" \in DOMAIN entry /\ IsFiniteSet(entry.chunks)

IsSync(sync) == DOMAIN sync = Keys /\ \A k \in Keys : IsEntry(sync[k])

IsNode(s) ==
    /\ DOMAIN s = NodeFields
    /\ s.active \in [Keys -> Conns \cup {NoConn}]
    /\ IsSync(s.sync)

\* A handler at work; the losses its writes may meet are those of connections
\* that are closed.
IsWork(w) ==
    /\ DOMAIN w = WorkFields
    /\ w.n \in Nodes /\ w.raising \subseteq {c \in Conns : ~conn[c].open}
    /\ IsNode(w.s)
    /\ SentBy(w.out, w.n)

\* It goes on under the same name with the same peers, or fewer of them.
Leads(r, w) ==
    /\ IsWork(r)
    /\ r.n = w.n /\ r.key = w.key /\ r.took = w.took /\ r.raising = w.raising
    /\ \A k \in Keys : r.s.active[k] \in {w.s.active[k], NoConn}

LEMMA LeadsOn ==
    ASSUME NEW w, NEW v, NEW r, Leads(v, w), Leads(r, v)
    PROVE  Leads(r, w)
BY DEF Leads

LEMMA LeadsItself == ASSUME NEW w, IsWork(w) PROVE Leads(w, w)
BY DEF Leads

\* The fields that no theorem here is about.
LEMMA OtherFields ==
    ASSUME NEW w, IsWork(w), NEW x
    PROVE  Leads([w EXCEPT !.failed = x], w) /\ Leads([w EXCEPT !.serve = x], w)
<1>1. DOMAIN w = WorkFields /\ IsWork(w)
  BY DEF IsWork
<1>2. \A r : /\ DOMAIN r = WorkFields
             /\ r.n = w.n /\ r.key = w.key /\ r.raising = w.raising /\ r.took = w.took
             /\ r.s = w.s /\ r.out = w.out
             => Leads(r, w)
  BY <1>1 DEF Leads, IsWork
<1> DEFINE f == [w EXCEPT !.failed = x]
           s == [w EXCEPT !.serve = x]
<1>3. /\ DOMAIN f = WorkFields /\ f.n = w.n /\ f.key = w.key /\ f.raising = w.raising
      /\ f.took = w.took /\ f.s = w.s /\ f.out = w.out
  BY <1>1 DEF WorkFields
<1>4. /\ DOMAIN s = WorkFields /\ s.n = w.n /\ s.key = w.key /\ s.raising = w.raising
      /\ s.took = w.took /\ s.s = w.s /\ s.out = w.out
  BY <1>1 DEF WorkFields
<1> HIDE DEF f, s
<1>5. Leads(f, w) /\ Leads(s, w)
  BY <1>2, <1>3, <1>4
<1> QED BY <1>5 DEF f, s

LEMMA NewState ==
    ASSUME NEW w, IsWork(w), NEW s, IsNode(s)
    PROVE  LET r == [w EXCEPT !.s = s]
           IN  /\ IsWork(r) /\ r.s = s /\ r.n = w.n /\ r.key = w.key /\ r.took = w.took
               /\ r.raising = w.raising
               /\ s.active = w.s.active => Leads(r, w)
<1> DEFINE r == [w EXCEPT !.s = s]
<1>1. /\ DOMAIN r = WorkFields /\ r.n = w.n /\ r.key = w.key /\ r.raising = w.raising
      /\ r.s = s /\ r.out = w.out /\ r.took = w.took
  BY DEF IsWork, WorkFields
<1> HIDE DEF r
<1>2. IsWork(r)
  BY <1>1 DEF IsWork
<1> QED BY <1>1, <1>2 DEF Leads, r

LEMMA NewSync ==
    ASSUME NEW s, IsNode(s), NEW sync, IsSync(sync)
    PROVE  /\ IsNode([s EXCEPT !.sync = sync])
           /\ [s EXCEPT !.sync = sync].active = s.active
           /\ [s EXCEPT !.sync = sync].sync = sync
<1> DEFINE r == [s EXCEPT !.sync = sync]
<1>1. DOMAIN r = NodeFields /\ r.active = s.active /\ r.sync = sync
  BY DEF IsNode, NodeFields
<1> HIDE DEF r
<1> QED BY <1>1 DEF IsNode, r

LEMMA NewEntry ==
    ASSUME NEW sync, IsSync(sync), NEW k, NEW entry, IsEntry(entry)
    PROVE  IsSync([sync EXCEPT ![k] = entry])
<1> DEFINE r == [sync EXCEPT ![k] = entry]
<1>1. DOMAIN r = Keys /\ \A j \in Keys : r[j] = entry \/ r[j] = sync[j]
  BY DEF IsSync
<1> HIDE DEF r
<1>2. \A j \in Keys : IsEntry(r[j])
  BY <1>1 DEF IsSync
<1> QED BY <1>1, <1>2 DEF IsSync, r

\* A step of the sync with the peer k.
LEMMA EntryLeads ==
    ASSUME NEW w, IsWork(w), NEW k, NEW entry, IsEntry(entry)
    PROVE  Leads([w EXCEPT !.s.sync[k] = entry], w)
<1> DEFINE sync == [w.s.sync EXCEPT ![k] = entry]
           s == [w.s EXCEPT !.sync = sync]
<1>1. IsSync(sync)
  BY NewEntry DEF IsWork, IsNode
<1>2. IsNode(s) /\ s.active = w.s.active
  BY <1>1, NewSync DEF IsWork
<1>3. [w EXCEPT !.s.sync[k] = entry] = [w EXCEPT !.s = s]
  OBVIOUS
<1> HIDE DEF s
<1> QED BY <1>2, <1>3, NewState

LEMMA SendLeads ==
    ASSUME NEW w, IsWork(w), NEW peer, NEW m, FromPeer(m, w.n)
    PROVE  /\ Leads(Send(w, peer, m), w)
           /\ w.s.active[peer] \notin {NoConn} \cup w.raising =>
                Send(w, peer, m).failed = w.failed
<1>2. CASE w.s.active[peer] \in {NoConn} \cup w.raising
  BY <1>2, OtherFields DEF Send
<1>3. CASE w.s.active[peer] \notin {NoConn} \cup w.raising
  <2> DEFINE out == Append(w.out, <<w.s.active[peer], m>>)
             r == [w EXCEPT !.out = out]
  <2>1. SentBy(out, w.n)
    BY OneIsSent DEF IsWork
  <2>2. Send(w, peer, m) = r
    BY <1>3 DEF Send
  <2>3. /\ DOMAIN r = WorkFields /\ r.n = w.n /\ r.key = w.key /\ r.raising = w.raising
        /\ r.s = w.s /\ r.out = out /\ r.failed = w.failed /\ r.took = w.took
    BY DEF IsWork, WorkFields
  <2> HIDE DEF r, out
  <2>4. IsWork(r)
    BY <2>1, <2>3 DEF IsWork
  <2> QED BY <2>2, <2>3, <2>4 DEF Leads
<1> QED BY <1>2, <1>3

LEMMA KeysAreFinite == IsFiniteSet(Keys)
<1>1. IsFiniteSet(Conns)
  BY ConnsAssumption, FS_Interval DEF Conns
<1> QED BY <1>1, NodesAssumption, FS_Union DEF Keys

LEMMA BroadcastLeads ==
    ASSUME NEW w, IsWork(w), NEW m, FromPeer(m, w.n), NEW except
    PROVE  Leads(Broadcast(w, m, except), w)
<1> DEFINE peers == {k \in Keys \ except : w.s.active[k] # NoConn}
           lost == {k \in peers : w.s.active[k] \in w.raising}
           letters == {<<w.s.active[k], m>> : k \in peers \ lost}
           out == w.out \o SetToSeq(letters)
           active == [k \in Keys |-> IF k \in lost THEN NoConn ELSE w.s.active[k]]
           shut == w.shut \cup {w.s.active[k] : k \in lost}
           r == [w EXCEPT !.out = out, !.s.active = active, !.shut = shut]
<1>1. Broadcast(w, m, except) = r
  BY DEF Broadcast
<1>2. /\ DOMAIN w = WorkFields /\ IsNode(w.s) /\ SentBy(w.out, w.n)
      /\ w.n \in Nodes /\ w.raising \subseteq {c \in Conns : ~conn[c].open}
  BY DEF IsWork
<1>3. /\ active \in [Keys -> Conns \cup {NoConn}]
      /\ \A k \in Keys : active[k] \in {w.s.active[k], NoConn}
  BY <1>2 DEF IsNode
<1>4. IsFiniteSet(letters)
  <2>1. IsFiniteSet(Keys)
    BY KeysAreFinite
  <2>2. IsFiniteSet(peers \ lost)
    BY <2>1, FS_Subset
  <2> DEFINE called == peers \ lost
             letter == [k \in called |-> <<w.s.active[k], m>>]
  <2>3. letter \in Surjection(called, letters)
    <3>1. letters = {letter[k] : k \in called}
      OBVIOUS
    <3>2. letter \in [called -> letters]
      OBVIOUS
    <3> HIDE DEF called, letter, letters
    <3> QED BY <3>1, <3>2 DEF Surjection
  <2> HIDE DEF letter, letters, peers, lost
  <2> QED BY <2>2, <2>3, FS_Surjection DEF ExistsSurjection
<1>5. SentBy(out, w.n)
  <2>1. SetToSeq(letters) \in Seq(letters)
    BY <1>4, ListOfSet
  <2>2. \A pair \in letters : FromPeer(pair[2], w.n)
    OBVIOUS
  <2>3. PICK S : w.out \in Seq(S) /\ \A pair \in S : FromPeer(pair[2], w.n)
    BY <1>2 DEF SentBy
  <2> DEFINE more == SetToSeq(letters)
             T == S \cup letters
  <2> HIDE DEF letters
  <2>4. w.out \in Seq(T) /\ more \in Seq(T)
    BY <2>1, <2>3
  <2>5. \A pair \in T : FromPeer(pair[2], w.n)
    BY <2>2, <2>3
  <2> HIDE DEF more, T
  <2>6. w.out \o more \in Seq(T)
    BY <2>4
  <2> QED BY <2>5, <2>6 DEF SentBy, more
<1> HIDE DEF out, active, shut
<1>6. /\ DOMAIN r = WorkFields /\ r.n = w.n /\ r.key = w.key /\ r.raising = w.raising
      /\ r.out = out /\ r.s = [w.s EXCEPT !.active = active] /\ r.took = w.took
  BY <1>2 DEF WorkFields
<1>7. IsNode(r.s) /\ r.s.active = active
  <2>1. DOMAIN r.s = NodeFields /\ r.s.active = active /\ r.s.sync = w.s.sync
    BY <1>2, <1>6 DEF IsNode, NodeFields
  <2> QED BY <1>2, <1>3, <2>1 DEF IsNode
<1> HIDE DEF r
<1>8. IsWork(r)
  BY <1>2, <1>5, <1>6, <1>7 DEF IsWork
<1> QED BY <1>1, <1>3, <1>6, <1>7, <1>8 DEF Leads

LEMMA HandshakeIsOwn == ASSUME NEW n \in Nodes, NEW s PROVE FromPeer(Handshake(n, s), n)
BY DEF FromPeer, Handshake

LEMMA OthersAreNoHandshake ==
    ASSUME NEW n
    PROVE  /\ \A start : FromPeer(StreamRequest(start), n) /\ FromPeer(ChainRequest(start), n)
           /\ \A b : FromPeer(BlockMessage(b), n)
           /\ \A chain, start : FromPeer(ChunkOf(chain, start), n)
BY DEF FromPeer, StreamRequest, ChainRequest, BlockMessage, ChunkOf

LEMMA AdvertiseLeads ==
    ASSUME NEW w, IsWork(w), NEW except
    PROVE  Leads(Advertise(w, except), w)
BY BroadcastLeads, HandshakeIsOwn DEF Advertise, IsWork

LEMMA RequestStreamLeads ==
    ASSUME NEW w, IsWork(w), NEW peer, NEW start
    PROVE  /\ Leads(RequestStream(w, peer, start), w)
           /\ w.s.active[peer] \notin {NoConn} \cup w.raising =>
                RequestStream(w, peer, start).failed = w.failed
<1> DEFINE entry == [active |-> TRUE, expected |-> start, chunks |-> {}, accepted |-> FALSE]
           v == [w EXCEPT !.s.sync[peer] = entry]
<1>1. IsEntry(entry)
  BY FS_EmptySet DEF IsEntry
<1> HIDE DEF entry
<1>2. Leads(v, w)
  BY <1>1, EntryLeads
<1>3. v.failed = w.failed /\ v.raising = w.raising /\ v.s.active = w.s.active
  BY DEF IsWork, WorkFields, IsNode, NodeFields
<1>4. RequestStream(w, peer, start) = Send(v, peer, StreamRequest(start))
  BY DEF RequestStream, entry
<1> HIDE DEF v
<1>5. /\ Leads(Send(v, peer, StreamRequest(start)), v)
      /\ v.s.active[peer] \notin {NoConn} \cup v.raising =>
            Send(v, peer, StreamRequest(start)).failed = v.failed
  BY <1>2, SendLeads, OthersAreNoHandshake DEF Leads
<1> QED BY <1>2, <1>3, <1>4, <1>5, LeadsOn DEF Leads

LEMMA NoSyncIsEntry == IsEntry(NoSync)
BY DEF IsEntry, NoSync

LEMMA CompleteLeads ==
    ASSUME NEW w, IsWork(w), NEW peer
    PROVE  Leads(Complete(w, peer), w)
BY EntryLeads, NoSyncIsEntry DEF Complete

LEMMA ImportedNode ==
    ASSUME NEW s, IsNode(s), NEW blocks
    PROVE  IsNode(Import(s, blocks)) /\ Import(s, blocks).active = s.active
           /\ Import(s, blocks).sync = s.sync
<1>1. \A a, b, c : LET r == [s EXCEPT !.stored = a, !.tip = b, !.orphans = c]
                   IN  DOMAIN r = NodeFields /\ r.active = s.active /\ r.sync = s.sync
  BY DEF IsNode, NodeFields
<1> DEFINE r == Import(s, blocks)
<1>2. DOMAIN r = NodeFields /\ r.active = s.active /\ r.sync = s.sync
  BY <1>1 DEF Import, With
<1> HIDE DEF r
<1> QED BY <1>2 DEF IsNode, r

----------------------------------------------------------------------------
(* The handlers.                                                           *)

LEMMA EntryKept ==
    ASSUME NEW entry, IsEntry(entry), NEW x
    PROVE  /\ IsEntry([entry EXCEPT !.expected = x])
           /\ IsEntry([entry EXCEPT !.accepted = x])
           /\ (entry.active => IsFiniteSet(x)) => IsEntry([entry EXCEPT !.chunks = x])
<1> DEFINE e == [entry EXCEPT !.expected = x]
           a == [entry EXCEPT !.accepted = x]
           c == [entry EXCEPT !.chunks = x]
<1>1. /\ DOMAIN e = DOMAIN entry /\ e.active = entry.active
      /\ "chunks" \in DOMAIN entry => e.chunks = entry.chunks
  BY DEF IsEntry
<1>2. /\ DOMAIN a = DOMAIN entry /\ a.active = entry.active
      /\ "chunks" \in DOMAIN entry => a.chunks = entry.chunks
  BY DEF IsEntry
<1>3. /\ DOMAIN c = DOMAIN entry /\ c.active = entry.active
      /\ "chunks" \in DOMAIN entry => c.chunks = x
  BY DEF IsEntry
<1> HIDE DEF e, a, c
<1>4. IsEntry(e) /\ IsEntry(a) /\ ((entry.active => IsFiniteSet(x)) => IsEntry(c))
  BY <1>1, <1>2, <1>3 DEF IsEntry
<1> QED BY <1>4 DEF e, a, c

\* The stream goes on.
LEMMA ExpectedLeads ==
    ASSUME NEW w, IsWork(w), w.key \in Keys, NEW next, NEW accepted
    PROVE  Leads([w EXCEPT !.s.sync[w.key].expected = next,
                           !.s.sync[w.key].accepted = @ \/ accepted], w)
<1> DEFINE k == w.key
           v == [w EXCEPT !.s.sync[k].expected = next]
           r == [v EXCEPT !.s.sync[k].accepted = @ \/ accepted]
<1>1. IsEntry(w.s.sync[k])
  BY DEF IsWork, IsNode, IsSync
<1> DEFINE entry == [w.s.sync[k] EXCEPT !.expected = next]
<1>2. Leads([w EXCEPT !.s.sync[k] = entry], w)
  <2>1. IsEntry(entry)
    BY <1>1, EntryKept
  <2> HIDE DEF entry
  <2> QED BY <2>1, EntryLeads
<1>3. v = [w EXCEPT !.s.sync[k] = entry]
  OBVIOUS
<1>4. Leads(v, w)
  BY <1>2, <1>3
<1> HIDE DEF v, entry
<1>5. IsWork(v) /\ v.key = k
  BY <1>4 DEF Leads
<1>6. IsEntry(v.s.sync[k])
  BY <1>5 DEF IsWork, IsNode, IsSync
<1> DEFINE last == [v.s.sync[k] EXCEPT !.accepted = @ \/ accepted]
<1>7. Leads([v EXCEPT !.s.sync[k] = last], v)
  <2>1. IsEntry(last)
    BY <1>6, EntryKept
  <2> HIDE DEF last
  <2> QED BY <1>5, <2>1, EntryLeads
<1>8. r = [v EXCEPT !.s.sync[k] = last]
  OBVIOUS
<1>9. Leads(r, w)
  BY <1>4, <1>7, <1>8, LeadsOn
<1> QED BY <1>9 DEF v

LEMMA AfterFastChunkLeads ==
    ASSUME NEW w, IsWork(w), w.key \in Keys, NEW s, NEW m
    PROVE  Leads(AfterFastChunk(w, s, m), w)
<1>1. Leads(RequestStream(w, w.key, 0), w) /\ Leads(Complete(w, w.key), w)
  BY RequestStreamLeads, CompleteLeads
<1>2. Leads(Advertise(Complete(w, w.key), {w.key}), w)
  <2> DEFINE v == Complete(w, w.key)
  <2>1. IsWork(v) /\ Leads(v, w)
    BY <1>1 DEF Leads
  <2> HIDE DEF v
  <2>2. Leads(Advertise(v, {w.key}), v)
    BY <2>1, AdvertiseLeads
  <2>3. Leads(Advertise(v, {w.key}), w)
    BY <2>1, <2>2, LeadsOn
  <2> QED BY <2>3 DEF v
<1>3. Leads([w EXCEPT !.s.sync[w.key].expected = m.next,
                      !.s.sync[w.key].accepted = @ \/ Took(s, w.s, m.blocks)], w)
  BY ExpectedLeads
<1> QED BY <1>1, <1>2, <1>3, Zenon DEF AfterFastChunk

LEMMA ImportFastLeads ==
    ASSUME NEW w, IsWork(w), w.key \in Keys, NEW m, NEW r \in ImportFast(w, m)
    PROVE  Leads(r, w)
<1> DEFINE k == w.key
           entry == [w.s.sync[k] EXCEPT !.chunks = @ \ {m}]
           s == [w.s EXCEPT !.sync[k] = entry]
           after == [w EXCEPT !.s = Import(s, m.blocks)]
<1>1. r = AfterFastChunk(after, w.s, m)
  <2>1. s = Unbuffered(w.s, w.key, m)
    BY DEF Unbuffered
  <2>2. after = [w EXCEPT !.s = Import(Unbuffered(@, w.key, m), m.blocks)]
    BY <2>1, Zenon
  <2> HIDE DEF after
  <2> QED BY <2>2, Zenon DEF ImportFast
<1>2. IsEntry(w.s.sync[k]) /\ IsNode(w.s)
  BY DEF IsWork, IsNode, IsSync
<1>3. IsEntry(entry)
  <2>1. w.s.sync[k].active => IsFiniteSet(w.s.sync[k].chunks \ {m})
    BY <1>2, FS_RemoveElement DEF IsEntry
  <2> QED BY <1>2, <2>1, EntryKept
<1> HIDE DEF entry
<1>4. IsNode(s) /\ s.active = w.s.active
  <2> DEFINE sync == [w.s.sync EXCEPT ![k] = entry]
  <2>1. IsSync(sync)
    BY <1>2, <1>3, NewEntry DEF IsNode
  <2>2. s = [w.s EXCEPT !.sync = sync]
    OBVIOUS
  <2> HIDE DEF sync
  <2> QED BY <1>2, <2>1, <2>2, NewSync
<1> HIDE DEF s
<1>5. Leads(after, w)
  <2>1. IsNode(Import(s, m.blocks)) /\ Import(s, m.blocks).active = w.s.active
    BY <1>4, ImportedNode
  <2> QED BY <2>1, NewState
<1> HIDE DEF after
<1>6. Leads(r, after)
  BY <1>1, <1>5, AfterFastChunkLeads DEF Leads
<1> QED BY <1>5, <1>6, LeadsOn

LEMMA DrainOneLeads ==
    ASSUME NEW w, IsWork(w), w.key \in Keys, NEW r \in DrainOne(w)
    PROVE  Leads(r, w)
<1> DEFINE expected == {m \in w.s.sync[w.key].chunks : m.start = w.s.sync[w.key].expected}
<1>1. r = w \/ \E m \in expected : r \in ImportFast(w, m)
  BY DEF DrainOne
<1> HIDE DEF expected
<1> QED BY <1>1, ImportFastLeads, LeadsItself

Held(w) == Cardinality(w.s.sync[w.key].chunks)

NextDrained(w, f, n) == IF n = 0 THEN {w} ELSE UNION {DrainOne(x) : x \in f[n - 1]}

\* The recursion of DrainFast has a solution.
LEMMA DrainFastSolves ==
    ASSUME NEW w, Held(w) \in Nat
    PROVE  \E f : /\ f = [n \in 0 .. Held(w) |-> NextDrained(w, f, n)]
                  /\ DrainFast(w) = f[Held(w)]
<1> DEFINE Next_(f, n) == NextDrained(w, f, n)
           Solves(m, f) == f = [n \in 0 .. m |-> Next_(f, n)]
           Unsolved == {m \in Nat : ~\E f : Solves(m, f)}
<1>1. Unsolved = {}
  <2>1. SUFFICES ASSUME Unsolved # {} PROVE FALSE
    OBVIOUS
  <2>2. PICK m \in Unsolved : \A k \in Unsolved : m <= k
    <3>1. Unsolved \in SUBSET Nat
      OBVIOUS
    <3> HIDE DEF Unsolved
    <3> QED BY <2>1, <3>1, LeastNatural
  <2>3. m \in Nat
    OBVIOUS
  <2>4. m # 0
    <3> DEFINE f0 == [n \in 0 .. 0 |-> {w}]
    <3>1. \A n \in 0 .. 0 : Next_(f0, n) = {w}
      BY DEF NextDrained
    <3> HIDE DEF Next_
    <3>2. Solves(0, f0)
      BY <3>1
    <3> QED BY <3>2
  <2>5. PICK g : Solves(m - 1, g)
    <3>1. m - 1 \in Nat /\ ~(m <= m - 1)
      BY <2>3, <2>4
    <3>2. m - 1 \notin Unsolved
      BY <3>1, <2>2
    <3> QED BY <3>1, <3>2
  <2> DEFINE f == [n \in 0 .. m |-> IF n = m THEN Next_(g, m) ELSE g[n]]
  <2>6. \A n \in 0 .. m : Next_(f, n) = Next_(g, n)
    <3> TAKE n \in 0 .. m
    <3>1. n # 0 => f[n - 1] = g[n - 1]
      BY <2>3
    <3> HIDE DEF f
    <3> QED BY <3>1 DEF NextDrained
  <2>7. \A n \in 0 .. m - 1 : g[n] = Next_(g, n)
    <3> HIDE DEF Next_
    <3> QED BY <2>5
  <2>8. \A n \in 0 .. m : f[n] = Next_(f, n)
    <3> HIDE DEF Next_
    <3> QED BY <2>3, <2>6, <2>7
  <2>9. Solves(m, f)
    <3> HIDE DEF Next_
    <3> QED BY <2>8
  <2> QED BY <2>9
<1>2. PICK f : Solves(Held(w), f)
  BY <1>1
<1> DEFINE h == CHOOSE f_1 : f_1 = [n \in 0 .. Held(w) |-> Next_(f_1, n)]
<1>3. DrainFast(w) = h[Held(w)]
  BY DEF DrainFast, NextDrained, Held
<1>4. h = [n \in 0 .. Held(w) |-> Next_(h, n)]
  <2> HIDE DEF Next_
  <2> QED BY <1>2
<1> QED BY <1>3, <1>4

LEMMA DrainFastLeads ==
    ASSUME NEW w, IsWork(w), w.key \in Keys, w.s.sync[w.key].active, NEW r \in DrainFast(w)
    PROVE  Leads(r, w)
<1>1. Held(w) \in Nat
  BY FS_CardinalityType DEF Held, IsWork, IsNode, IsSync, IsEntry
<1>2. PICK f : /\ f = [n \in 0 .. Held(w) |-> NextDrained(w, f, n)]
               /\ DrainFast(w) = f[Held(w)]
  BY <1>1, DrainFastSolves
<1>3. \A n \in 0 .. Held(w) : f[n] = NextDrained(w, f, n)
  BY <1>2
<1> DEFINE last == Held(w)
           Good == {n \in 0 .. last : \A x \in f[n] : Leads(x, w)}
<1>4. 0 \in Good
  <2>1. 0 \in 0 .. Held(w)
    BY <1>1
  <2>2. f[0] = NextDrained(w, f, 0)
    BY <1>3, <2>1
  <2>3. f[0] = {w}
    BY <2>2, Zenon DEF NextDrained
  <2> QED BY <2>1, <2>3, LeadsItself
<1>5. ASSUME NEW n \in 0 .. last, n # last, n \in Good PROVE n + 1 \in Good
  <2> DEFINE k == n + 1
  <2>1. k \in 0 .. last /\ k # 0 /\ k - 1 = n
    BY <1>1, <1>5
  <2>2. f[k] = UNION {DrainOne(x) : x \in f[n]}
    BY <1>3, <2>1 DEF NextDrained
  <2>3. ASSUME NEW y \in f[k] PROVE Leads(y, w)
    <3>1. PICK x \in f[n] : y \in DrainOne(x)
      BY <2>2, <2>3
    <3>2. Leads(x, w)
      BY <1>5, <3>1
    <3>3. IsWork(x) /\ x.key \in Keys
      BY <3>2 DEF Leads
    <3>4. Leads(y, x)
      BY <3>1, <3>3, DrainOneLeads
    <3> QED BY <3>2, <3>4, LeadsOn
  <2> HIDE DEF k
  <2>4. k \in Good
    BY <2>1, <2>3
  <2> QED BY <2>4 DEF k
<1>6. last \in Good
  <2> HIDE DEF Good, last
  <2>1. last \in Nat
    BY <1>1 DEF last
  <2> QED BY <1>4, <1>5, <2>1, ReachesLast
<1> QED BY <1>2, <1>6

LEMMA OnFastChunkLeads ==
    ASSUME NEW w, IsWork(w), w.key \in Keys, w.s.sync[w.key].active, NEW m,
           NEW r \in OnFastChunk(w, m)
    PROVE  Leads(r, w)
<1> DEFINE k == w.key
           entry == [w.s.sync[k] EXCEPT !.chunks = @ \cup {m}]
           v == [w EXCEPT !.s.sync[k] = entry]
<1>1. r = w \/ r \in DrainFast(v)
  BY DEF OnFastChunk
<1>2. IsEntry(w.s.sync[k]) /\ DOMAIN w.s.sync = Keys
  BY DEF IsWork, IsNode, IsSync
<1>3. IsEntry(entry) /\ entry.active
  <2>1. IsFiniteSet(w.s.sync[k].chunks \cup {m})
    BY <1>2, FS_AddElement DEF IsEntry
  <2>2. entry.active
    BY <1>2 DEF IsEntry
  <2> QED BY <1>2, <2>1, <2>2, EntryKept
<1> HIDE DEF entry
<1>4. Leads(v, w)
  BY <1>3, EntryLeads
<1>5. v.s.sync[k] = entry
  BY <1>2 DEF IsWork, WorkFields, IsNode, NodeFields
<1> HIDE DEF v
<1>6. IsWork(v) /\ v.key = k /\ v.s.sync[v.key].active
  BY <1>3, <1>4, <1>5 DEF Leads
<1>7. ASSUME r \in DrainFast(v) PROVE Leads(r, w)
  BY <1>4, <1>6, <1>7, DrainFastLeads, LeadsOn
<1> QED BY <1>1, <1>7, LeadsItself

\* The node after it imported blocks.
LEMMA ImportLeads ==
    ASSUME NEW w, IsWork(w), NEW blocks
    PROVE  Leads([w EXCEPT !.s = Import(@, blocks)], w)
<1> DEFINE s == Import(w.s, blocks)
<1>1. IsNode(s) /\ s.active = w.s.active
  BY ImportedNode DEF IsWork
<1> HIDE DEF s
<1>2. Leads([w EXCEPT !.s = s], w)
  BY <1>1, NewState
<1> QED BY <1>2 DEF s

LEMMA AfterChunkLeads ==
    ASSUME NEW w, IsWork(w), NEW s, NEW m
    PROVE  Leads(AfterChunk(w, s, m), w)
<1>1. \A start : Leads(Send(w, w.key, ChainRequest(start)), w)
  BY SendLeads, OthersAreNoHandshake
<1>2. Leads(Advertise(w, {w.key}), w) /\ Leads(w, w)
  BY AdvertiseLeads, LeadsItself
<1> QED BY <1>1, <1>2, Zenon DEF AfterChunk

LEMMA OnChunkLeads ==
    ASSUME NEW w, IsWork(w), w.key \in Keys, NEW m, NEW r \in OnChunk(w, m)
    PROVE  Leads(r, w)
<1>1. CASE w.s.sync[w.key].active
  BY <1>1, OnFastChunkLeads DEF OnChunk
<1>2. CASE ~w.s.sync[w.key].active
  <2> DEFINE after == [w EXCEPT !.s = Import(@, m.blocks)]
  <2>1. r = AfterChunk(after, w.s, m)
    BY <1>2 DEF OnChunk
  <2>2. Leads(after, w)
    BY ImportLeads
  <2> HIDE DEF after
  <2>3. Leads(r, after)
    BY <2>1, <2>2, AfterChunkLeads DEF Leads
  <2> QED BY <2>2, <2>3, LeadsOn
<1> QED BY <1>1, <1>2

\* A block that was seen.
LEMMA SeenNode ==
    ASSUME NEW s, IsNode(s), NEW b
    PROVE  IsNode(Seen(s, b)) /\ Seen(s, b).active = s.active
<1> DEFINE r == Seen(s, b)
<1>1. DOMAIN r = NodeFields /\ r.active = s.active /\ r.sync = s.sync
  BY DEF Seen, IsNode, NodeFields
<1> HIDE DEF r
<1> QED BY <1>1 DEF IsNode, r

LEMMA OnBlockLeads ==
    ASSUME NEW w, IsWork(w), NEW m, m.type = "block", NEW r \in OnBlock(w, m)
    PROVE  Leads(r, w)
<1> DEFINE after == [w EXCEPT !.s = Import(@, <<m.block>>)]
<1>1. r = w \/ r = AfterBlock(after, w.s, m)
  BY DEF OnBlock
<1>2. Leads(after, w)
  BY ImportLeads
<1> HIDE DEF after
<1>3. IsWork(after)
  BY <1>2 DEF Leads
<1> DEFINE v == [after EXCEPT !.s = Seen(@, m.block)]
<1>4. Leads(v, after)
  BY <1>3, SeenNode, NewState DEF IsWork
<1> HIDE DEF v
<1>5. Leads(Broadcast(v, m, {after.key}), after)
  <2>1. IsWork(v)
    BY <1>4 DEF Leads
  <2>2. FromPeer(m, v.n)
    BY DEF FromPeer
  <2>3. Leads(Broadcast(v, m, {after.key}), v)
    BY <2>1, <2>2, BroadcastLeads
  <2> QED BY <1>4, <2>3, LeadsOn
<1>6. \/ AfterBlock(after, w.s, m) = Broadcast(v, m, {after.key})
      \/ AfterBlock(after, w.s, m) = after
      \/ AfterBlock(after, w.s, m) = v
  BY DEF AfterBlock, v
<1>7. Leads(AfterBlock(after, w.s, m), after)
  BY <1>3, <1>4, <1>5, <1>6, LeadsItself
<1> QED BY <1>1, <1>2, <1>7, LeadsOn, LeadsItself

LEMMA OnRequestLeads ==
    ASSUME NEW w, IsWork(w), NEW m, NEW r \in OnStreamRequest(w, m) \cup OnChainRequest(w, m)
    PROVE  Leads(r, w)
<1>1. Leads(Send(w, w.key, ChunkOf(ChainOf[w.s.tip], m.start)), w)
  BY SendLeads, OthersAreNoHandshake
<1>2. \A x : Leads([w EXCEPT !.failed = x], w) /\ Leads([w EXCEPT !.serve = x], w)
  BY OtherFields
<1>3. CASE r \in OnChainRequest(w, m)
  BY <1>1, <1>3, Zenon DEF OnChainRequest
<1>4. CASE r \in OnStreamRequest(w, m)
  <2>1. \E x : r = [w EXCEPT !.failed = x] \/ r = [w EXCEPT !.serve = x]
    BY <1>4, Zenon DEF OnStreamRequest
  <2> QED BY <1>2, <2>1
<1> QED BY <1>3, <1>4

\* Whatever it is, but a handshake.
LEMMA HandledLeads ==
    ASSUME NEW w, IsWork(w), w.key \in Keys, NEW m, NEW n, FromPeer(m, n),
           m.type # "handshake", NEW r \in Handled(w, m)
    PROVE  Leads(r, w)
BY OnRequestLeads, OnChunkLeads, OnBlockLeads DEF Handled, FromPeer

----------------------------------------------------------------------------
(* The inductive invariant.                                                *)

ConnFields == {"from", "to", "waiting", "open", "chan", "reader", "serving"}

OtherEnd(d, n) == IF d.from = n THEN d.to ELSE d.from

\* A connection of which each end is read under the name of the other or the
\* port it came from, once it is registered, and carries what the other sent.
IsConn(d, c) ==
    /\ DOMAIN d = ConnFields
    /\ d.from \in Nodes \cup {NoNode} /\ d.to \in Nodes \cup {NoNode}
    /\ d.from = NoNode => d.to = NoNode /\ d.waiting = {}
    /\ d.from # NoNode => d.to # NoNode
    /\ DOMAIN d.chan = Nodes /\ DOMAIN d.reader = Nodes
    /\ \A n \in Nodes :
        /\ d.reader[n] \in {NoKey, OtherEnd(d, n), c}
        /\ d.from = NoNode => d.reader[n] = NoKey
        /\ n \in d.waiting => d.reader[n] = NoKey
        /\ MailOf(d.chan[n], OtherEnd(d, n))

ConnsAreSound == DOMAIN conn = Conns /\ \A c \in Conns : IsConn(conn[c], c)
NodesAreSound == DOMAIN node = Nodes /\ \A n \in Nodes : IsNode(node[n])

\* The connection c has ended, and n has stopped to read it, whatever the name k
\* under which it did.
IsOver(d, c, n, k) ==
    /\ d.from # NoNode /\ n \notin d.waiting /\ ~d.open /\ d.reader[n] = NoKey
    /\ k \in {OtherEnd(d, n), c}

LEMMA OverIsKept ==
    ASSUME NEW x, NEW y, NEW c, NEW n, NEW k,
           y.from = x.from, y.to = x.to, y.waiting = x.waiting, y.open => x.open,
           y.reader[n] = NoKey,
           x.from # NoNode, n \notin x.waiting, ~x.open, k \in {OtherEnd(x, n), c}
    PROVE  IsOver(y, c, n, k)
BY DEF IsOver, OtherEnd

\* Who is listed is read under that name, or over.
ListedAreRead ==
    \A n \in Nodes : \A k \in Keys : \A c \in Conns :
        node[n].active[k] = c => conn[c].reader[n] = k \/ IsOver(conn[c], c, n, k)

CanRaise(b) == "raises" \in DOMAIN b /\ b.raises \in Nat

PeersInv == ConnsAreSound /\ NodesAreSound /\ ListedAreRead /\ CanRaise(budget)

\* k is listed and not read.
IsGhost(n, k) == node[n].active[k] # NoConn /\ conn[node[n].active[k]].reader[n] # k

NewGhosts == {p \in Nodes \X Keys : ~IsGhost(p[1], p[2]) /\ IsGhost(p[1], p[2])'}

\* Who is listed on d when the read task of c ends with w: the peer of that
\* task, one whom another task reads, one who was over before, or the peer of
\* the task that a failed write has ended.
FitsOn(d, k, c, w) ==
    \/ d = c /\ k = w.key
    \/ d # c /\ conn[d].reader[w.n] = k
    \/ node[w.n].active[k] = d /\ IsOver(conn[d], d, w.n, k)
    \/ /\ d = c /\ w.failed /\ w.raising # {}
       /\ conn[c].from # NoNode /\ w.n \notin conn[c].waiting /\ ~conn[c].open
       /\ k \in {OtherEnd(conn[c], w.n), c}

\* The read task of c may end with w.
Fits(c, w) ==
    /\ c \in Conns =>
        /\ w.key \in {NoKey, Other(c, w.n), c}
        /\ conn[c].reader[w.n] = NoKey => w.key = NoKey
        /\ w.took => conn[c].chan[w.n] # << >>
    /\ \A k \in Keys : \A d \in Conns : w.s.active[k] = d => FitsOn(d, k, c, w)

LEMMA NoConnIsNone == NoConn \notin Conns
BY ConnsAssumption DEF NoConn, Conns

LEMMA KeysApart ==
    /\ NoKey \notin Keys
    /\ \A c \in Conns : c \notin Nodes \cup {NoNode} /\ c # NoKey
BY NodesAssumption, ConnsAssumption DEF NoKey, Keys, Conns

LEMMA OtherIsOtherEnd == \A c, n : Other(c, n) = OtherEnd(conn[c], n)
BY DEF Other, OtherEnd

\* What the connection d is after a step of the read task of c.
LEMMA ConnAfterParts ==
    ASSUME NEW d \in Conns, IsConn(conn[d], d), NEW c, NEW w, IsWork(w),
           NEW r, r = ConnAfter(d, c, w)
    PROVE  /\ DOMAIN r = ConnFields
           /\ r.from = conn[d].from /\ r.to = conn[d].to /\ r.waiting = conn[d].waiting
           /\ r.open => conn[d].open
           /\ DOMAIN r.reader = Nodes
           /\ \A n \in Nodes : r.reader[n] =
                 IF n = w.n /\ d = c THEN IF w.failed THEN NoKey ELSE w.key
                                     ELSE conn[d].reader[n]
           /\ \/ w.n \in Ends(d) /\ r.chan = ChanAfter(conn[d].chan, d, c, w)
              \/ w.n \notin Ends(d) /\ r.chan = conn[d].chan
BY DEF ConnAfter, IsConn, ConnFields

LEMMA ChanAfterMail ==
    ASSUME NEW d \in Conns, IsConn(conn[d], d), NEW c, NEW w, IsWork(w),
           d = c /\ w.took => conn[d].chan[w.n] # << >>, w.n \in Ends(d),
           NEW chan, chan = ChanAfter(conn[d].chan, d, c, w)
    PROVE  /\ DOMAIN chan = Nodes
           /\ \A n \in Nodes : MailOf(chan[n], OtherEnd(conn[d], n))
<1>1. DOMAIN chan = Nodes
  BY DEF ChanAfter
<1>2. ASSUME NEW n \in Nodes PROVE MailOf(chan[n], OtherEnd(conn[d], n))
  <2> DEFINE old == conn[d].chan[n]
             peer == OtherEnd(conn[d], n)
             sent == MessagesOn(d, w.out)
  <2> SUFFICES MailOf(chan[n], peer)
    OBVIOUS
  <2>1. MailOf(old, peer) /\ MailOf(<< >>, peer)
    BY NoMail DEF IsConn
  <2>2. \/ chan[n] = old
        \/ chan[n] = << >>
        \/ n = w.n /\ d = c /\ w.took /\ chan[n] = Tail(old)
        \/ n # w.n /\ n \in Ends(d) /\ chan[n] = old \o sent
    BY DEF ChanAfter
  <2>3. CASE n = w.n /\ d = c /\ w.took /\ chan[n] = Tail(old)
    <3>1. old # << >>
      BY <2>3
    <3> HIDE DEF old, peer
    <3> QED BY <2>1, <2>3, <3>1, MailIsRead
  <2>4. CASE n # w.n /\ n \in Ends(d) /\ chan[n] = old \o sent
    <3>1. MailOf(sent, w.n)
      BY MessagesOnMail DEF IsWork
    <3>2. peer = w.n
      BY <2>4 DEF OtherEnd, Ends
    <3> HIDE DEF old, peer, sent
    <3> QED BY <2>1, <2>4, <3>1, <3>2, MailArrives
  <2> HIDE DEF old, peer, sent
  <2> QED BY <2>1, <2>2, <2>3, <2>4
<1> QED BY <1>1, <1>2

LEMMA EndedNode ==
    ASSUME NEW s, IsNode(s), NEW key, NEW c
    PROVE  /\ IsNode(Ended(s, key, c))
           /\ \A k \in Keys :
                Ended(s, key, c).active[k] =
                    IF k = key /\ s.active[key] = c THEN NoConn ELSE s.active[k]
<1>1. CASE s.active[key] # c
  BY <1>1 DEF Ended
<1>2. CASE s.active[key] = c
  <2> DEFINE r == [s EXCEPT !.active[key] = NoConn, !.sync[key] = NoSync]
             active == [s.active EXCEPT ![key] = NoConn]
             sync == [s.sync EXCEPT ![key] = NoSync]
  <2>1. DOMAIN r = NodeFields /\ r.active = active /\ r.sync = sync
    BY DEF IsNode, NodeFields
  <2>2. IsSync(sync)
    BY NewEntry, NoSyncIsEntry DEF IsNode
  <2>3. /\ active \in [Keys -> Conns \cup {NoConn}]
        /\ \A k \in Keys : active[k] = IF k = key THEN NoConn ELSE s.active[k]
    BY DEF IsNode
  <2>4. Ended(s, key, c) = r
    BY <1>2 DEF Ended
  <2> HIDE DEF r, active, sync
  <2> QED BY <1>2, <2>1, <2>2, <2>3, <2>4 DEF IsNode
<1> QED BY <1>1, <1>2

\* The end of a handler keeps the connections, the nodes and their names, and
\* leaves a ghost only where a write met a loss.
LEMMA SettleKeeps ==
    ASSUME ConnsAreSound, NodesAreSound, ListedAreRead,
           NEW c \in Conns \cup {NoConn}, NEW w, IsWork(w), Fits(c, w), Settle(c, w)
    PROVE  /\ ConnsAreSound' /\ NodesAreSound' /\ ListedAreRead'
           /\ w.raising = {} => NewGhosts = {}
<1> DEFINE s == IF w.failed /\ c # NoConn THEN Ended(w.s, w.key, c) ELSE w.s
<1>1. /\ node' = [node EXCEPT ![w.n] = s]
      /\ conn' = [d \in Conns |-> ConnAfter(d, c, w)]
      /\ w.n \in Nodes /\ IsNode(w.s)
  BY DEF Settle, IsWork
<1>2. IsNode(s)
  BY <1>1, EndedNode
<1>3. /\ DOMAIN node' = Nodes /\ node'[w.n] = s
      /\ \A n \in Nodes \ {w.n} : node'[n] = node[n]
  BY <1>1 DEF NodesAreSound
<1>4. NodesAreSound'
  BY <1>2, <1>3 DEF NodesAreSound
<1>5. ASSUME NEW d \in Conns
      PROVE  /\ IsConn(conn'[d], d)
             /\ conn'[d].from = conn[d].from /\ conn'[d].to = conn[d].to
             /\ conn'[d].waiting = conn[d].waiting
             /\ conn'[d].open => conn[d].open
             /\ \A n \in Nodes : conn'[d].reader[n] =
                    IF n = w.n /\ d = c THEN IF w.failed THEN NoKey ELSE w.key
                                        ELSE conn[d].reader[n]
  <2> DEFINE r == ConnAfter(d, c, w)
  <2>1. conn'[d] = r /\ IsConn(conn[d], d) /\ r = ConnAfter(d, c, w)
    BY <1>1 DEF ConnsAreSound
  <2> HIDE DEF r
  <2>2. /\ DOMAIN r = ConnFields
        /\ r.from = conn[d].from /\ r.to = conn[d].to /\ r.waiting = conn[d].waiting
        /\ r.open => conn[d].open
        /\ DOMAIN r.reader = Nodes
        /\ \A n \in Nodes : r.reader[n] =
                IF n = w.n /\ d = c THEN IF w.failed THEN NoKey ELSE w.key
                                    ELSE conn[d].reader[n]
        /\ \/ w.n \in Ends(d) /\ r.chan = ChanAfter(conn[d].chan, d, c, w)
           \/ w.n \notin Ends(d) /\ r.chan = conn[d].chan
    BY <2>1, ConnAfterParts
  <2>3. DOMAIN r.chan = Nodes /\ \A n \in Nodes : MailOf(r.chan[n], OtherEnd(conn[d], n))
    <3>1. CASE w.n \in Ends(d)
      <4>1. d = c /\ w.took => conn[d].chan[w.n] # << >>
        BY DEF Fits
      <4>2. r.chan = ChanAfter(conn[d].chan, d, c, w)
        BY <2>2, <3>1
      <4> QED BY <2>1, <3>1, <4>1, <4>2, ChanAfterMail
    <3>2. CASE w.n \notin Ends(d)
      BY <2>1, <2>2, <3>2 DEF IsConn
    <3> QED BY <3>1, <3>2
  <2>4. \A n \in Nodes : OtherEnd(r, n) = OtherEnd(conn[d], n)
    BY <2>2 DEF OtherEnd
  <2>5. d = c => /\ w.key \in {NoKey, OtherEnd(conn[d], w.n), d}
                 /\ conn[d].reader[w.n] = NoKey => w.key = NoKey
    BY OtherIsOtherEnd DEF Fits
  <2>6. ASSUME NEW n \in Nodes
        PROVE  /\ r.reader[n] \in {NoKey, OtherEnd(r, n), d}
               /\ r.from = NoNode => r.reader[n] = NoKey
               /\ n \in r.waiting => r.reader[n] = NoKey
    BY <1>1, <2>1, <2>2, <2>4, <2>5 DEF IsConn
  <2>7. IsConn(r, d)
    BY <2>1, <2>2, <2>3, <2>4, <2>6 DEF IsConn
  <2> QED BY <2>1, <2>2, <2>7
<1>6. ConnsAreSound'
  BY <1>1, <1>5 DEF ConnsAreSound
<1>7. ASSUME NEW n \in Nodes, NEW k \in Keys, NEW d \in Conns, node'[n].active[k] = d
      PROVE  /\ conn'[d].reader[n] = k \/ IsOver(conn'[d], d, n, k)
             /\ \/ conn'[d].reader[n] = k
                \/ node[n].active[k] = d /\ conn[d].reader[n] # k
                \/ w.raising # {}
  <2>1. /\ \A m : OtherEnd(conn'[d], m) = OtherEnd(conn[d], m)
        /\ k # NoKey /\ d # NoConn
    BY <1>5, KeysApart, NoConnIsNone DEF OtherEnd
  <2>2. ASSUME conn'[d].reader[n] = NoKey, conn[d].from # NoNode, n \notin conn[d].waiting,
               ~conn[d].open, k \in {OtherEnd(conn[d], n), d}
        PROVE  IsOver(conn'[d], d, n, k)
    <3> DEFINE x == conn[d]
               y == conn'[d]
    <3>1. y.from = x.from /\ y.to = x.to /\ y.waiting = x.waiting /\ (y.open => x.open)
      BY <1>5
    <3>2. /\ y.reader[n] = NoKey /\ x.from # NoNode /\ n \notin x.waiting
          /\ ~x.open /\ k \in {OtherEnd(x, n), d}
      BY <2>2
    <3> HIDE DEF x, y
    <3>3. IsOver(y, d, n, k)
      BY <3>1, <3>2, OverIsKept
    <3> QED BY <3>3 DEF y
  <2>3. CASE n # w.n
    <3>1. node[n].active[k] = d /\ conn'[d].reader[n] = conn[d].reader[n]
      BY <1>3, <1>5, <1>7, <2>3
    <3>2. conn[d].reader[n] = k \/ IsOver(conn[d], d, n, k)
      BY <3>1 DEF ListedAreRead
    <3>3. IsOver(conn[d], d, n, k) => IsOver(conn'[d], d, n, k)
      <4> SUFFICES ASSUME IsOver(conn[d], d, n, k) PROVE IsOver(conn'[d], d, n, k)
        OBVIOUS
      <4> QED BY <3>1, <2>2 DEF IsOver
    <3> QED BY <3>1, <3>2, <3>3
  <2>4. CASE n = w.n
    <3>1. d = s.active[k]
      BY <1>3, <1>7, <2>4
    <3>2. w.s.active[k] = d /\ ~(w.failed /\ d = c /\ k = w.key)
      <4>1. CASE w.failed /\ c # NoConn
        <5>1. s.active[k] = IF k = w.key /\ w.s.active[w.key] = c THEN NoConn ELSE w.s.active[k]
          BY <1>1, <4>1, EndedNode
        <5> HIDE DEF s
        <5> QED BY <2>1, <3>1, <5>1
      <4>2. CASE ~(w.failed /\ c # NoConn)
        <5>1. s = w.s
          BY <4>2
        <5> HIDE DEF s
        <5> QED BY <2>1, <3>1, <4>2, <5>1
      <4> QED BY <4>1, <4>2
    <3> HIDE DEF s
    <3>3. FitsOn(d, k, c, w)
      BY <3>2 DEF Fits
    <3>4. /\ d # c => conn'[d].reader[n] = conn[d].reader[n]
          /\ d = c => conn'[d].reader[n] = IF w.failed THEN NoKey ELSE w.key
      BY <1>5, <2>4
    <3>5. CASE d = c /\ k = w.key
      BY <3>2, <3>4, <3>5
    <3>6. CASE d # c /\ conn[d].reader[w.n] = k
      BY <2>4, <3>4, <3>6
    <3>7. CASE node[w.n].active[k] = d /\ IsOver(conn[d], d, w.n, k)
      <4>1. conn'[d].reader[n] = NoKey /\ conn[d].reader[n] # k
        <5>1. d = c => w.key = NoKey
          BY <3>7 DEF IsOver, Fits
        <5> QED BY <2>1, <2>4, <3>4, <3>7, <5>1 DEF IsOver
      <4>2. /\ conn[d].from # NoNode /\ n \notin conn[d].waiting /\ ~conn[d].open
            /\ k \in {OtherEnd(conn[d], n), d}
        BY <2>4, <3>7 DEF IsOver
      <4>3. IsOver(conn'[d], d, n, k)
        BY <4>1, <4>2, <2>2
      <4> QED BY <2>4, <3>7, <4>1, <4>3
    <3>8. CASE /\ d = c /\ w.failed /\ w.raising # {}
               /\ conn[c].from # NoNode /\ w.n \notin conn[c].waiting /\ ~conn[c].open
               /\ k \in {OtherEnd(conn[c], w.n), c}
      <4>1. conn'[d].reader[n] = NoKey
        BY <3>4, <3>8
      <4>2. /\ conn[d].from # NoNode /\ n \notin conn[d].waiting /\ ~conn[d].open
            /\ k \in {OtherEnd(conn[d], n), d}
        BY <2>4, <3>8
      <4>3. IsOver(conn'[d], d, n, k)
        BY <4>1, <4>2, <2>2
      <4> QED BY <3>8, <4>3
    <3> QED BY <3>3, <3>5, <3>6, <3>7, <3>8 DEF FitsOn
  <2> QED BY <2>3, <2>4
<1>8. ListedAreRead'
  BY <1>7 DEF ListedAreRead
<1>9. ASSUME w.raising = {} PROVE NewGhosts = {}
  <2>1. ASSUME NEW p \in NewGhosts PROVE FALSE
    <3>1. PICK n \in Nodes, k \in Keys : p = <<n, k>>
      BY <2>1 DEF NewGhosts
    <3>2. ~IsGhost(n, k) /\ IsGhost(n, k)'
      BY <2>1, <3>1 DEF NewGhosts
    <3>3. PICK d \in Conns : node'[n].active[k] = d
      BY <1>4, <3>2 DEF IsGhost, NodesAreSound, IsNode
    <3>4. conn'[d].reader[n] # k
      BY <3>2, <3>3 DEF IsGhost
    <3>5. node[n].active[k] = d /\ conn[d].reader[n] # k
      BY <1>7, <1>9, <3>3, <3>4
    <3> QED BY <3>2, <3>5, NoConnIsNone DEF IsGhost
  <2> QED BY <2>1
<1> QED BY <1>4, <1>6, <1>8, <1>9

----------------------------------------------------------------------------
(* The handshake.                                                          *)

LEMMA RenamedActiveParts ==
    ASSUME NEW s, IsNode(s), NEW key \in Keys, NEW o \in Nodes
    PROVE  /\ RenamedActive(s, key, o) \in [Keys -> Conns \cup {NoConn}]
           /\ \A k \in Keys : RenamedActive(s, key, o)[k] =
                IF k = o
                THEN IF KeepsConnection(s, key, o) THEN s.active[key] ELSE s.active[o]
                ELSE IF k = key THEN NoConn ELSE s.active[k]
<1> DEFINE first == [s.active EXCEPT ![key] = IF key = o THEN @ ELSE NoConn]
           r == [first EXCEPT ![o] = IF KeepsConnection(s, key, o) THEN s.active[key] ELSE @]
<1>1. o \in Keys
  BY DEF Keys
<1>2. /\ first \in [Keys -> Conns \cup {NoConn}]
      /\ \A k \in Keys : first[k] = IF k = key /\ key # o THEN NoConn ELSE s.active[k]
  BY DEF IsNode
<1>3. s.active[key] \in Conns \cup {NoConn}
  BY DEF IsNode
<1> HIDE DEF first
<1>4. /\ r \in [Keys -> Conns \cup {NoConn}]
      /\ \A k \in Keys : r[k] =
            IF k = o THEN IF KeepsConnection(s, key, o) THEN s.active[key] ELSE first[o]
                     ELSE first[k]
  BY <1>1, <1>2, <1>3
<1>5. RenamedActive(s, key, o) = r
  BY DEF RenamedActive, first
<1> HIDE DEF r
<1> QED BY <1>1, <1>2, <1>4, <1>5

LEMMA RenamedSyncIsSync ==
    ASSUME NEW s, IsNode(s), NEW key \in Keys, NEW o \in Nodes
    PROVE  IsSync(RenamedSync(s, key, o))
<1> DEFINE first == [s.sync EXCEPT ![key] = NoSync]
<1>1. o \in Keys /\ IsSync(s.sync) /\ IsEntry(s.sync[key])
  BY DEF Keys, IsNode, IsSync
<1>2. IsSync(first) /\ IsEntry(first[o])
  <2>1. IsSync(first)
    BY <1>1, NoSyncIsEntry, NewEntry
  <2> HIDE DEF first
  <2> QED BY <1>1, <2>1 DEF IsSync
<1>3. \E entry : IsEntry(entry) /\ RenamedSync(s, key, o) = [first EXCEPT ![o] = entry]
  <2>1. CASE s.sync[key].active /\ RenamedActive(s, key, o)[o] = s.active[key]
    <3>1. RenamedSync(s, key, o) = [first EXCEPT ![o] = s.sync[key]]
      BY <2>1 DEF RenamedSync
    <3> HIDE DEF first
    <3> QED BY <1>1, <3>1
  <2>2. CASE ~(s.sync[key].active /\ RenamedActive(s, key, o)[o] = s.active[key])
    <3>1. RenamedSync(s, key, o) = [first EXCEPT ![o] = first[o]]
      BY <2>2 DEF RenamedSync
    <3> HIDE DEF first
    <3> QED BY <1>2, <3>1
  <2> QED BY <2>1, <2>2
<1> HIDE DEF first
<1>4. PICK entry : IsEntry(entry) /\ RenamedSync(s, key, o) = [first EXCEPT ![o] = entry]
  BY <1>3
<1>5. IsSync([first EXCEPT ![o] = entry])
  BY <1>2, <1>4, NewEntry
<1> QED BY <1>4, <1>5

LEMMA RenamedWorks ==
    ASSUME NEW w, IsWork(w), w.key \in Keys, NEW o \in Nodes, NEW v, v = Renamed(w, o)
    PROVE  /\ IsWork(v) /\ v.n = w.n /\ v.key = w.key /\ v.took = w.took /\ v.failed = w.failed
           /\ v.raising = w.raising
           /\ v.s.active = RenamedActive(w.s, w.key, o)
<1> DEFINE active == RenamedActive(w.s, w.key, o)
           sync == RenamedSync(w.s, w.key, o)
<1>1. IsNode(w.s)
  BY DEF IsWork
<1>2. active \in [Keys -> Conns \cup {NoConn}] /\ IsSync(sync)
  BY <1>1, RenamedActiveParts, RenamedSyncIsSync
<1> HIDE DEF active, sync
<1>3. /\ DOMAIN v = WorkFields /\ v.n = w.n /\ v.key = w.key /\ v.took = w.took
      /\ v.failed = w.failed /\ v.raising = w.raising /\ v.out = w.out
      /\ DOMAIN v.s = NodeFields /\ v.s.active = active /\ v.s.sync = sync
  BY <1>1 DEF Renamed, IsWork, IsNode, WorkFields, NodeFields, active, sync
<1>4. IsWork(v)
  BY <1>2, <1>3 DEF IsWork, IsNode
<1> QED BY <1>3, <1>4 DEF active

LEMMA SyncAfterHandshakeLeads ==
    ASSUME NEW w, IsWork(w), NEW m
    PROVE  /\ Leads(SyncAfterHandshake(w, m), w)
           /\ w.s.active[m.from] \notin {NoConn} \cup w.raising =>
                SyncAfterHandshake(w, m).failed = w.failed
<1>1. \A start : /\ Leads(RequestStream(w, m.from, start), w)
                 /\ w.s.active[m.from] \notin {NoConn} \cup w.raising =>
                        RequestStream(w, m.from, start).failed = w.failed
  BY RequestStreamLeads
<1>2. \/ SyncAfterHandshake(w, m) = w
      \/ \E start : SyncAfterHandshake(w, m) = RequestStream(w, m.from, start)
  BY Zenon DEF SyncAfterHandshake
<1> QED BY <1>1, <1>2, LeadsItself

\* The read task of c at the node n takes up its work.
Begins(c, w) ==
    /\ IsWork(w) /\ w.failed = FALSE
    /\ w.s.active = node[w.n].active
    /\ w.key = conn[c].reader[w.n]
    /\ w.took => conn[c].chan[w.n] # << >>

LEMMA KeyOfReader ==
    ASSUME ConnsAreSound, NEW c \in Conns, NEW w, Begins(c, w)
    PROVE  w.key \in {NoKey, Other(c, w.n), c} /\ w.key \in Keys \cup {NoKey}
<1>1. IsConn(conn[c], c) /\ w.n \in Nodes
  BY DEF ConnsAreSound, Begins, IsWork
<1>2. w.key \in {NoKey, OtherEnd(conn[c], w.n), c} /\ OtherEnd(conn[c], w.n) \in Nodes \cup {NoKey}
  BY <1>1 DEF IsConn, Begins, OtherEnd, NoKey
<1> QED BY <1>2, OtherIsOtherEnd DEF Keys, Begins

\* What is listed when it does.
LEMMA ListedNow ==
    ASSUME ConnsAreSound, NodesAreSound, ListedAreRead, NEW c \in Conns, NEW w, Begins(c, w)
    PROVE  \A k \in Keys : \A d \in Conns :
             w.s.active[k] = d =>
                /\ \/ conn[d].reader[w.n] = k /\ (d = c => k = w.key)
                   \/ node[w.n].active[k] = d /\ IsOver(conn[d], d, w.n, k)
                /\ k = c => d = c
<1> SUFFICES ASSUME NEW k \in Keys, NEW d \in Conns, w.s.active[k] = d
             PROVE  /\ \/ conn[d].reader[w.n] = k /\ (d = c => k = w.key)
                       \/ node[w.n].active[k] = d /\ IsOver(conn[d], d, w.n, k)
                    /\ k = c => d = c
  OBVIOUS
<1>1. w.n \in Nodes /\ node[w.n].active[k] = d
  BY DEF Begins, IsWork
<1>2. conn[d].reader[w.n] = k \/ IsOver(conn[d], d, w.n, k)
  BY <1>1 DEF ListedAreRead
<1>3. d = c /\ conn[d].reader[w.n] = k => k = w.key
  BY DEF Begins
<1>4. k = c => d = c
  <2>1. IsConn(conn[d], d)
    BY DEF ConnsAreSound
  <2>2. k \in {NoKey, OtherEnd(conn[d], w.n), d}
    BY <1>1, <1>2, <2>1 DEF IsConn, IsOver
  <2>3. OtherEnd(conn[d], w.n) \in Nodes \cup {NoNode}
    BY <2>1 DEF IsConn, OtherEnd
  <2> QED BY <2>2, <2>3, KeysApart
<1> QED BY <1>1, <1>2, <1>3, <1>4

LEMMA LeadsFits ==
    ASSUME ConnsAreSound, NodesAreSound, ListedAreRead, NEW c \in Conns, NEW w, Begins(c, w),
           NEW r, Leads(r, w)
    PROVE  Fits(c, r)
<1>1. w.key \in {NoKey, Other(c, w.n), c} /\ w.key = conn[c].reader[w.n]
  BY KeyOfReader DEF Begins
<1>2. /\ r.n = w.n /\ r.key = w.key /\ r.took = w.took
      /\ \A k \in Keys : \A d \in Conns : r.s.active[k] = d => w.s.active[k] = d
  BY NoConnIsNone DEF Leads
<1>3. ASSUME NEW k \in Keys, NEW d \in Conns, r.s.active[k] = d
      PROVE  FitsOn(d, k, c, r)
  BY <1>2, <1>3, ListedNow DEF FitsOn
<1> QED BY <1>1, <1>2, <1>3 DEF Fits, Begins

LEMMA HandshakeFits ==
    ASSUME ConnsAreSound, NodesAreSound, ListedAreRead, NEW c \in Conns,
           NEW w, Begins(c, w), w.key # NoKey,
           NEW m, m.from = Other(c, w.n), m.from \in Nodes, NEW r \in OnHandshake(w, m)
    PROVE  IsWork(r) /\ r.raising = w.raising /\ Fits(c, r)
<1> DEFINE o == m.from
           v == Renamed(w, o)
           u == SyncAfterHandshake(v, m)
<1>1. r = NamedAs(u, o)
  BY DEF OnHandshake
<1>2. /\ w.key \in {o, c} /\ w.key \in Keys /\ o \in Keys
      /\ IsWork(w) /\ IsNode(w.s) /\ w.failed = FALSE
  BY KeyOfReader DEF Begins, IsWork, Keys
<1>3. /\ IsWork(v) /\ v.n = w.n /\ v.key = w.key /\ v.took = w.took /\ v.failed = FALSE
      /\ v.raising = w.raising
      /\ v.s.active = RenamedActive(w.s, w.key, o)
  BY <1>2, RenamedWorks
<1> HIDE DEF v
<1>4. Leads(u, v) /\ (v.s.active[o] \notin {NoConn} \cup w.raising => u.failed = FALSE)
  BY <1>3, SyncAfterHandshakeLeads
<1> HIDE DEF u
<1>5. /\ IsWork(u) /\ u.n = w.n /\ u.key = w.key /\ u.took = w.took /\ u.raising = w.raising
      /\ \A k \in Keys : u.s.active[k] \in {v.s.active[k], NoConn}
  BY <1>3, <1>4 DEF Leads
<1>6. /\ IsWork(r) /\ r.n = w.n /\ r.took = w.took /\ r.s.active = u.s.active
      /\ r.raising = w.raising /\ r.failed = u.failed
      /\ r.key = IF u.failed THEN w.key ELSE o
  <2>1. CASE u.failed
    BY <1>1, <1>5, <2>1 DEF NamedAs
  <2>2. CASE ~u.failed
    <3>1. r = [u EXCEPT !.key = o]
      BY <1>1, <2>2 DEF NamedAs
    <3>2. /\ DOMAIN r = WorkFields /\ r.n = u.n /\ r.key = o /\ r.took = u.took
          /\ r.raising = u.raising /\ r.out = u.out /\ r.s = u.s /\ r.failed = u.failed
      BY <1>5, <3>1 DEF IsWork, WorkFields
    <3>3. IsWork(r)
      BY <1>5, <3>2 DEF IsWork
    <3> QED BY <1>5, <2>2, <3>2, <3>3
  <2> QED BY <2>1, <2>2
<1> DEFINE a == w.s.active
           b == r.s.active
           moved == RenamedActive(w.s, w.key, o)
           keeps == KeepsConnection(w.s, w.key, o)
<1>7. \A k \in Keys : \A d \in Conns :
        b[k] = d =>
            /\ IF k = o THEN d = a[o] \/ d = a[w.key] ELSE k # w.key /\ d = a[k]
            /\ k = o /\ u.failed => d \in w.raising
  <2>1. \A k \in Keys : moved[k] = IF k = o THEN IF keeps THEN a[w.key] ELSE a[o]
                                          ELSE IF k = w.key THEN NoConn ELSE a[k]
    <3>1. o \in Nodes
      OBVIOUS
    <3> HIDE DEF o
    <3> QED BY <1>2, <3>1, RenamedActiveParts
  <2>2. \A k \in Keys : b[k] \in {moved[k], NoConn}
    BY <1>3, <1>5, <1>6
  <2>3. moved[o] \notin {NoConn} \cup w.raising => u.failed = FALSE
    BY <1>3, <1>4
  <2> HIDE DEF a, b, moved, keeps, o
  <2> QED BY <2>1, <2>2, <2>3, NoConnIsNone
<1>8. \A k \in Keys : \A d \in Conns :
        a[k] = d => /\ \/ conn[d].reader[w.n] = k /\ (d = c => k = w.key)
                       \/ node[w.n].active[k] = d /\ IsOver(conn[d], d, w.n, k)
                    /\ k = c => d = c
  BY ListedNow
<1>9. /\ conn[c].reader[w.n] = w.key /\ w.key # NoKey
      /\ conn[c].from # NoNode /\ w.n \notin conn[c].waiting
      /\ \A d \in w.raising : ~conn[d].open
      /\ o = OtherEnd(conn[c], w.n)
  <2>1. conn[c].reader[w.n] = w.key /\ IsConn(conn[c], c) /\ w.n \in Nodes
    BY <1>2 DEF Begins, ConnsAreSound, IsWork
  <2> QED BY <1>2, <2>1, OtherIsOtherEnd DEF IsConn, IsWork
<1> HIDE DEF a, b, o, keeps
<1>10. ASSUME NEW k \in Keys, NEW d \in Conns, b[k] = d
       PROVE  FitsOn(d, k, c, r)
  <2>1. CASE k # o
    <3>1. k # w.key /\ a[k] = d
      BY <1>7, <1>10, <2>1
    <3> QED BY <1>6, <1>8, <1>10, <3>1 DEF FitsOn
  <2>2. CASE k = o /\ a[o] = d
    <3>1. \/ conn[d].reader[w.n] = o /\ (d = c => o = w.key)
          \/ node[w.n].active[o] = d /\ IsOver(conn[d], d, w.n, o)
      BY <1>2, <1>8, <2>2
    <3>2. o = w.key => r.key = o
      BY <1>6
    <3> QED BY <1>6, <2>2, <3>1, <3>2 DEF FitsOn
  <2>3. CASE k = o /\ a[o] # d
    <3>1. d = a[w.key] /\ w.key = c
      BY <1>2, <1>7, <1>10, <2>3
    <3>2. d = c
      BY <1>2, <1>8, <3>1
    <3>3. CASE u.failed
      <4>1. d \in w.raising
        BY <1>7, <1>10, <2>3, <3>3
      <4> QED BY <1>6, <1>9, <2>3, <3>2, <3>3, <4>1 DEF FitsOn
    <3>4. CASE ~u.failed
      BY <1>6, <2>3, <3>2, <3>4 DEF FitsOn
    <3> QED BY <3>3, <3>4
  <2> QED BY <2>1, <2>2, <2>3
<1>11. r.key \in {Other(c, r.n), c}
  BY <1>2, <1>6 DEF o
<1> QED BY <1>6, <1>10, <1>11 DEF Fits, Begins, b

----------------------------------------------------------------------------
(* What a node asks all its peers.                                         *)

LEMMA SyncWithLeads ==
    ASSUME NEW w, IsWork(w), NEW peer, NEW start, NEW fast \in BOOLEAN
    PROVE  Leads(SyncWith(w, peer, start, fast), w)
<1>1. Leads(RequestStream(w, peer, start), w)
  BY RequestStreamLeads
<1>2. Leads(Send(Complete(w, peer), peer, ChainRequest(start)), w)
  <2> DEFINE v == Complete(w, peer)
  <2>1. Leads(v, w)
    BY CompleteLeads
  <2> HIDE DEF v
  <2>2. Leads(Send(v, peer, ChainRequest(start)), v)
    BY <2>1, SendLeads, OthersAreNoHandshake DEF Leads
  <2> QED BY <2>1, <2>2, LeadsOn DEF v
<1>3. \/ SyncWith(w, peer, start, fast) = w
      \/ SyncWith(w, peer, start, fast) = RequestStream(w, peer, start)
      \/ SyncWith(w, peer, start, fast) = Send(Complete(w, peer), peer, ChainRequest(start))
  <2>1. CASE w.failed \/ (fast /\ w.s.sync[peer].active)
    BY <2>1 DEF SyncWith
  <2>2. CASE ~w.failed /\ fast /\ ~w.s.sync[peer].active
    BY <2>2 DEF SyncWith
  <2>3. CASE ~w.failed /\ ~fast
    BY <2>3 DEF SyncWith
  <2> QED BY <2>1, <2>2, <2>3
<1> QED BY <1>1, <1>2, <1>3, LeadsItself

AskedOf(w) == SetToSeq({k \in Keys : w.s.active[k] # NoConn})

NextAsked(w, start, fast, f, n) ==
    IF n = 0 THEN w ELSE SyncWith(f[n - 1], AskedOf(w)[n], start, fast)

\* The recursion of SyncWithAll has a solution.
LEMMA SyncWithAllSolves ==
    ASSUME NEW w, NEW start, NEW fast, Len(AskedOf(w)) \in Nat
    PROVE  \E f : /\ f = [n \in 0 .. Len(AskedOf(w)) |-> NextAsked(w, start, fast, f, n)]
                  /\ SyncWithAll(w, start, fast) = f[Len(AskedOf(w))]
<1> DEFINE Next_(f, n) == NextAsked(w, start, fast, f, n)
           Solves(m, f) == f = [n \in 0 .. m |-> Next_(f, n)]
           Unsolved == {m \in Nat : ~\E f : Solves(m, f)}
<1>1. Unsolved = {}
  <2>1. SUFFICES ASSUME Unsolved # {} PROVE FALSE
    OBVIOUS
  <2>2. PICK m \in Unsolved : \A k \in Unsolved : m <= k
    <3>1. Unsolved \in SUBSET Nat
      OBVIOUS
    <3> HIDE DEF Unsolved
    <3> QED BY <2>1, <3>1, LeastNatural
  <2>3. m \in Nat
    OBVIOUS
  <2>4. m # 0
    <3> DEFINE f0 == [n \in 0 .. 0 |-> w]
    <3>1. \A n \in 0 .. 0 : Next_(f0, n) = w
      BY DEF NextAsked
    <3> HIDE DEF Next_
    <3>2. Solves(0, f0)
      BY <3>1
    <3> QED BY <3>2
  <2>5. PICK g : Solves(m - 1, g)
    <3>1. m - 1 \in Nat /\ ~(m <= m - 1)
      BY <2>3, <2>4
    <3>2. m - 1 \notin Unsolved
      BY <3>1, <2>2
    <3> QED BY <3>1, <3>2
  <2> DEFINE f == [n \in 0 .. m |-> IF n = m THEN Next_(g, m) ELSE g[n]]
  <2>6. \A n \in 0 .. m : Next_(f, n) = Next_(g, n)
    <3> TAKE n \in 0 .. m
    <3>1. n # 0 => f[n - 1] = g[n - 1]
      BY <2>3
    <3> HIDE DEF f
    <3> QED BY <3>1 DEF NextAsked
  <2>7. \A n \in 0 .. m - 1 : g[n] = Next_(g, n)
    <3> HIDE DEF Next_
    <3> QED BY <2>5
  <2>8. \A n \in 0 .. m : f[n] = Next_(f, n)
    <3> HIDE DEF Next_
    <3> QED BY <2>3, <2>6, <2>7
  <2>9. Solves(m, f)
    <3> HIDE DEF Next_
    <3> QED BY <2>8
  <2> QED BY <2>9
<1>2. PICK f : Solves(Len(AskedOf(w)), f)
  BY <1>1
<1> DEFINE h == CHOOSE f_1 : f_1 = [n \in 0 .. Len(AskedOf(w)) |-> Next_(f_1, n)]
<1>3. SyncWithAll(w, start, fast) = h[Len(AskedOf(w))]
  BY DEF SyncWithAll, NextAsked, AskedOf
<1>4. h = [n \in 0 .. Len(AskedOf(w)) |-> Next_(h, n)]
  <2> HIDE DEF Next_
  <2> QED BY <1>2
<1> QED BY <1>3, <1>4

LEMMA SyncWithAllLeads ==
    ASSUME NEW w, IsWork(w), NEW start, NEW fast \in BOOLEAN
    PROVE  Leads(SyncWithAll(w, start, fast), w)
<1> DEFINE last == Len(AskedOf(w))
<1>1. last \in Nat
  <2> DEFINE peers == {k \in Keys : w.s.active[k] # NoConn}
  <2>1. IsFiniteSet(peers)
    BY KeysAreFinite, FS_Subset
  <2>2. AskedOf(w) \in Seq(peers)
    BY <2>1, ListOfSet DEF AskedOf
  <2> HIDE DEF peers
  <2> QED BY <2>2
<1>2. PICK f : /\ f = [n \in 0 .. last |-> NextAsked(w, start, fast, f, n)]
               /\ SyncWithAll(w, start, fast) = f[last]
  BY <1>1, SyncWithAllSolves
<1>3. \A i \in 0 .. last : f[i] = NextAsked(w, start, fast, f, i)
  BY <1>2
<1> HIDE DEF last
<1> DEFINE Good == {i \in 0 .. last : Leads(f[i], w)}
<1>4. 0 \in Good
  BY <1>1, <1>3, LeadsItself DEF NextAsked
<1>5. ASSUME NEW i \in 0 .. last, i # last, i \in Good PROVE i + 1 \in Good
  <2> DEFINE k == i + 1
  <2>1. k \in 0 .. last /\ k # 0 /\ k - 1 = i
    BY <1>1, <1>5
  <2>2. f[k] = SyncWith(f[i], AskedOf(w)[k], start, fast)
    BY <1>3, <2>1 DEF NextAsked
  <2> HIDE DEF k
  <2>3. Leads(f[i], w) /\ IsWork(f[i])
    BY <1>5 DEF Leads
  <2>4. Leads(f[k], f[i])
    BY <2>2, <2>3, SyncWithLeads
  <2> QED BY <2>1, <2>3, <2>4, LeadsOn DEF k
<1>6. last \in Good
  <2> HIDE DEF Good
  <2> QED BY <1>1, <1>4, <1>5, ReachesLast
<1> QED BY <1>2, <1>6

----------------------------------------------------------------------------
(* The work a task takes up.                                               *)

\* The writes that may meet a loss, by a budget b.
LEMMA RaisesCount ==
    ASSUME CanRaise(budget), NEW raising \in Raising,
           NEW b, CanRaise(b), b.raises = budget.raises
    PROVE  /\ raising \subseteq {c \in Conns : ~conn[c].open}
           /\ CanRaise(Raised(b, raising))
           /\ raising = {} \/ Raised(b, raising).raises < budget.raises
<1>1. CASE raising = {}
  <2>1. DOMAIN Raised(b, raising) = DOMAIN b /\ Raised(b, raising).raises = b.raises
    BY <1>1 DEF Raised, CanRaise
  <2> QED BY <1>1, <2>1 DEF CanRaise
<1>2. CASE raising # {}
  <2>1. raising \subseteq {c \in Conns : ~conn[c].open} /\ budget.raises > 0
    BY <1>2 DEF Raising
  <2>2. DOMAIN Raised(b, raising) = DOMAIN b /\ Raised(b, raising).raises = b.raises - 1
    BY <1>2 DEF Raised, CanRaise
  <2> QED BY <2>1, <2>2 DEF CanRaise
<1> QED BY <1>1, <1>2

LEMMA WorkBegins ==
    ASSUME NodesAreSound, NEW n \in Nodes, NEW key,
           NEW raising, raising \subseteq {c \in Conns : ~conn[c].open},
           NEW w, w = Work(n, key, raising)
    PROVE  IsWork(w) /\ w.n = n /\ w.key = key /\ w.s = node[n] /\ w.raising = raising
<1>1. /\ DOMAIN w = WorkFields /\ w.n = n /\ w.key = key /\ w.s = node[n]
      /\ w.raising = raising
  BY DEF Work, WorkFields
<1> DEFINE none == << >>
<1>2. w.out = none
  BY DEF Work
<1>3. SentBy(none, n)
  BY NoMail
<1> HIDE DEF none
<1>4. IsWork(w)
  BY <1>1, <1>2, <1>3 DEF IsWork, NodesAreSound
<1> QED BY <1>1, <1>4

LEMMA WorkIsNew ==
    ASSUME NEW n, NEW key, NEW raising, NEW w, w = Work(n, key, raising)
    PROVE  w.took = FALSE /\ w.failed = FALSE
BY DEF Work

\* A task that reads no connection.
LEMMA NobodyFits ==
    ASSUME ListedAreRead, NodesAreSound, NEW w, IsWork(w), w.s.active = node[w.n].active,
           NEW r, Leads(r, w)
    PROVE  Fits(NoConn, r)
<1>1. r.n = w.n /\ w.n \in Nodes
  BY DEF Leads, IsWork
<1>2. ASSUME NEW k \in Keys, NEW d \in Conns, r.s.active[k] = d
      PROVE  FitsOn(d, k, NoConn, r)
  <2>1. node[r.n].active[k] = d /\ d # NoConn
    BY <1>1, <1>2, NoConnIsNone DEF Leads
  <2>2. conn[d].reader[r.n] = k \/ IsOver(conn[d], d, r.n, k)
    BY <1>1, <2>1 DEF ListedAreRead
  <2> QED BY <2>1, <2>2 DEF FitsOn
<1> QED BY <1>2, NoConnIsNone DEF Fits

----------------------------------------------------------------------------
(* The steps of a read task.                                               *)

\* A step keeps what is listed; it makes a ghost only where a write meets a loss.
KeepsPeers == PeersInv' /\ (NewGhosts = {} \/ budget'.raises < budget.raises)

\* A task ends with what it may end with.
LEMMA SettledInv ==
    ASSUME PeersInv, NEW c \in Conns \cup {NoConn}, NEW w, IsWork(w), Fits(c, w), Settle(c, w),
           w.raising \in Raising,
           NEW b, CanRaise(b), b.raises = budget.raises, budget' = Raised(b, w.raising)
    PROVE  KeepsPeers
<1>1. ConnsAreSound' /\ NodesAreSound' /\ ListedAreRead' /\ (w.raising = {} => NewGhosts = {})
  BY SettleKeeps DEF PeersInv
<1>2. CanRaise(budget)
  BY DEF PeersInv
<1> DEFINE after == Raised(b, w.raising)
           raising == w.raising
<1>3. CanRaise(after) /\ (raising = {} \/ after.raises < budget.raises)
  <2>1. raising \in Raising
    OBVIOUS
  <2> HIDE DEF raising
  <2>2. /\ CanRaise(Raised(b, raising))
        /\ raising = {} \/ Raised(b, raising).raises < budget.raises
    BY <1>2, <2>1, RaisesCount
  <2> QED BY <2>2 DEF raising
<1>4. budget' = after
  OBVIOUS
<1> HIDE DEF after
<1>5. CanRaise(budget)' /\ (raising = {} \/ budget'.raises < budget.raises)
  BY <1>3, <1>4 DEF CanRaise
<1> QED BY <1>1, <1>5 DEF KeepsPeers, PeersInv

LEMMA ReadKeeps ==
    ASSUME PeersInv, NEW n \in Nodes, NEW c \in Conns, Read(n, c)
    PROVE  KeepsPeers
<1> DEFINE key == conn[c].reader[n]
           m == Head(conn[c].chan[n])
<1>1. /\ ConnsAreSound /\ NodesAreSound /\ ListedAreRead /\ CanRaise(budget)
      /\ key # NoKey /\ conn[c].chan[n] # << >>
  BY DEF PeersInv, Read, Reads
<1>2. PICK raising \in Raising :
        /\ \E w \in {[Work(n, key, raising) EXCEPT !.took = TRUE]} :
              \E done \in Handled(w, m) : Settle(c, done)
        /\ budget' = Raised(budget, raising)
  BY DEF Read
<1> DEFINE v == Work(n, key, raising)
           w == [v EXCEPT !.took = TRUE]
<1>3. PICK done \in Handled(w, m) : Settle(c, done)
  BY <1>2
<1>4. Begins(c, w) /\ w.n = n /\ w.key = key /\ w.raising = raising
  <2>1. v = Work(n, key, raising) /\ raising \subseteq {d \in Conns : ~conn[d].open}
    BY <1>1, RaisesCount
  <2> HIDE DEF key, v
  <2>2. IsWork(v) /\ v.n = n /\ v.key = key /\ v.s = node[n] /\ v.raising = raising
    BY <1>1, <2>1, WorkBegins
  <2>3. v.failed = FALSE
    BY <2>1, WorkIsNew
  <2>4. /\ DOMAIN w = WorkFields /\ w.n = n /\ w.key = key /\ w.s = node[n]
        /\ w.failed = FALSE /\ w.raising = v.raising /\ w.out = v.out
    BY <2>2, <2>3 DEF IsWork, WorkFields
  <2> HIDE DEF w
  <2>5. IsWork(w)
    BY <2>2, <2>4 DEF IsWork
  <2> QED BY <1>1, <2>2, <2>4, <2>5 DEF Begins, key
<1>5. FromPeer(m, Other(c, n))
  <2>1. MailOf(conn[c].chan[n], Other(c, n))
    BY <1>1, OtherIsOtherEnd DEF ConnsAreSound, IsConn
  <2> QED BY <1>1, <2>1, MailIsRead
<1> HIDE DEF key, m, v, w
<1>6. w.key \in Keys /\ IsWork(w)
  BY <1>1, <1>4, KeyOfReader DEF Begins
<1>7. IsWork(done) /\ done.raising = raising /\ Fits(c, done)
  <2>1. CASE m.type = "handshake"
    <3>1. m.from = Other(c, w.n) /\ m.from \in Nodes
      BY <1>4, <1>5, <2>1 DEF FromPeer
    <3>2. done \in OnHandshake(w, m)
      BY <1>3, <2>1 DEF Handled
    <3> QED BY <1>1, <1>4, <3>1, <3>2, HandshakeFits
  <2>2. CASE m.type # "handshake"
    <3>1. Leads(done, w)
      BY <1>3, <1>5, <1>6, <2>2, HandledLeads
    <3> QED BY <1>1, <1>4, <3>1, LeadsFits DEF Leads
  <2> QED BY <2>1, <2>2
<1> QED BY <1>1, <1>2, <1>3, <1>7, SettledInv

\* A task that goes on with the peers it began with.
LEMMA OtherWorkBegins ==
    ASSUME NodesAreSound, NEW n \in Nodes, NEW c,
           NEW raising, raising \subseteq {d \in Conns : ~conn[d].open},
           NEW w, w = Work(n, conn[c].reader[n], raising)
    PROVE  Begins(c, w) /\ w.n = n /\ w.raising = raising
<1> DEFINE key == conn[c].reader[n]
<1>1. w = Work(n, key, raising) /\ key = conn[c].reader[n]
  OBVIOUS
<1> HIDE DEF key
<1>2. IsWork(w) /\ w.n = n /\ w.key = key /\ w.s = node[n] /\ w.raising = raising
  BY <1>1, WorkBegins
<1>3. w.took = FALSE /\ w.failed = FALSE
  BY <1>1, WorkIsNew
<1> QED BY <1>1, <1>2, <1>3 DEF Begins

LEMMA ServedLeads ==
    ASSUME NEW w, IsWork(w), NEW stream, NEW chunk, FromPeer(chunk, w.n)
    PROVE  Leads(Served(w, stream, chunk), w)
<1>1. CASE stream.to \in w.raising
  <2>1. Served(w, stream, chunk) = [w EXCEPT !.failed = TRUE]
    BY <1>1 DEF Served
  <2> QED BY <2>1, OtherFields
<1>2. CASE stream.to \notin w.raising
  <2> DEFINE out == <<<<stream.to, chunk>>>>
             serve == IF chunk.done THEN NoStream ELSE [stream EXCEPT !.next = chunk.next]
             x == [w EXCEPT !.out = out, !.serve = serve]
  <2>1. Served(w, stream, chunk) = x
    BY <1>2 DEF Served
  <2>2. SentBy(out, w.n)
    <3> DEFINE pair == <<stream.to, chunk>>
    <3>1. pair[2] = chunk /\ out \in Seq({pair})
      OBVIOUS
    <3> HIDE DEF pair, out
    <3> QED BY <3>1 DEF SentBy
  <2> HIDE DEF out, serve
  <2>3. /\ DOMAIN x = WorkFields /\ x.n = w.n /\ x.key = w.key /\ x.raising = w.raising
        /\ x.s = w.s /\ x.out = out /\ x.took = w.took
    BY DEF IsWork, WorkFields
  <2> HIDE DEF x
  <2>4. IsWork(x)
    BY <2>2, <2>3 DEF IsWork
  <2> QED BY <2>1, <2>3, <2>4 DEF Leads
<1> QED BY <1>1, <1>2

LEMMA ServeKeeps ==
    ASSUME PeersInv, NEW n \in Nodes, NEW c \in Conns, Serve(n, c)
    PROVE  KeepsPeers
<1> DEFINE stream == conn[c].serving[n]
           chunk == ChunkOf(stream.chain, stream.next)
<1>1. ConnsAreSound /\ NodesAreSound /\ ListedAreRead /\ CanRaise(budget)
  BY DEF PeersInv
<1>2. PICK raising \in Raising :
        /\ Settle(c, Served(Work(n, conn[c].reader[n], raising), stream, chunk))
        /\ budget' = Raised(budget, raising)
  BY DEF Serve
<1> DEFINE w == Work(n, conn[c].reader[n], raising)
           r == Served(w, stream, chunk)
<1>3. Begins(c, w) /\ w.n = n /\ w.raising = raising
  <2>1. raising \subseteq {d \in Conns : ~conn[d].open} /\ w = Work(n, conn[c].reader[n], raising)
    BY <1>1, RaisesCount
  <2> HIDE DEF w
  <2> QED BY <1>1, <2>1, OtherWorkBegins
<1>4. FromPeer(chunk, n) /\ Settle(c, r)
  BY <1>2, OthersAreNoHandshake
<1> HIDE DEF w, stream, chunk
<1>5. Leads(r, w)
  BY <1>3, <1>4, ServedLeads DEF Begins
<1> HIDE DEF r
<1>6. IsWork(r) /\ Fits(c, r) /\ r.raising = raising
  BY <1>1, <1>3, <1>5, LeadsFits DEF Leads
<1> QED BY <1>1, <1>2, <1>4, <1>6, SettledInv

LEMMA EndReadKeeps ==
    ASSUME PeersInv, NEW n \in Nodes, NEW c \in Conns, EndRead(n, c)
    PROVE  KeepsPeers
<1> DEFINE w == Work(n, conn[c].reader[n], {})
           r == [w EXCEPT !.failed = TRUE]
<1>1. ConnsAreSound /\ NodesAreSound /\ ListedAreRead /\ CanRaise(budget)
  BY DEF PeersInv
<1>2. Settle(c, r) /\ budget' = budget
  BY DEF EndRead
<1>3. Begins(c, w) /\ w.raising = {}
  <2>1. w = Work(n, conn[c].reader[n], {}) /\ {} \subseteq {d \in Conns : ~conn[d].open}
    OBVIOUS
  <2> HIDE DEF w
  <2> QED BY <1>1, <2>1, OtherWorkBegins
<1> HIDE DEF w
<1>4. Leads(r, w)
  BY <1>3, OtherFields DEF Begins
<1> HIDE DEF r
<1>5. IsWork(r) /\ Fits(c, r) /\ r.raising = {}
  BY <1>1, <1>3, <1>4, LeadsFits DEF Leads
<1>6. ConnsAreSound' /\ NodesAreSound' /\ ListedAreRead' /\ NewGhosts = {}
  BY <1>1, <1>2, <1>5, SettleKeeps
<1> QED BY <1>1, <1>2, <1>6 DEF KeepsPeers, PeersInv, CanRaise

----------------------------------------------------------------------------
(* The steps of the node itself.                                           *)

LEMMA MineKeeps ==
    ASSUME PeersInv, NEW n \in Nodes, NEW b, Mine(n, b)
    PROVE  KeepsPeers
<1> DEFINE left == [budget EXCEPT !.mines[n] = @ \ {b}]
<1>1. NodesAreSound /\ ListedAreRead /\ CanRaise(budget)
  BY DEF PeersInv
<1>2. PICK raising \in Raising :
        Settle(NoConn, Mined(Work(n, NoKey, raising), b)) /\ budget' = Raised(left, raising)
  BY DEF Mine
<1> DEFINE w == Work(n, NoKey, raising)
           s == Seen(Import(w.s, <<b>>), b)
           v == [w EXCEPT !.s = s]
           r == Mined(w, b)
<1>3. IsWork(w) /\ w.n = n /\ w.s = node[n] /\ w.raising = raising
  <2>1. raising \subseteq {d \in Conns : ~conn[d].open}
    BY <1>1, RaisesCount
  <2> QED BY <1>1, <2>1, WorkBegins
<1>4. r = Broadcast(v, BlockMessage(b), {}) /\ Settle(NoConn, r)
  BY <1>2 DEF Mined
<1> HIDE DEF w, r
<1>5. IsNode(s) /\ s.active = w.s.active
  <2> DEFINE after == Import(w.s, <<b>>)
  <2>1. IsNode(after) /\ after.active = w.s.active
    BY <1>3, ImportedNode DEF IsWork
  <2> HIDE DEF after
  <2>2. IsNode(Seen(after, b)) /\ Seen(after, b).active = after.active
    BY <2>1, SeenNode
  <2> QED BY <2>1, <2>2 DEF after
<1> HIDE DEF s
<1>6. Leads(v, w)
  BY <1>3, <1>5, NewState
<1> HIDE DEF v
<1>7. Leads(r, w)
  <2>1. IsWork(v) /\ FromPeer(BlockMessage(b), v.n)
    BY <1>6, OthersAreNoHandshake DEF Leads
  <2> QED BY <1>4, <1>6, <2>1, BroadcastLeads, LeadsOn
<1>8. IsWork(r) /\ Fits(NoConn, r) /\ r.raising = raising
  BY <1>1, <1>3, <1>7, NobodyFits DEF Leads
<1>9. CanRaise(left) /\ left.raises = budget.raises
  BY <1>1 DEF CanRaise
<1> HIDE DEF left
<1> QED BY <1>2, <1>4, <1>8, <1>9, SettledInv

LEMMA SyncKeeps ==
    ASSUME PeersInv, NEW n \in Nodes, NEW fast \in BOOLEAN, Sync(n, fast)
    PROVE  KeepsPeers
<1> DEFINE start == HeightOf(node[n].tip) + 1
           left == [budget EXCEPT !.syncs = @ - 1]
<1>1. NodesAreSound /\ ListedAreRead /\ CanRaise(budget)
  BY DEF PeersInv
<1>2. PICK raising \in Raising :
        /\ Settle(NoConn, SyncWithAll(Work(n, NoKey, raising), start, fast))
        /\ budget' = Raised(left, raising)
  BY DEF Sync
<1> DEFINE w == Work(n, NoKey, raising)
           r == SyncWithAll(w, start, fast)
<1>3. IsWork(w) /\ w.n = n /\ w.s = node[n] /\ w.raising = raising
  <2>1. raising \subseteq {d \in Conns : ~conn[d].open}
    BY <1>1, RaisesCount
  <2> QED BY <1>1, <2>1, WorkBegins
<1>4. Settle(NoConn, r)
  BY <1>2
<1> HIDE DEF w, start
<1>5. Leads(r, w)
  BY <1>3, SyncWithAllLeads
<1> HIDE DEF r
<1>6. IsWork(r) /\ Fits(NoConn, r) /\ r.raising = raising
  BY <1>1, <1>3, <1>5, NobodyFits DEF Leads
<1>7. CanRaise(left) /\ left.raises = budget.raises
  BY <1>1 DEF CanRaise
<1> HIDE DEF left
<1> QED BY <1>2, <1>4, <1>6, <1>7, SettledInv

LEMMA ReadByParts ==
    ASSUME NEW d, DOMAIN d = ConnFields, NEW w, NEW r, r = ReadBy(w, d)
    PROVE  /\ DOMAIN r = ConnFields /\ r.from = d.from /\ r.to = d.to /\ r.chan = d.chan
           /\ r.waiting = d.waiting \ {w.n} /\ r.open = d.open
           /\ r.reader = [d.reader EXCEPT ![w.n] = IF w.failed THEN NoKey ELSE w.key]
BY DEF ReadBy, ConnFields

\* The node n takes up a connection under the name of its peer, or under the
\* port it came from.
LEMMA RegisterKeeps ==
    ASSUME PeersInv, NEW n \in Nodes, NEW c \in Conns, Register(n, c)
    PROVE  KeepsPeers
<1> DEFINE key == IF n = conn[c].from THEN conn[c].to ELSE c
           active == [node[n].active EXCEPT ![key] = c]
<1>1. ConnsAreSound /\ NodesAreSound /\ ListedAreRead /\ CanRaise(budget)
  BY DEF PeersInv
<1>2. /\ n \in conn[c].waiting
      /\ \E raising \in Raising :
            /\ Registered(c, Send([Work(n, key, raising) EXCEPT !.s.active[key] = c], key,
                                  Handshake(n, node[n])))
            /\ budget' = Raised(budget, raising)
  BY DEF Register
<1>3. IsConn(conn[c], c) /\ conn[c].from # NoNode /\ conn[c].to # NoNode
  BY <1>1, <1>2 DEF ConnsAreSound, IsConn
<1>4. key \in Keys /\ key \in {OtherEnd(conn[c], n), c}
  BY <1>3 DEF IsConn, OtherEnd, Keys
<1>5. IsNode(node[n])
  BY <1>1 DEF NodesAreSound
<1> HIDE DEF key
<1> SUFFICES ASSUME NEW raising \in Raising,
                    Registered(c, Send([Work(n, key, raising) EXCEPT !.s.active[key] = c], key,
                                       Handshake(n, node[n]))),
                    budget' = Raised(budget, raising)
             PROVE  KeepsPeers
  BY <1>2
<1> DEFINE v == Work(n, key, raising)
           u == [v EXCEPT !.s.active[key] = c]
           w == Send(u, key, Handshake(n, node[n]))
<1>6. Registered(c, w)
  OBVIOUS
<1>7. /\ raising \subseteq {d \in Conns : ~conn[d].open}
      /\ CanRaise(Raised(budget, raising))
      /\ raising = {} \/ Raised(budget, raising).raises < budget.raises
  BY <1>1, RaisesCount
<1>8. IsWork(v) /\ v.n = n /\ v.key = key /\ v.s = node[n] /\ v.raising = raising
  BY <1>1, <1>7, WorkBegins
<1>9. v.took = FALSE /\ v.failed = FALSE
  BY WorkIsNew
<1> HIDE DEF v
<1>10. /\ active \in [Keys -> Conns \cup {NoConn}] /\ active[key] = c
       /\ \A k \in Keys \ {key} : active[k] = node[n].active[k]
  BY <1>4, <1>5 DEF IsNode
<1> HIDE DEF active
<1>11. /\ IsWork(u) /\ u.n = n /\ u.key = key /\ u.s.active = active
       /\ u.took = FALSE /\ u.failed = FALSE /\ u.raising = raising
  <2> DEFINE s == [node[n] EXCEPT !.active = active]
  <2>1. DOMAIN s = NodeFields /\ s.active = active /\ s.sync = node[n].sync
    BY <1>5 DEF IsNode, NodeFields
  <2>2. u = [v EXCEPT !.s = s]
    BY <1>8 DEF active
  <2> HIDE DEF s, u
  <2>3. IsNode(s)
    BY <1>5, <1>10, <2>1 DEF IsNode
  <2>4. /\ DOMAIN u = WorkFields /\ u.n = n /\ u.key = key /\ u.s = s /\ u.took = FALSE
        /\ u.failed = FALSE /\ u.raising = v.raising /\ u.out = v.out
    BY <1>8, <1>9, <2>2 DEF IsWork, WorkFields
  <2>5. IsWork(u)
    BY <1>8, <2>3, <2>4 DEF IsWork
  <2> QED BY <1>8, <2>1, <2>4, <2>5
<1> HIDE DEF u
<1>12. Leads(w, u) /\ (w.failed => c \in raising)
  <2>1. FromPeer(Handshake(n, node[n]), u.n)
    BY <1>11, HandshakeIsOwn
  <2>2. u.s.active[key] = c /\ c # NoConn
    BY <1>10, <1>11, NoConnIsNone
  <2>3. Leads(w, u) /\ (u.s.active[key] \notin {NoConn} \cup u.raising => w.failed = u.failed)
    BY <1>11, <2>1, SendLeads
  <2> HIDE DEF w
  <2> QED BY <1>11, <2>2, <2>3
<1>13. /\ node' = [node EXCEPT ![w.n] = w.s]
       /\ conn' = [conn EXCEPT ![c] = ReadBy(w, ConnAfter(c, NoConn, w))]
  BY <1>6 DEF Registered
<1> HIDE DEF w
<1>14. /\ IsWork(w) /\ w.n = n /\ w.key = key /\ w.took = FALSE /\ IsNode(w.s)
       /\ \A k \in Keys : w.s.active[k] \in {active[k], NoConn}
  BY <1>11, <1>12 DEF Leads, IsWork
<1> DEFINE r == ReadBy(w, ConnAfter(c, NoConn, w))
           name == IF w.failed THEN NoKey ELSE key
<1>15. /\ DOMAIN node' = Nodes /\ node'[n] = w.s
       /\ \A m \in Nodes \ {n} : node'[m] = node[m]
       /\ DOMAIN conn' = Conns /\ conn'[c] = r
       /\ \A d \in Conns \ {c} : conn'[d] = conn[d]
  <2> HIDE DEF r
  <2>1. conn' = [conn EXCEPT ![c] = r]
    BY <1>13 DEF r
  <2> QED BY <1>1, <1>13, <1>14, <2>1 DEF NodesAreSound, ConnsAreSound
<1>16. /\ DOMAIN r = ConnFields /\ r.from = conn[c].from /\ r.to = conn[c].to
       /\ r.waiting = conn[c].waiting \ {n} /\ (r.open => conn[c].open)
       /\ DOMAIN r.reader = Nodes
       /\ \A m \in Nodes : r.reader[m] = IF m = n THEN name ELSE conn[c].reader[m]
       /\ DOMAIN r.chan = Nodes
       /\ \A m \in Nodes : MailOf(r.chan[m], OtherEnd(conn[c], m))
  <2> DEFINE d == ConnAfter(c, NoConn, w)
  <2>1. d = ConnAfter(c, NoConn, w) /\ c # NoConn
    BY NoConnIsNone
  <2>2. r = ReadBy(w, d)
    OBVIOUS
  <2> HIDE DEF d, r
  <2>3. /\ DOMAIN d = ConnFields
        /\ d.from = conn[c].from /\ d.to = conn[c].to /\ d.waiting = conn[c].waiting
        /\ d.open => conn[c].open
        /\ DOMAIN d.reader = Nodes
        /\ \A m \in Nodes : d.reader[m] = conn[c].reader[m]
        /\ \/ w.n \in Ends(c) /\ d.chan = ChanAfter(conn[c].chan, c, NoConn, w)
           \/ w.n \notin Ends(c) /\ d.chan = conn[c].chan
    BY <1>3, <1>14, <2>1, ConnAfterParts
  <2>4. /\ DOMAIN r = ConnFields /\ r.from = d.from /\ r.to = d.to /\ r.chan = d.chan
        /\ r.waiting = d.waiting \ {n} /\ r.open = d.open
        /\ r.reader = [d.reader EXCEPT ![n] = name]
    BY <1>14, <2>2, <2>3, ReadByParts
  <2>5. DOMAIN d.chan = Nodes /\ \A m \in Nodes : MailOf(d.chan[m], OtherEnd(conn[c], m))
    <3>1. CASE w.n \in Ends(c)
      <4>1. d.chan = ChanAfter(conn[c].chan, c, NoConn, w)
        BY <2>3, <3>1
      <4> QED BY <1>3, <1>14, <2>1, <3>1, <4>1, ChanAfterMail
    <3>2. CASE w.n \notin Ends(c)
      BY <1>3, <2>3, <3>2 DEF IsConn
    <3> QED BY <3>1, <3>2
  <2> QED BY <2>3, <2>4, <2>5
<1> HIDE DEF r, name
<1>17. IsConn(r, c)
  <2>1. \A m \in Nodes : OtherEnd(r, m) = OtherEnd(conn[c], m)
    BY <1>16 DEF OtherEnd
  <2>2. ASSUME NEW m \in Nodes
        PROVE  /\ r.reader[m] \in {NoKey, OtherEnd(r, m), c}
               /\ r.from = NoNode => r.reader[m] = NoKey
               /\ m \in r.waiting => r.reader[m] = NoKey
    BY <1>3, <1>4, <1>16, <2>1 DEF IsConn, name
  <2> QED BY <1>3, <1>16, <2>1, <2>2 DEF IsConn
<1>18. ConnsAreSound'
  BY <1>1, <1>15, <1>17 DEF ConnsAreSound
<1>19. NodesAreSound'
  BY <1>1, <1>14, <1>15 DEF NodesAreSound
<1>20. ASSUME NEW m \in Nodes, NEW k \in Keys, NEW d \in Conns, node'[m].active[k] = d
       PROVE  /\ conn'[d].reader[m] = k \/ IsOver(conn'[d], d, m, k)
              /\ \/ conn'[d].reader[m] = k
                 \/ node[m].active[k] = d /\ conn[d].reader[m] # k
                 \/ raising # {}
  <2>0. d # NoConn /\ k # NoKey /\ \A i : OtherEnd(r, i) = OtherEnd(conn[c], i)
    BY <1>16, NoConnIsNone, KeysApart DEF OtherEnd
  <2>1. CASE m = n /\ k = key
    <3>1. d = c
      BY <1>10, <1>14, <1>15, <1>20, <2>0, <2>1
    <3>2. CASE ~w.failed
      BY <1>15, <1>16, <2>1, <3>1, <3>2 DEF name
    <3>3. CASE w.failed
      <4>1. c \in raising /\ ~conn[c].open
        BY <1>7, <1>12, <3>3
      <4>2. r.reader[n] = NoKey
        BY <1>16, <3>3 DEF name
      <4>3. IsOver(r, c, n, key)
        BY <1>3, <1>4, <1>16, <2>0, <4>1, <4>2 DEF IsOver
      <4> QED BY <1>15, <2>1, <3>1, <4>1, <4>3
    <3> QED BY <3>2, <3>3
  <2>2. CASE ~(m = n /\ k = key)
    <3>1. node[m].active[k] = d
      BY <1>10, <1>14, <1>15, <1>20, <2>0, <2>2
    <3>2. conn[d].reader[m] = k \/ IsOver(conn[d], d, m, k)
      BY <1>1, <3>1 DEF ListedAreRead
    <3>3. m = n => d # c
      BY <1>2, <1>3, <2>0, <3>2 DEF IsConn, IsOver
    <3>4. CASE d # c
      BY <1>15, <3>1, <3>2, <3>4
    <3>5. CASE d = c
      <4>1. m # n /\ conn'[d] = r /\ r.reader[m] = conn[c].reader[m]
        BY <1>15, <1>16, <3>3, <3>5
      <4>2. IsOver(conn[c], c, m, k) => IsOver(r, c, m, k)
        BY <1>16, <2>0, <4>1 DEF IsOver
      <4> QED BY <3>1, <3>2, <3>5, <4>1, <4>2
    <3> QED BY <3>4, <3>5
  <2> QED BY <2>1, <2>2
<1>21. ListedAreRead'
  BY <1>20 DEF ListedAreRead
<1>22. ASSUME raising = {} PROVE NewGhosts = {}
  <2>1. ASSUME NEW p \in NewGhosts PROVE FALSE
    <3>1. PICK m \in Nodes, k \in Keys : p = <<m, k>>
      BY <2>1 DEF NewGhosts
    <3>2. ~IsGhost(m, k) /\ IsGhost(m, k)'
      BY <2>1, <3>1 DEF NewGhosts
    <3>3. PICK d \in Conns : node'[m].active[k] = d
      BY <1>19, <3>2 DEF IsGhost, NodesAreSound, IsNode
    <3>4. conn'[d].reader[m] # k
      BY <3>2, <3>3 DEF IsGhost
    <3>5. node[m].active[k] = d /\ conn[d].reader[m] # k
      BY <1>20, <1>22, <3>3, <3>4
    <3> QED BY <3>2, <3>5, NoConnIsNone DEF IsGhost
  <2> QED BY <2>1
<1>23. CanRaise(budget)'
  BY <1>7 DEF CanRaise
<1> QED BY <1>7, <1>18, <1>19, <1>21, <1>22, <1>23 DEF PeersInv, KeepsPeers

----------------------------------------------------------------------------
(* The environment.                                                        *)

LEMMA UnusedConn ==
    ASSUME NEW n \in Nodes, NEW m \in Nodes, NEW c \in Conns, NEW d,
           d = [Unused EXCEPT !.from = n, !.to = m, !.waiting = {n, m}, !.open = TRUE]
    PROVE  IsConn(d, c)
<1> DEFINE none == << >>
<1>1. /\ DOMAIN d = ConnFields /\ d.from = n /\ d.to = m
      /\ d.chan = [k \in Nodes |-> none] /\ d.reader = [k \in Nodes |-> NoKey]
  BY DEF Unused, ConnFields
<1>2. \A k : MailOf(none, k)
  BY NoMail
<1> HIDE DEF none
<1>3. n # NoNode /\ m # NoNode
  BY NodesAssumption
<1> QED BY <1>1, <1>2, <1>3 DEF IsConn

\* What leaves the lists and the readers as they are, and opens nothing that is
\* listed, makes no ghost.
LEMMA SameLists ==
    ASSUME NodesAreSound, NodesAreSound', ListedAreRead,
           \A n \in Nodes : \A k \in Keys : node'[n].active[k] \in {node[n].active[k], NoConn},
           \A n \in Nodes : \A k \in Keys : \A d \in Conns : node[n].active[k] = d =>
               /\ conn'[d].reader[n] = conn[d].reader[n]
               /\ IsOver(conn[d], d, n, k) => IsOver(conn'[d], d, n, k)
    PROVE  ListedAreRead' /\ NewGhosts = {}
<1>1. ASSUME NEW n \in Nodes, NEW k \in Keys, NEW d \in Conns, node'[n].active[k] = d
      PROVE  /\ conn'[d].reader[n] = k \/ IsOver(conn'[d], d, n, k)
             /\ node[n].active[k] = d /\ conn'[d].reader[n] = conn[d].reader[n]
  <2>1. node[n].active[k] = d
    BY <1>1, NoConnIsNone
  <2> QED BY <2>1 DEF ListedAreRead
<1>2. ListedAreRead'
  BY <1>1 DEF ListedAreRead
<1>3. ASSUME NEW p \in NewGhosts PROVE FALSE
  <2>1. PICK n \in Nodes, k \in Keys : p = <<n, k>>
    BY <1>3 DEF NewGhosts
  <2>2. ~IsGhost(n, k) /\ IsGhost(n, k)'
    BY <1>3, <2>1 DEF NewGhosts
  <2>3. PICK d \in Conns : node'[n].active[k] = d
    BY <2>2 DEF IsGhost, NodesAreSound, IsNode
  <2>4. conn'[d].reader[n] # k
    BY <2>2, <2>3 DEF IsGhost
  <2>5. node[n].active[k] = d /\ conn[d].reader[n] # k
    BY <1>1, <2>3, <2>4
  <2> QED BY <2>2, <2>5, NoConnIsNone DEF IsGhost
<1> QED BY <1>2, <1>3

\* Nobody lists a connection that is yet to be made.
LEMMA DialKeeps ==
    ASSUME PeersInv, NEW n \in Nodes, NEW m \in Nodes, Dial(n, m)
    PROVE  KeepsPeers
<1>1. ConnsAreSound /\ NodesAreSound /\ ListedAreRead /\ CanRaise(budget)
  BY DEF PeersInv
<1>2. PICK c \in Conns :
        /\ conn[c].from = NoNode
        /\ conn' = [conn EXCEPT ![c] = [Unused EXCEPT !.from = n, !.to = m, !.waiting = {n, m},
                                                      !.open = TRUE]]
  BY DEF Dial
<1> DEFINE d == [Unused EXCEPT !.from = n, !.to = m, !.waiting = {n, m}, !.open = TRUE]
<1>3. IsConn(d, c)
  BY UnusedConn
<1> HIDE DEF d
<1>4. DOMAIN conn' = Conns /\ conn'[c] = d /\ \A e \in Conns \ {c} : conn'[e] = conn[e]
  BY <1>1, <1>2 DEF ConnsAreSound, d
<1>5. node' = node
  BY DEF Dial
<1>6. ConnsAreSound' /\ NodesAreSound'
  BY <1>1, <1>3, <1>4, <1>5 DEF ConnsAreSound, NodesAreSound
<1>7. ASSUME NEW i \in Nodes, NEW k \in Keys, NEW e \in Conns, node[i].active[k] = e
      PROVE  conn'[e] = conn[e]
  <2>1. conn[e].reader[i] = k \/ IsOver(conn[e], e, i, k)
    BY <1>1, <1>7 DEF ListedAreRead
  <2>2. e # c
    BY <1>1, <1>2, <2>1, KeysApart DEF ConnsAreSound, IsConn, IsOver
  <2> QED BY <1>4, <2>2
<1>8. ListedAreRead' /\ NewGhosts = {}
  BY <1>1, <1>5, <1>6, <1>7, SameLists
<1>9. CanRaise(budget)'
  BY <1>1 DEF Dial, CanRaise
<1> QED BY <1>6, <1>8, <1>9 DEF PeersInv, KeepsPeers

LEMMA ClosedConn ==
    ASSUME NEW c \in Conns, NEW d, IsConn(d, c), NEW r, r = [d EXCEPT !.open = FALSE]
    PROVE  /\ IsConn(r, c) /\ r.reader = d.reader
           /\ \A n, k : IsOver(d, c, n, k) => IsOver(r, c, n, k)
<1>1. /\ DOMAIN r = ConnFields /\ r.from = d.from /\ r.to = d.to /\ r.waiting = d.waiting
      /\ r.chan = d.chan /\ r.reader = d.reader /\ r.open = FALSE
  BY DEF IsConn, ConnFields
<1> HIDE DEF ConnFields
<1>2. \A n : OtherEnd(r, n) = OtherEnd(d, n)
  BY <1>1 DEF OtherEnd
<1> QED BY <1>1, <1>2 DEF IsConn, IsOver

\* Closing a connection takes no reader from it.
LEMMA CloseKeeps ==
    ASSUME ConnsAreSound, NEW c \in Conns, conn' = [conn EXCEPT ![c].open = FALSE]
    PROVE  /\ ConnsAreSound'
           /\ \A e \in Conns : \A n, k :
                 /\ conn'[e].reader[n] = conn[e].reader[n]
                 /\ IsOver(conn[e], e, n, k) => IsOver(conn'[e], e, n, k)
<1> DEFINE r == [conn[c] EXCEPT !.open = FALSE]
<1>1. /\ IsConn(r, c) /\ r.reader = conn[c].reader
      /\ \A n, k : IsOver(conn[c], c, n, k) => IsOver(r, c, n, k)
  BY ClosedConn DEF ConnsAreSound
<1>2. DOMAIN conn' = Conns /\ conn'[c] = r /\ \A e \in Conns \ {c} : conn'[e] = conn[e]
  BY DEF ConnsAreSound
<1> HIDE DEF r
<1>3. ConnsAreSound'
  BY <1>1, <1>2 DEF ConnsAreSound
<1>4. ASSUME NEW e \in Conns, NEW n, NEW k
      PROVE  /\ conn'[e].reader[n] = conn[e].reader[n]
             /\ IsOver(conn[e], e, n, k) => IsOver(conn'[e], e, n, k)
  <2>1. CASE e = c
    BY <1>1, <1>2, <2>1
  <2>2. CASE e # c
    BY <1>2, <2>2
  <2> QED BY <2>1, <2>2
<1> QED BY <1>3, <1>4

LEMMA LoseKeeps ==
    ASSUME PeersInv, NEW c \in Conns, Lose(c)
    PROVE  KeepsPeers
<1>1. ConnsAreSound /\ NodesAreSound /\ ListedAreRead /\ CanRaise(budget)
  BY DEF PeersInv
<1>2. conn' = [conn EXCEPT ![c].open = FALSE] /\ node' = node
  BY DEF Lose
<1>3. /\ ConnsAreSound'
      /\ \A e \in Conns : \A n, k :
            /\ conn'[e].reader[n] = conn[e].reader[n]
            /\ IsOver(conn[e], e, n, k) => IsOver(conn'[e], e, n, k)
  BY <1>1, <1>2, CloseKeeps
<1>4. NodesAreSound'
  BY <1>1, <1>2 DEF NodesAreSound
<1>5. ListedAreRead' /\ NewGhosts = {}
  BY <1>1, <1>2, <1>3, <1>4, SameLists
<1>6. CanRaise(budget)'
  BY <1>1 DEF Lose, CanRaise
<1> QED BY <1>3, <1>4, <1>5, <1>6 DEF PeersInv, KeepsPeers

LEMMA DisconnectKeeps ==
    ASSUME PeersInv, NEW n \in Nodes, NEW k \in Keys, Disconnect(n, k)
    PROVE  KeepsPeers
<1> DEFINE c == node[n].active[k]
           s == [node[n] EXCEPT !.active[k] = NoConn, !.sync[k] = NoSync]
<1>1. ConnsAreSound /\ NodesAreSound /\ ListedAreRead /\ CanRaise(budget)
  BY DEF PeersInv
<1>2. IsNode(node[n]) /\ c \in Conns
  BY <1>1 DEF NodesAreSound, IsNode, Disconnect
<1>3. conn' = [conn EXCEPT ![c].open = FALSE]
  BY DEF Disconnect
<1>4. DOMAIN node' = Nodes /\ node'[n] = s /\ \A m \in Nodes \ {n} : node'[m] = node[m]
  BY <1>1 DEF Disconnect, NodesAreSound
<1>5. /\ IsNode(s)
      /\ \A j \in Keys : s.active[j] = IF j = k THEN NoConn ELSE node[n].active[j]
  <2> DEFINE old == node[n]
  <2>1. Ended(old, k, c) = s
    BY DEF Ended
  <2> HIDE DEF s
  <2>2. /\ IsNode(Ended(old, k, c))
        /\ \A j \in Keys : Ended(old, k, c).active[j] =
              IF j = k /\ old.active[k] = c THEN NoConn ELSE old.active[j]
    BY <1>2, EndedNode
  <2> QED BY <2>1, <2>2
<1> HIDE DEF c, s
<1>6. /\ ConnsAreSound'
      /\ \A e \in Conns : \A m, j :
            /\ conn'[e].reader[m] = conn[e].reader[m]
            /\ IsOver(conn[e], e, m, j) => IsOver(conn'[e], e, m, j)
  BY <1>1, <1>2, <1>3, CloseKeeps
<1>7. NodesAreSound'
  BY <1>1, <1>4, <1>5 DEF NodesAreSound
<1>8. ListedAreRead' /\ NewGhosts = {}
  <2>1. \A m \in Nodes : \A j \in Keys :
            node'[m].active[j] \in {node[m].active[j], NoConn}
    BY <1>4, <1>5
  <2> QED BY <1>1, <1>6, <1>7, <2>1, SameLists
<1>9. CanRaise(budget)'
  BY <1>1 DEF Disconnect, CanRaise
<1> QED BY <1>6, <1>7, <1>8, <1>9 DEF PeersInv, KeepsPeers

----------------------------------------------------------------------------
(* The theorem.                                                            *)

LEMMA PeersInvInit == ASSUME Init PROVE PeersInv
<1> DEFINE none == << >>
<1>1. conn = [c \in Conns |-> Unused]
  BY DEF Init
<1>2. /\ DOMAIN Unused = ConnFields /\ Unused.from = NoNode /\ Unused.to = NoNode
      /\ Unused.waiting = {} /\ Unused.chan = [n \in Nodes |-> none]
      /\ Unused.reader = [n \in Nodes |-> NoKey]
  BY DEF Unused, ConnFields
<1>3. \A n : MailOf(none, n)
  BY NoMail
<1> HIDE DEF none
<1>4. \A c \in Conns : IsConn(Unused, c)
  BY <1>2, <1>3 DEF IsConn
<1>5. ConnsAreSound
  BY <1>1, <1>4 DEF ConnsAreSound
<1>6. PICK scenario \in Scenarios :
        /\ node = [n \in Nodes |->
                    [ active |-> [k \in Keys |-> NoConn], sync |-> [k \in Keys |-> NoSync],
                      stored |-> ToSet(ChainOf[scenario.start[n]]), tip |-> scenario.start[n],
                      orphans |-> {}, seen |-> {}, refuses |-> scenario.refuses[n] ]]
        /\ budget = scenario.budget
  BY Zenon DEF Init
<1>7. DOMAIN node = Nodes
  BY <1>6
<1>8. \A n \in Nodes : /\ DOMAIN node[n] = NodeFields
                       /\ node[n].active = [k \in Keys |-> NoConn]
                       /\ node[n].sync = [k \in Keys |-> NoSync]
  BY <1>6 DEF NodeFields
<1>9. NodesAreSound
  BY <1>7, <1>8, NoSyncIsEntry DEF NodesAreSound, IsNode, IsSync
<1>10. ListedAreRead
  BY <1>8, NoConnIsNone DEF ListedAreRead
<1>11. CanRaise(budget)
  <2>1. scenario.budget \in [ dials : [Nodes \X Nodes -> Nat], overlap : BOOLEAN,
                              disconnects : Nat, losses : Nat, raises : Nat, syncs : Nat,
                              mines : [Nodes -> SUBSET Blocks] ]
    BY ScenariosAssumption
  <2> QED BY <1>6, <2>1 DEF CanRaise
<1> QED BY <1>5, <1>9, <1>10, <1>11 DEF PeersInv

LEMMA PeersInvNext == ASSUME PeersInv, [Next]_vars PROVE PeersInv' /\ (KeepsPeers \/ UNCHANGED vars)
<1>1. ASSUME NEW n \in Nodes, NEW c \in Conns,
             Register(n, c) \/ Read(n, c) \/ Serve(n, c) \/ EndRead(n, c)
      PROVE  KeepsPeers
  BY <1>1, RegisterKeeps, ReadKeeps, ServeKeeps, EndReadKeeps
<1>2. ASSUME NEW n \in Nodes, NEW m \in Nodes, Dial(n, m) PROVE KeepsPeers
  BY <1>2, DialKeeps
<1>3. ASSUME NEW n \in Nodes, NEW k \in Keys, Disconnect(n, k) PROVE KeepsPeers
  BY <1>3, DisconnectKeeps
<1>4. ASSUME NEW c \in Conns, Lose(c) PROVE KeepsPeers
  BY <1>4, LoseKeeps
<1>5. ASSUME NEW n \in Nodes, NEW b \in Blocks, Mine(n, b) PROVE KeepsPeers
  BY <1>5, MineKeeps
<1>6. ASSUME NEW n \in Nodes, NEW fast \in BOOLEAN, Sync(n, fast) PROVE KeepsPeers
  BY <1>6, SyncKeeps
<1>7. ASSUME UNCHANGED vars PROVE PeersInv'
  BY <1>7 DEF vars, PeersInv, ConnsAreSound, NodesAreSound, ListedAreRead, CanRaise
<1>8. KeepsPeers => PeersInv'
  BY DEF KeepsPeers
<1>9. KeepsPeers \/ UNCHANGED vars
  BY <1>1, <1>2, <1>3, <1>4, <1>5, <1>6 DEF Next, Network, TasksOf, Environment
<1> QED BY <1>7, <1>8, <1>9

LEMMA OnlyListedAreGhosts ==
    /\ Ghosts = {p \in Nodes \X Keys : IsGhost(p[1], p[2])}
    /\ NewGhosts = {} => Ghosts' \subseteq Ghosts
<1>1. Ghosts = {p \in Nodes \X Keys : IsGhost(p[1], p[2])}
  BY DEF Ghosts, IsGhost, Listed
<1>2. Ghosts' = {p \in Nodes \X Keys : IsGhost(p[1], p[2])'}
  BY DEF Ghosts, IsGhost, Listed
<1> QED BY <1>1, <1>2 DEF NewGhosts

LEMMA GhostsAreOver ==
    ASSUME PeersInv
    PROVE  \A p \in Ghosts :
             LET c == node[p[1]].active[p[2]]
             IN  ~conn[c].open /\ conn[c].reader[p[1]] = NoKey
<1> SUFFICES ASSUME NEW p \in Ghosts
             PROVE  LET c == node[p[1]].active[p[2]]
                    IN  ~conn[c].open /\ conn[c].reader[p[1]] = NoKey
  OBVIOUS
<1>1. PICK n \in Nodes, k \in Keys : p = <<n, k>>
  BY DEF Ghosts
<1>2. IsGhost(n, k)
  BY <1>1, OnlyListedAreGhosts
<1>3. PICK c \in Conns : node[n].active[k] = c
  BY <1>2 DEF IsGhost, PeersInv, NodesAreSound, IsNode
<1>4. IsOver(conn[c], c, n, k)
  BY <1>2, <1>3 DEF IsGhost, PeersInv, ListedAreRead
<1> QED BY <1>1, <1>3, <1>4 DEF IsOver

\* Every peer a node lists (active_connections) is read by the task that will
\* take it off the list, under the name it is listed by, through every order of
\* connections of the same two nodes, handshakes that rename them, syncs,
\* disconnects, losses and writes that meet them, unless a write that met the
\* loss of its connection left it on the list; that connection is closed, and
\* nobody reads it again.
THEOREM PeersAreRead == Spec => NoGhostPeers
<1>1. Init => PeersInv
  BY PeersInvInit
<1>2. PeersInv /\ [Next]_vars => PeersInv'
  BY PeersInvNext
<1>3. PeersInv => \A p \in Ghosts :
                    LET c == node[p[1]].active[p[2]]
                    IN  ~conn[c].open /\ conn[c].reader[p[1]] = NoKey
  BY GhostsAreOver
<1>4. PeersInv /\ [Next]_vars => [Ghosts' \subseteq Ghosts \/ budget'.raises < budget.raises]_vars
  BY PeersInvNext, OnlyListedAreGhosts DEF KeepsPeers
<1> QED BY <1>1, <1>2, <1>3, <1>4, PTL DEF Spec, NoGhostPeers
=============================================================================
