------------------------------ MODULE RoomProofs ------------------------------
(***************************************************************************)
(* Proofs about Rooms: types and lists of sockets for any number of rooms  *)
(* and clients, in any order of their creations and deletions.             *)
(***************************************************************************)
EXTENDS Rooms, SequenceTheorems, FiniteSetTheorems, WellFoundedInduction, TLAPS

-----------------------------------------------------------------------------
(* Sequences.                                                              *)

LEMMA Elements ==
  ASSUME NEW S, NEW s \in Seq(S)
  PROVE  /\ DOMAIN s = 1 .. Len(s) /\ Len(s) \in Nat
         /\ \A i \in DOMAIN s : s[i] \in S
  BY ElementOfSeq, LenProperties

(* The position in s of what is at i when the n-th element is removed.     *)
Behind(i, n) == IF i < n THEN i ELSE i + 1

LEMMA RemoveAtIs ==
  ASSUME NEW S, NEW s \in Seq(S), NEW n \in DOMAIN s
  PROVE  /\ RemoveAt(s, n) \in Seq(S) /\ Len(RemoveAt(s, n)) = Len(s) - 1
         /\ DOMAIN RemoveAt(s, n) = 1 .. Len(s) - 1
         /\ \A i \in DOMAIN RemoveAt(s, n) :
              Behind(i, n) \in DOMAIN s /\ RemoveAt(s, n)[i] = s[Behind(i, n)]
  <1> DEFINE front == SubSeq(s, 1, n - 1)
             back == SubSeq(s, n + 1, Len(s))
  <1>1. Len(s) \in Nat /\ DOMAIN s = 1 .. Len(s) /\ \A i \in 1 .. Len(s) : s[i] \in S
    BY Elements
  <1>2. /\ front \in Seq(S) /\ Len(front) = n - 1
        /\ \A i \in 1 .. n - 1 : front[i] = s[i]
    BY <1>1, SubSeqProperties
  <1>3. /\ back \in Seq(S) /\ Len(back) = Len(s) - n
        /\ \A i \in 1 .. Len(s) - n : back[i] = s[n + i]
    <2>1. \A i \in n + 1 .. Len(s) : s[i] \in S
      BY <1>1
    <2>2. /\ back \in Seq(S)
          /\ Len(back) = IF n + 1 <= Len(s) THEN Len(s) - (n + 1) + 1 ELSE 0
          /\ \A i \in 1 .. Len(s) - (n + 1) + 1 : back[i] = s[(n + 1) + i - 1]
      BY <1>1, <2>1, SubSeqProperties
    <2> HIDE DEF back
    <2>3. Len(back) = Len(s) - n
      BY <1>1, <2>2
    <2>4. ASSUME NEW i \in 1 .. Len(s) - n PROVE back[i] = s[n + i]
      <3>1. i \in 1 .. Len(s) - (n + 1) + 1 /\ (n + 1) + i - 1 = n + i
        BY <1>1
      <3> QED  BY <2>2, <3>1
    <2> QED  BY <2>2, <2>3, <2>4
  <1> HIDE DEF front, back
  <1>4. RemoveAt(s, n) = front \o back
    BY DEF RemoveAt, front, back
  <1>5. /\ front \o back \in Seq(S) /\ Len(front \o back) = Len(s) - 1
        /\ \A i \in 1 .. Len(s) - 1 :
             (front \o back)[i] = IF i <= n - 1 THEN front[i] ELSE back[i - (n - 1)]
    <2>1. /\ front \o back \in Seq(S) /\ Len(front \o back) = Len(front) + Len(back)
          /\ \A i \in 1 .. Len(front) + Len(back) :
               (front \o back)[i] = IF i <= Len(front) THEN front[i]
                                                      ELSE back[i - Len(front)]
      BY <1>2, <1>3, ConcatProperties
    <2> QED  BY <1>1, <1>2, <1>3, <2>1
  <1>6. DOMAIN RemoveAt(s, n) = 1 .. Len(s) - 1
    BY <1>4, <1>5, LenProperties
  <1>7. ASSUME NEW i \in 1 .. Len(s) - 1
        PROVE  Behind(i, n) \in DOMAIN s /\ (front \o back)[i] = s[Behind(i, n)]
    <2>1. CASE i < n
      BY <1>1, <1>2, <1>5, <2>1 DEF Behind
    <2>2. CASE i >= n
      <3>1. /\ i - (n - 1) \in 1 .. Len(s) - n /\ n + (i - (n - 1)) = i + 1
            /\ i + 1 \in DOMAIN s /\ ~(i <= n - 1) /\ ~(i < n)
        BY <1>1, <2>2
      <3>2. (front \o back)[i] = back[i - (n - 1)]
        BY <1>5, <3>1
      <3>3. back[i - (n - 1)] = s[i + 1]
        BY <1>3, <3>1
      <3> QED  BY <3>1, <3>2, <3>3 DEF Behind
    <2>3. i < n \/ i >= n
      BY <1>1
    <2> QED  BY <2>1, <2>2, <2>3
  <1> QED  BY <1>4, <1>5, <1>6, <1>7

LEMMA EverySecondIs ==
  ASSUME NEW S, NEW s \in Seq(S)
  PROVE  /\ EverySecond(s) \in Seq(S)
         /\ \A i \in DOMAIN EverySecond(s) :
              i \in Nat /\ 2 * i \in DOMAIN s /\ EverySecond(s)[i] = s[2 * i]
  <1>1. Len(s) \in Nat /\ DOMAIN s = 1 .. Len(s) /\ \A i \in 1 .. Len(s) : s[i] \in S
    BY Elements
  <1> DEFINE h == Len(s) \div 2
  <1>2. h \in Nat /\ \A i \in 1 .. h : 2 * i \in 1 .. Len(s)
    BY <1>1
  <1>3. EverySecond(s) = [i \in 1 .. h |-> s[2 * i]]
    BY DEF EverySecond
  <1> HIDE DEF h
  <1>4. EverySecond(s) \in [1 .. h -> S]
    BY <1>1, <1>2, <1>3
  <1> QED  BY <1>1, <1>2, <1>3, <1>4, SeqDef

(* A message taken from a queue is its first, and what is left is a rest.  *)
LEMMA creadIs ==
  ASSUME NEW S, NEW queue \in Seq(S), NEW ended, NEW r \in cread(queue, ended)
  PROVE  /\ r.rest \in Seq(S)
         /\ \/ r.msg = Empty /\ r.rest = <<>>
            \/ /\ queue # <<>> /\ r.msg = queue[1] /\ r.msg \in S
               /\ \E n \in DOMAIN queue :
                    /\ Len(r.rest) = Len(queue) - n
                    /\ \A i \in DOMAIN r.rest :
                         n + i \in DOMAIN queue /\ r.rest[i] = queue[n + i]
  <1>1. CASE r = [msg |-> Empty, rest |-> <<>>]
    BY <1>1, EmptySeq
  <1>2. ASSUME NEW n \in DOMAIN queue,
               r = [msg |-> Head(queue), rest |-> SubSeq(queue, n + 1, Len(queue))]
        PROVE  /\ r.rest \in Seq(S)
               /\ queue # <<>> /\ r.msg = queue[1] /\ r.msg \in S
               /\ Len(r.rest) = Len(queue) - n
               /\ \A i \in DOMAIN r.rest :
                    n + i \in DOMAIN queue /\ r.rest[i] = queue[n + i]
    <2>1. /\ Len(queue) \in Nat /\ DOMAIN queue = 1 .. Len(queue)
          /\ \A i \in 1 .. Len(queue) : queue[i] \in S
      BY Elements
    <2>2. \A i \in n + 1 .. Len(queue) : queue[i] \in S
      BY <2>1
    <2> DEFINE q == SubSeq(queue, n + 1, Len(queue))
    <2>3. /\ q \in Seq(S)
          /\ Len(q) = IF n + 1 <= Len(queue) THEN Len(queue) - (n + 1) + 1 ELSE 0
          /\ \A i \in 1 .. Len(queue) - (n + 1) + 1 : q[i] = queue[(n + 1) + i - 1]
      BY <2>1, <2>2, SubSeqProperties
    <2>4. DOMAIN q = 1 .. Len(q)
      BY <2>3, LenProperties
    <2>5. r.rest = q /\ r.msg = Head(queue)
      BY <1>2
    <2>6. queue # <<>> /\ Head(queue) = queue[1] /\ queue[1] \in S
      <3>1. 1 \in 1 .. Len(queue)
        BY <2>1
      <3>2. queue # <<>>
        BY <3>1, EmptySeq
      <3> QED  BY <2>1, <3>1, <3>2
    <2> HIDE DEF q
    <2>7. Len(q) = Len(queue) - n
      BY <2>1, <2>3
    <2>8. \A i \in DOMAIN q : n + i \in DOMAIN queue /\ q[i] = queue[n + i]
      <3>1. \A i \in 1 .. Len(queue) - n :
              i \in 1 .. Len(queue) - (n + 1) + 1 /\ (n + 1) + i - 1 = n + i
                /\ n + i \in 1 .. Len(queue)
        BY <2>1
      <3> QED  BY <2>1, <2>3, <2>4, <2>7, <3>1
    <2> QED  BY <2>3, <2>5, <2>6, <2>7, <2>8
  <1> QED  BY <1>1, <1>2 DEF cread

-----------------------------------------------------------------------------
(* Connections.                                                            *)

(* A message is written to connections: nothing else of them changes.      *)
LEMMA cwriteIs ==
  ASSUME NEW cs \in Seq(Connection), NEW ks, NEW m \in Replies
  PROVE  /\ cwrite(cs, ks, m) \in Seq(Connection)
         /\ DOMAIN cwrite(cs, ks, m) = DOMAIN cs
         /\ \A k \in DOMAIN cs :
              /\ cwrite(cs, ks, m)[k].client = cs[k].client
              /\ cwrite(cs, ks, m)[k].port = cs[k].port
              /\ cwrite(cs, ks, m)[k].srv = cs[k].srv
              /\ cwrite(cs, ks, m)[k].here = cs[k].here
              /\ cwrite(cs, ks, m)[k].requests = cs[k].requests
              /\ \/ cwrite(cs, ks, m)[k].replies = cs[k].replies
                 \/ k \in ks /\ cwrite(cs, ks, m)[k].replies = Append(cs[k].replies, m)
  <1> DEFINE w == cwrite(cs, ks, m)
  <1>1. /\ Len(cs) \in Nat /\ DOMAIN cs = 1 .. Len(cs)
        /\ \A k \in DOMAIN cs : cs[k] \in Connection
    BY Elements
  <1>2. /\ DOMAIN w = DOMAIN cs
        /\ \A k \in DOMAIN cs :
             \/ w[k] = cs[k]
             \/ k \in ks /\ w[k] = [cs[k] EXCEPT !.replies = Append(@, m)]
    BY DEF cwrite
  <1> HIDE DEF w
  <1>3. ASSUME NEW k \in DOMAIN cs
        PROVE  [cs[k] EXCEPT !.replies = Append(@, m)] \in Connection
    <2>1. cs[k] \in Connection /\ Append(cs[k].replies, m) \in Seq(Replies)
      BY <1>1, AppendProperties DEF Connection
    <2> QED  BY <2>1 DEF Connection
  <1>4. w \in [1 .. Len(cs) -> Connection]
    <2>1. \A k \in DOMAIN cs : w[k] \in Connection
      BY <1>1, <1>2, <1>3
    <2>2. w = [k \in DOMAIN w |-> w[k]]
      BY DEF w, cwrite
    <2> QED  BY <1>1, <1>2, <2>1, <2>2
  <1>5. w \in Seq(Connection)
    BY <1>1, <1>4, SeqDef
  <1>6. \A k \in DOMAIN cs :
          /\ w[k].client = cs[k].client /\ w[k].port = cs[k].port
          /\ w[k].srv = cs[k].srv /\ w[k].here = cs[k].here
          /\ w[k].requests = cs[k].requests
          /\ \/ w[k].replies = cs[k].replies
             \/ k \in ks /\ w[k].replies = Append(cs[k].replies, m)
    BY <1>1, <1>2 DEF Connection
  <1> QED  BY <1>2, <1>5, <1>6 DEF w

(* The server's end of some connections is closed.                         *)
LEMMA ClosedIs ==
  ASSUME NEW cs \in Seq(Connection), NEW ks
  PROVE  /\ Closed(cs, ks) \in Seq(Connection)
         /\ DOMAIN Closed(cs, ks) = DOMAIN cs
         /\ \A k \in DOMAIN cs :
              /\ Closed(cs, ks)[k].client = cs[k].client
              /\ Closed(cs, ks)[k].port = cs[k].port
              /\ Closed(cs, ks)[k].replies = cs[k].replies
              /\ Closed(cs, ks)[k].srv = IF k \in ks THEN "closed" ELSE cs[k].srv
              /\ Closed(cs, ks)[k].requests = IF k \in ks THEN <<>> ELSE cs[k].requests
  <1> DEFINE w == Closed(cs, ks)
  <1>1. /\ Len(cs) \in Nat /\ DOMAIN cs = 1 .. Len(cs)
        /\ \A k \in DOMAIN cs : cs[k] \in Connection
    BY Elements
  <1>2. /\ DOMAIN w = DOMAIN cs
        /\ \A k \in DOMAIN cs :
             w[k] = IF k \in ks THEN [cs[k] EXCEPT !.srv = "closed", !.requests = <<>>]
                                ELSE cs[k]
    BY DEF Closed
  <1>3. w = [k \in DOMAIN w |-> w[k]]
    BY DEF Closed
  <1> HIDE DEF w
  <1>4. ASSUME NEW k \in DOMAIN cs
        PROVE  [cs[k] EXCEPT !.srv = "closed", !.requests = <<>>] \in Connection
    BY <1>1, EmptySeq DEF Connection
  <1>5. \A k \in DOMAIN cs : w[k] \in Connection
    BY <1>1, <1>2, <1>4
  <1>6. w \in Seq(Connection)
    <2>1. w \in [1 .. Len(cs) -> Connection]
      BY <1>1, <1>2, <1>3, <1>5
    <2> QED  BY <1>1, <2>1, SeqDef
  <1>7. \A k \in DOMAIN cs :
          /\ w[k].client = cs[k].client /\ w[k].port = cs[k].port
          /\ w[k].replies = cs[k].replies
          /\ w[k].srv = IF k \in ks THEN "closed" ELSE cs[k].srv
          /\ w[k].requests = IF k \in ks THEN <<>> ELSE cs[k].requests
    BY <1>1, <1>2 DEF Connection
  <1> QED  BY <1>2, <1>6, <1>7 DEF w

-----------------------------------------------------------------------------
(* What the clients do to connections.                                     *)

(* New connections wait for the server; of old ones the server's side and  *)
(* the ends stay, and nothing is added to what the server has sent.        *)
SameSide(c, d) ==
  /\ d.client = c.client /\ d.port = c.port /\ d.srv = c.srv
  /\ \A i \in DOMAIN d.replies : \E j \in DOMAIN c.replies : d.replies[i] = c.replies[j]
Kept(cs, ds) ==
  /\ ds \in Seq(Connection)
  /\ DOMAIN cs \subseteq DOMAIN ds
  /\ \A k \in DOMAIN cs : SameSide(cs[k], ds[k])
  /\ \A k \in DOMAIN ds \ DOMAIN cs : ds[k].srv = "queued" /\ ds[k].replies = <<>>

LEMMA KeptTrans ==
  ASSUME NEW cs, NEW ds, NEW es, Kept(cs, ds), Kept(ds, es)
  PROVE  Kept(cs, es)
  <1>1. DOMAIN cs \subseteq DOMAIN ds /\ DOMAIN ds \subseteq DOMAIN es
    BY DEF Kept
  <1>2. ASSUME NEW k \in DOMAIN cs, NEW i \in DOMAIN es[k].replies
        PROVE  \E j \in DOMAIN cs[k].replies : es[k].replies[i] = cs[k].replies[j]
    <2>1. PICK n \in DOMAIN ds[k].replies : es[k].replies[i] = ds[k].replies[n]
      BY <1>1 DEF Kept, SameSide
    <2>2. PICK j \in DOMAIN cs[k].replies : ds[k].replies[n] = cs[k].replies[j]
      BY <1>1 DEF Kept, SameSide
    <2> QED  BY <2>1, <2>2
  <1>3. ASSUME NEW k \in DOMAIN es, k \notin DOMAIN cs
        PROVE  es[k].srv = "queued" /\ es[k].replies = <<>>
    <2>1. CASE k \notin DOMAIN ds
      BY <2>1 DEF Kept
    <2>2. CASE k \in DOMAIN ds
      <3>1. ds[k].srv = "queued" /\ ds[k].replies = <<>> /\ es[k].srv = ds[k].srv
        BY <1>3, <2>2 DEF Kept, SameSide
      <3>2. DOMAIN ds[k].replies = {}
        BY <3>1
      <3>3. DOMAIN es[k].replies = {}
        BY <2>2, <3>2 DEF Kept, SameSide
      <3>4. es[k] \in Connection
        BY Elements DEF Kept
      <3>5. es[k].replies \in Seq(Replies)
        BY <3>4 DEF Connection
      <3>6. DOMAIN es[k].replies = 1 .. Len(es[k].replies) /\ Len(es[k].replies) \in Nat
        BY <3>5, Elements
      <3>7. Len(es[k].replies) = 0
        <4> DEFINE n == Len(es[k].replies)
        <4>1. n \in Nat /\ 1 .. n = {}
          BY <3>3, <3>6
        <4> HIDE DEF n
        <4>2. n = 0
          BY <4>1
        <4> QED  BY <4>2 DEF n
      <3>8. es[k].replies = <<>>
        BY <3>5, <3>7, EmptySeq
      <3> QED  BY <3>1, <3>8
    <2> QED  BY <2>1, <2>2
  <1>4. /\ es \in Seq(Connection)
        /\ \A k \in DOMAIN cs :
             /\ es[k].client = cs[k].client /\ es[k].port = cs[k].port
             /\ es[k].srv = cs[k].srv
    BY <1>1 DEF Kept, SameSide
  <1> QED  BY <1>1, <1>2, <1>3, <1>4 DEF Kept, SameSide

(* Some connections have changed, but not their ends, and not by answers.  *)
LEMMA KeptIf ==
  ASSUME NEW cs \in Seq(Connection), NEW ds \in [DOMAIN cs -> Connection],
         \A k \in DOMAIN cs : SameSide(cs[k], ds[k])
  PROVE  Kept(cs, ds)
  <1>1. DOMAIN cs = 1 .. Len(cs) /\ Len(cs) \in Nat
    BY Elements
  <1>2. ds \in Seq(Connection)
    BY <1>1, SeqDef
  <1> QED  BY <1>2 DEF Kept

(* What a client has read.                                                 *)
LEMMA ReadIs ==
  ASSUME conn \in Seq(Connection), NEW c \in Client, fd[c] \in DOMAIN conn,
         NEW r \in Read(c)
  PROVE  r.msg \in Replies \cup {Empty} /\ Kept(conn, r.conn)
  <1> DEFINE k == fd[c]
             queue == conn[k].replies
  <1>1. PICK s \in cread(queue, conn[k].srv = "closed") :
          r = [msg |-> s.msg, conn |-> [conn EXCEPT ![k].replies = s.rest]]
    BY DEF Read
  <1>2. \A l \in DOMAIN conn : conn[l] \in Connection
    BY Elements
  <1>3. queue \in Seq(Replies)
    BY <1>2 DEF Connection
  <1>4. /\ s.rest \in Seq(Replies) /\ s.msg \in Replies \cup {Empty}
        /\ \A i \in DOMAIN s.rest : \E j \in DOMAIN queue : s.rest[i] = queue[j]
    <2> HIDE DEF queue
    <2>1. /\ s.rest \in Seq(Replies)
          /\ \/ s.msg = Empty /\ s.rest = <<>>
             \/ /\ queue # <<>> /\ s.msg = queue[1] /\ s.msg \in Replies
                /\ \E n \in DOMAIN queue :
                     /\ Len(s.rest) = Len(queue) - n
                     /\ \A i \in DOMAIN s.rest :
                          n + i \in DOMAIN queue /\ s.rest[i] = queue[n + i]
      BY <1>3, creadIs
    <2> QED  BY <2>1
  <1>5. [conn[k] EXCEPT !.replies = s.rest] \in Connection
    BY <1>2, <1>4 DEF Connection
  <1> DEFINE ds == [conn EXCEPT ![k].replies = s.rest]
  <1>6. /\ DOMAIN ds = DOMAIN conn /\ ds = [l \in DOMAIN ds |-> ds[l]]
        /\ \A l \in DOMAIN conn :
             ds[l] = IF l = k THEN [conn[k] EXCEPT !.replies = s.rest] ELSE conn[l]
    BY <1>1
  <1> HIDE DEF ds
  <1>7. Kept(conn, ds)
    <2>1. ASSUME NEW l \in DOMAIN conn
          PROVE  ds[l] \in Connection /\ SameSide(conn[l], ds[l])
      <3>1. CASE l = k
        <4>1. ds[k] = [conn[k] EXCEPT !.replies = s.rest] /\ conn[k] \in Connection
          BY <1>2, <1>6, <3>1
        <4>2. /\ ds[k].client = conn[k].client /\ ds[k].port = conn[k].port
              /\ ds[k].srv = conn[k].srv /\ ds[k].replies = s.rest
          BY <4>1 DEF Connection
        <4> HIDE DEF k
        <4> QED  BY <1>4, <1>5, <3>1, <4>1, <4>2 DEF SameSide
      <3>2. CASE l # k
        BY <1>2, <1>6, <3>2 DEF SameSide
      <3> QED  BY <3>1, <3>2
    <2>2. ds \in [DOMAIN conn -> Connection]
      BY <1>6, <2>1
    <2> QED  BY <2>1, <2>2, KeptIf
  <1> QED  BY <1>1, <1>4, <1>7 DEF ds

(* A connection was made.                                                  *)
LEMMA ConnectIs ==
  ASSUME NEW cs \in Seq(Connection), NEW c \in Client, NEW p \in Thread \cup {MasterPort}
  PROVE  Kept(cs, Append(cs, Queued(c, p))) /\ Len(cs) + 1 \in DOMAIN Append(cs, Queued(c, p))
  <1> DEFINE q == Queued(c, p)
             ds == Append(cs, q)
  <1>1. q \in Connection /\ q.srv = "queued" /\ q.replies = <<>>
    BY EmptySeq DEF Queued, Connection
  <1> HIDE DEF q
  <1>2. DOMAIN cs = 1 .. Len(cs) /\ Len(cs) \in Nat
    BY Elements
  <1>3. /\ ds \in Seq(Connection) /\ Len(ds) = Len(cs) + 1
        /\ \A i \in 1 .. Len(cs) : ds[i] = cs[i]
        /\ ds[Len(cs) + 1] = q
    BY <1>1, AppendProperties
  <1>4. DOMAIN ds = 1 .. Len(cs) + 1
    BY <1>3, Elements
  <1> HIDE DEF ds
  <1>5. Kept(cs, ds)
    <2>1. \A k \in DOMAIN ds \ DOMAIN cs : k = Len(cs) + 1
      BY <1>2, <1>4
    <2>2. DOMAIN cs \subseteq DOMAIN ds /\ \A k \in DOMAIN cs : ds[k] = cs[k]
      BY <1>2, <1>3, <1>4
    <2> QED  BY <1>1, <1>3, <2>1, <2>2 DEF Kept, SameSide
  <1>6. Len(cs) + 1 \in DOMAIN ds
    BY <1>2, <1>4
  <1> QED  BY <1>5, <1>6 DEF ds, q

(* The clients' steps, as far as the server is concerned, and the types of *)
(* what is their own.                                                      *)
ClientsFit ==
  /\ cpc \in [Client -> {"off", "main", "welcome", "gone"}]
  /\ fd \in [Client -> Nat]
  /\ join \in [Client -> BOOLEAN]
  /\ typed \in [Client -> Nat]
  /\ ahead \in [Client -> 0 .. MaxAhead]
  /\ \A c \in Client : cpc[c] \in {"main", "welcome"} => fd[c] \in DOMAIN conn

LEMMA CNextKeeps ==
  ASSUME conn \in Seq(Connection), listening \subseteq Thread \cup {MasterPort},
         ClientsFit, CNext
  PROVE  Kept(conn, conn') /\ ClientsFit' /\ UNCHANGED <<up, listening>>
  <1> USE DEF ClientsFit
  <1>0. MaxTyped \in [Client -> Nat] /\ MaxAhead \in Nat \ {0}
    BY RoomClientAssumption
  <1>a. \A k \in DOMAIN conn : conn[k] \in Connection
    BY Elements
  <1>1. ASSUME NEW c \in Client, NEW to \in {"main", "welcome"}, NEW p \in listening,
               NEW cs, Kept(conn, cs), connect_on_port(c, p, cs, to)
        PROVE  /\ Kept(conn, conn')
               /\ cpc' \in [Client -> {"off", "main", "welcome", "gone"}]
               /\ fd' \in [Client -> Nat]
               /\ \A d \in Client : cpc'[d] \in {"main", "welcome"} => fd'[d] \in DOMAIN conn'
    <2>1. Kept(cs, conn') /\ Len(cs) + 1 \in DOMAIN conn' /\ Len(cs) \in Nat
      <3>1. cs \in Seq(Connection)
        BY <1>1 DEF Kept
      <3> QED  BY <1>1, <3>1, ConnectIs, Elements DEF connect_on_port
    <2>2. Kept(conn, conn')
      BY <1>1, <2>1, KeptTrans
    <2>3. DOMAIN conn \subseteq DOMAIN conn'
      BY <2>2 DEF Kept
    <2>4. fd' = [fd EXCEPT ![c] = Len(cs) + 1] /\ cpc' = [cpc EXCEPT ![c] = to]
      BY <1>1 DEF connect_on_port
    <2> QED  BY <2>1, <2>2, <2>3, <2>4
  <1>2. ASSUME NEW c \in Client, Exit(c)
        PROVE  /\ Kept(conn, conn')
               /\ cpc' \in [Client -> {"off", "main", "welcome", "gone"}]
               /\ fd' \in [Client -> Nat]
               /\ \A d \in Client : cpc'[d] \in {"main", "welcome"} => fd'[d] \in DOMAIN conn'
    <2>1. /\ DOMAIN conn' = DOMAIN conn /\ conn' = [k \in DOMAIN conn' |-> conn'[k]]
          /\ \A k \in DOMAIN conn :
               conn'[k] = [conn[k] EXCEPT !.here = @ /\ conn[k].client # c]
      BY <1>2 DEF Exit
    <2>2. ASSUME NEW k \in DOMAIN conn
          PROVE  conn'[k] \in Connection /\ SameSide(conn[k], conn'[k])
      <3>1. conn[k] \in Connection
        BY <1>a
      <3> DEFINE h == conn[k].here /\ conn[k].client # c
      <3>2. h \in BOOLEAN /\ conn'[k] = [conn[k] EXCEPT !.here = h]
        BY <2>1
      <3> HIDE DEF h
      <3> QED  BY <3>1, <3>2 DEF Connection, SameSide
    <2>3. Kept(conn, conn')
      <3>1. conn' \in [DOMAIN conn -> Connection]
        BY <2>1, <2>2
      <3> QED  BY <2>2, <3>1, KeptIf
    <2> QED  BY <1>2, <2>1, <2>3 DEF Exit
  <1>3. Kept(conn, conn)
    BY DEF Kept, SameSide
  <1>4. ASSUME NEW c \in Client, cpc[c] \in {"main", "welcome"}, NEW r \in Read(c)
        PROVE  r.msg \in Replies \cup {Empty} /\ Kept(conn, r.conn)
    BY <1>4, ReadIs
  <1>5. ASSUME NEW c \in Client, Start(c)
        PROVE  Kept(conn, conn') /\ ClientsFit' /\ UNCHANGED <<up, listening>>
    <2>1. MasterPort \in listening /\ connect_on_port(c, MasterPort, conn, "main")
      BY <1>5 DEF Start, connect_on_port
    <2> QED  BY <1>0, <1>1, <1>3, <1>5, <2>1 DEF Start, At
  <1>6. ASSUME NEW c \in Client, Rejoin(c)
        PROVE  Kept(conn, conn') /\ ClientsFit' /\ UNCHANGED <<up, listening>>
    <2>1. PICK r \in Read(c) : connect_on_port(c, MasterPort, r.conn, "main")
      BY <1>6 DEF Rejoin
    <2>2. MasterPort \in listening /\ Kept(conn, r.conn)
      BY <1>4, <1>6, <2>1 DEF Rejoin, At, connect_on_port
    <2> QED  BY <1>0, <1>1, <1>6, <2>1, <2>2 DEF Rejoin, At, Received
  <1>7. ASSUME NEW c \in Client, GoToRoom(c)
        PROVE  Kept(conn, conn') /\ ClientsFit' /\ UNCHANGED <<up, listening>>
    <2>1. PICK r \in Read(c) : connect_on_port(c, r.msg[2], r.conn, "welcome")
      BY <1>7 DEF GoToRoom
    <2>2. r.msg[2] \in listening /\ Kept(conn, r.conn)
      BY <1>4, <1>7, <2>1 DEF GoToRoom, At, connect_on_port
    <2> QED  BY <1>0, <1>1, <1>7, <2>1, <2>2 DEF GoToRoom, At, Received
  <1>8. ASSUME NEW c \in Client, ConnectFails(c)
        PROVE  Kept(conn, conn') /\ ClientsFit' /\ UNCHANGED <<up, listening>>
    BY <1>2, <1>8 DEF ConnectFails, At, Received
  <1>9. ASSUME NEW c \in Client, Show(c)
        PROVE  Kept(conn, conn') /\ ClientsFit' /\ UNCHANGED <<up, listening>>
    <2>1. PICK r \in Read(c) : conn' = r.conn
      BY <1>9 DEF Show
    <2>2. Kept(conn, conn')
      BY <1>4, <1>9, <2>1 DEF Show, At
    <2>3. DOMAIN conn \subseteq DOMAIN conn'
      BY <2>2 DEF Kept
    <2> QED  BY <1>0, <1>9, <2>2, <2>3 DEF Show, At, Received
  <1>10. ASSUME NEW c \in Client, Welcome(c)
         PROVE  Kept(conn, conn') /\ ClientsFit' /\ UNCHANGED <<up, listening>>
    <2>1. PICK r \in Read(c) : conn' = r.conn
      BY <1>10 DEF Welcome
    <2>2. Kept(conn, conn')
      BY <1>4, <1>10, <2>1 DEF Welcome, At
    <2>3. DOMAIN conn \subseteq DOMAIN conn'
      BY <2>2 DEF Kept
    <2> QED  BY <1>10, <2>2, <2>3 DEF Welcome, At
  <1>11. ASSUME NEW c \in Client, NEW m \in Texts[c], Type(c, m)
         PROVE  Kept(conn, conn') /\ ClientsFit' /\ UNCHANGED <<up, listening>>
    <2> DEFINE k == fd[c]
               q == IF conn[k].srv = "closed" THEN conn[k].requests
                                              ELSE Append(conn[k].requests, m)
    <2>1. k \in DOMAIN conn /\ m \in Requests
      BY <1>11, UsersAssumption DEF Type, At
    <2>2. q \in Seq(Requests)
      BY <1>a, <2>1, AppendProperties DEF Connection
    <2>3. /\ DOMAIN conn' = DOMAIN conn /\ conn' = [l \in DOMAIN conn' |-> conn'[l]]
          /\ \A l \in DOMAIN conn :
               conn'[l] = IF l = k THEN [conn[k] EXCEPT !.requests = q] ELSE conn[l]
      BY <1>11, <2>1 DEF Type
    <2> HIDE DEF k, q
    <2>4. ASSUME NEW l \in DOMAIN conn
          PROVE  conn'[l] \in Connection /\ SameSide(conn[l], conn'[l])
      <3>1. conn[l] \in Connection
        BY <1>a
      <3>2. [conn[l] EXCEPT !.requests = q] \in Connection
        BY <2>2, <3>1 DEF Connection
      <3>3. SameSide(conn[l], [conn[l] EXCEPT !.requests = q])
        BY <3>1 DEF Connection, SameSide
      <3>4. SameSide(conn[l], conn[l])
        BY DEF SameSide
      <3> QED  BY <2>3, <3>1, <3>2, <3>3, <3>4
    <2>5. Kept(conn, conn')
      <3>1. conn' \in [DOMAIN conn -> Connection]
        BY <2>3, <2>4
      <3> QED  BY <2>4, <3>1, KeptIf
    <2>6. ahead' \in [Client -> 0 .. MaxAhead]
      BY <1>0, <1>11 DEF Type
    <2>7. join' \in [Client -> BOOLEAN]
      <3>1. join' = [join EXCEPT ![c] = join[c] \/ (m[1] = "JOIN" /\ port(c) = MasterPort)]
        BY <1>11 DEF Type
      <3>2. (join[c] \/ (m[1] = "JOIN" /\ port(c) = MasterPort)) \in BOOLEAN
        OBVIOUS
      <3> QED  BY <3>1, <3>2
    <2> QED  BY <1>11, <2>3, <2>5, <2>6, <2>7 DEF Type, At
  <1>12. ASSUME NEW c \in Client, Quit(c)
         PROVE  Kept(conn, conn') /\ ClientsFit' /\ UNCHANGED <<up, listening>>
    BY <1>2, <1>12 DEF Quit, At
  <1> QED  BY <1>5, <1>6, <1>7, <1>8, <1>9, <1>10, <1>11, <1>12
           DEF CNext, ClientLoop, UserAction

-----------------------------------------------------------------------------
(* Types.                                                                  *)

(* Stages from the bound socket on.                                        *)
Serving == UsesRooms \cup {"listen", "wait"}

(* What the types rest on: clients use connections that were made, the     *)
(* main thread is at a connection of its list, threads have ports that     *)
(* were given out, and there is a port for each CREATE on its way.         *)
RoomsFit ==
  /\ \A c \in Client : cpc[c] \in {"main", "welcome"} => fd[c] \in DOMAIN conn
  /\ mpc = "act" => mi \in DOMAIN fds
  /\ mreq[1] = "CREATE" =>
       mpc = "act" /\ nextPort > 1 /\ tpc[nextPort - 1] = "none"
  /\ \A t \in Thread : tpc[t] # "none" => t < nextPort
  /\ \A t \in Thread : tpc[t] \in Serving => slavefd[t] \in Thread
  /\ nextPort + Cardinality(CreatesSent(conn)) <= MaxPorts + 1

FitInv == RTypeOK /\ RoomsFit

(* The CREATEs on their way are finitely many.                             *)
LEMMA CreatesIs ==
  ASSUME NEW cs
  PROVE  \A x : x \in CreatesSent(cs) <=>
           \E k \in DOMAIN cs : \E i \in DOMAIN cs[k].requests :
             x = <<k, i>> /\ cs[k].requests[i][1] = "CREATE"
  BY DEF CreatesSent

LEMMA CreatesFinite ==
  ASSUME NEW cs \in Seq(Connection)
  PROVE  IsFiniteSet(CreatesSent(cs)) /\ Cardinality(CreatesSent(cs)) \in Nat
  <1> DEFINE Of(k) == {<<k, i>> : i \in {i \in DOMAIN cs[k].requests :
                                           cs[k].requests[i][1] = "CREATE"}}
             All == {Of(k) : k \in DOMAIN cs}
             f == [k \in DOMAIN cs |-> Of(k)]
  <1>1. /\ DOMAIN cs = 1 .. Len(cs) /\ Len(cs) \in Nat
        /\ \A k \in DOMAIN cs : cs[k] \in Connection
    BY Elements
  <1>2. IsFiniteSet(DOMAIN cs)
    BY <1>1, FS_Interval
  <1>3. IsFiniteSet(All)
    <2>1. f \in Surjection(DOMAIN cs, All)
      BY DEF Surjection
    <2> QED  BY <1>2, <2>1, FS_Surjection
  <1>4. ASSUME NEW k \in DOMAIN cs PROVE IsFiniteSet(Of(k))
    <2>1. DOMAIN cs[k].requests = 1 .. Len(cs[k].requests) /\ Len(cs[k].requests) \in Nat
      BY <1>1, Elements DEF Connection
    <2>2. IsFiniteSet({k}) /\ IsFiniteSet(1 .. Len(cs[k].requests))
      <3>1. IsFiniteSet({k})
        BY FS_Singleton
      <3>2. IsFiniteSet(1 .. Len(cs[k].requests))
        BY <2>1, FS_Interval
      <3> QED  BY <3>1, <3>2
    <2>3. IsFiniteSet({k} \X (1 .. Len(cs[k].requests)))
      BY <2>2, FS_Product
    <2>4. Of(k) \subseteq {k} \X (1 .. Len(cs[k].requests))
      BY <2>1
    <2> QED  BY <2>3, <2>4, FS_Subset
  <1>5. CreatesSent(cs) = UNION All
    BY DEF CreatesSent
  <1>6. IsFiniteSet(UNION All)
    BY <1>3, <1>4, FS_UNION
  <1> QED  BY <1>5, <1>6, FS_CardinalityType

(* Queues have been cut at their fronts.                                   *)
Cut(cs, ds, shift) ==
  \A k \in DOMAIN cs : \A i \in DOMAIN ds[k].requests :
    /\ shift[k] + i \in DOMAIN cs[k].requests
    /\ ds[k].requests[i] = cs[k].requests[shift[k] + i]

(* The CREATEs that are left were there behind the cuts.                   *)
LEMMA CreatesShift ==
  ASSUME NEW cs \in Seq(Connection), NEW ds \in Seq(Connection), DOMAIN ds = DOMAIN cs,
         NEW shift \in [DOMAIN cs -> Nat], Cut(cs, ds, shift)
  PROVE  /\ Cardinality(CreatesSent(ds)) <= Cardinality(CreatesSent(cs))
         /\ \A k \in DOMAIN cs : <<k, 1>> \in CreatesSent(cs) /\ shift[k] > 0 =>
              Cardinality(CreatesSent(ds)) <= Cardinality(CreatesSent(cs)) - 1
  <1> DEFINE g == [x \in CreatesSent(ds) |-> <<x[1], shift[x[1]] + x[2]>>]
  <1>0. ASSUME NEW k \in DOMAIN ds, NEW i \in DOMAIN ds[k].requests PROVE i \in Nat \ {0}
    <2>1. ds[k] \in Connection
      BY Elements
    <2>2. ds[k].requests \in Seq(Requests)
      BY <2>1 DEF Connection
    <2>3. DOMAIN ds[k].requests = 1 .. Len(ds[k].requests) /\ Len(ds[k].requests) \in Nat
      BY <2>2, Elements
    <2> QED  BY <2>3
  <1>1. ASSUME NEW x \in CreatesSent(ds)
        PROVE  \E k \in DOMAIN cs : \E i \in Nat \ {0} :
                 x = <<k, i>> /\ g[x] = <<k, shift[k] + i>> /\ g[x] \in CreatesSent(cs)
    <2>a. PICK k \in DOMAIN ds : \E i \in DOMAIN ds[k].requests :
            x = <<k, i>> /\ ds[k].requests[i][1] = "CREATE"
      BY CreatesIs
    <2>1. PICK i \in DOMAIN ds[k].requests :
            x = <<k, i>> /\ ds[k].requests[i][1] = "CREATE"
      BY <2>a
    <2>2. g[x] = <<k, shift[k] + i>>
      BY <2>1
    <2>3. <<k, shift[k] + i>> \in CreatesSent(cs)
      BY <2>1, CreatesIs DEF Cut
    <2> QED  BY <1>0, <2>1, <2>2, <2>3
  <1>2. ASSUME NEW T, IsFiniteSet(T), \A x \in CreatesSent(ds) : g[x] \in T
        PROVE  Cardinality(CreatesSent(ds)) <= Cardinality(T)
    <2>1. ASSUME NEW x \in CreatesSent(ds), NEW y \in CreatesSent(ds), g[x] = g[y]
          PROVE  x = y
      <3>1. PICK k \in DOMAIN cs, i \in Nat \ {0} :
              x = <<k, i>> /\ g[x] = <<k, shift[k] + i>>
        BY <1>1
      <3>2. PICK l \in DOMAIN cs, j \in Nat \ {0} :
              y = <<l, j>> /\ g[y] = <<l, shift[l] + j>>
        BY <1>1
      <3>3. k = l /\ shift[k] + i = shift[k] + j
        BY <2>1, <3>1, <3>2
      <3>4. i = j
        BY <3>3
      <3> QED  BY <3>1, <3>2, <3>3, <3>4
    <2>2. g \in [CreatesSent(ds) -> T]
      BY <1>2
    <2> HIDE DEF g
    <2>3. g \in Injection(CreatesSent(ds), T)
      BY <2>1, <2>2 DEF Injection, IsInjective
    <2> QED  BY <1>2, <2>3, FS_Injection
  <1>3. IsFiniteSet(CreatesSent(cs)) /\ Cardinality(CreatesSent(cs)) \in Nat
    BY CreatesFinite
  <1>4. ASSUME NEW k \in DOMAIN cs, <<k, 1>> \in CreatesSent(cs), shift[k] > 0
        PROVE  Cardinality(CreatesSent(ds)) <= Cardinality(CreatesSent(cs)) - 1
    <2> DEFINE T == CreatesSent(cs) \ {<<k, 1>>}
    <2>1. IsFiniteSet(T) /\ Cardinality(T) = Cardinality(CreatesSent(cs)) - 1
      BY <1>3, <1>4, FS_RemoveElement
    <2>2. ASSUME NEW x \in CreatesSent(ds) PROVE g[x] \in T
      <3>1. PICK l \in DOMAIN cs, i \in Nat \ {0} :
              g[x] = <<l, shift[l] + i>> /\ g[x] \in CreatesSent(cs)
        BY <1>1
      <3>2. <<l, shift[l] + i>> # <<k, 1>>
        <4>1. CASE l = k
          BY <1>4, <4>1
        <4> QED  BY <4>1
      <3> QED  BY <3>1, <3>2
    <2> HIDE DEF T, g
    <2>3. Cardinality(CreatesSent(ds)) <= Cardinality(T)
      BY <1>2, <2>1, <2>2 DEF g
    <2> QED  BY <2>1, <2>3
  <1>5. Cardinality(CreatesSent(ds)) <= Cardinality(CreatesSent(cs))
    BY <1>1, <1>2, <1>3
  <1> QED  BY <1>4, <1>5

-----------------------------------------------------------------------------
(* What the server does to connections.                                    *)

(* No connection comes or goes, and no CREATE is added.                    *)
Served(cs, ds) ==
  /\ ds \in Seq(Connection) /\ DOMAIN ds = DOMAIN cs
  /\ \A k \in DOMAIN cs : ds[k].client = cs[k].client /\ ds[k].port = cs[k].port
  /\ Cardinality(CreatesSent(ds)) <= Cardinality(CreatesSent(cs))

LEMMA ServedTrans ==
  ASSUME NEW cs \in Seq(Connection), NEW ds, NEW es, Served(cs, ds), Served(ds, es)
  PROVE  Served(cs, es)
  <1>1. /\ Cardinality(CreatesSent(cs)) \in Nat /\ Cardinality(CreatesSent(ds)) \in Nat
        /\ Cardinality(CreatesSent(es)) \in Nat
    BY CreatesFinite DEF Served
  <1>2. Cardinality(CreatesSent(es)) <= Cardinality(CreatesSent(cs))
    <2>1. /\ Cardinality(CreatesSent(es)) <= Cardinality(CreatesSent(ds))
          /\ Cardinality(CreatesSent(ds)) <= Cardinality(CreatesSent(cs))
      BY DEF Served
    <2> QED  BY <1>1, <2>1
  <1> QED  BY <1>2 DEF Served

(* The requests of a connection stay, or all of them are gone.             *)
Uncut(c, d) ==
  d.client = c.client /\ d.port = c.port /\ (d.requests = c.requests \/ d.requests = <<>>)

LEMMA ServedIf ==
  ASSUME NEW cs \in Seq(Connection), NEW ds \in Seq(Connection), DOMAIN ds = DOMAIN cs,
         \A k \in DOMAIN cs : Uncut(cs[k], ds[k])
  PROVE  Served(cs, ds)
  <1> DEFINE shift == [k \in DOMAIN cs |-> 0]
  <1>1. shift \in [DOMAIN cs -> Nat]
    OBVIOUS
  <1>2. ASSUME NEW k \in DOMAIN cs, NEW i \in DOMAIN ds[k].requests
        PROVE  shift[k] + i = i /\ ds[k].requests = cs[k].requests
    <2>1. ds[k] \in Connection
      BY Elements
    <2>2. ds[k].requests \in Seq(Requests)
      BY <2>1 DEF Connection
    <2>3. DOMAIN ds[k].requests = 1 .. Len(ds[k].requests) /\ Len(ds[k].requests) \in Nat
      BY <2>2, Elements
    <2>4. i \in Nat /\ shift[k] = 0
      BY <2>3
    <2>5. ds[k].requests # <<>>
      OBVIOUS
    <2> QED  BY <2>4, <2>5 DEF Uncut
  <1>3. Cut(cs, ds, shift)
    BY <1>2 DEF Cut
  <1> HIDE DEF shift
  <1>4. Cardinality(CreatesSent(ds)) <= Cardinality(CreatesSent(cs))
    BY <1>1, <1>3, CreatesShift
  <1> QED  BY <1>4 DEF Served, Uncut

LEMMA cwriteServes ==
  ASSUME NEW cs \in Seq(Connection), NEW ks, NEW m \in Replies
  PROVE  Served(cs, cwrite(cs, ks, m))
  <1>1. /\ cwrite(cs, ks, m) \in Seq(Connection)
        /\ DOMAIN cwrite(cs, ks, m) = DOMAIN cs
        /\ \A k \in DOMAIN cs : Uncut(cs[k], cwrite(cs, ks, m)[k])
    BY cwriteIs DEF Uncut
  <1> QED  BY <1>1, ServedIf

LEMMA ClosedServes ==
  ASSUME NEW cs \in Seq(Connection), NEW ks
  PROVE  Served(cs, Closed(cs, ks))
  <1>1. /\ Closed(cs, ks) \in Seq(Connection)
        /\ DOMAIN Closed(cs, ks) = DOMAIN cs
        /\ \A k \in DOMAIN cs : Uncut(cs[k], Closed(cs, ks)[k])
    BY ClosedIs DEF Uncut
  <1> QED  BY <1>1, ServedIf

(* A connection is accepted.                                               *)
LEMMA OpenIs ==
  ASSUME NEW cs \in Seq(Connection), NEW k \in DOMAIN cs,
         NEW ds, ds = [cs EXCEPT ![k].srv = "open"]
  PROVE  /\ Served(cs, ds)
         /\ \A l \in DOMAIN cs :
              /\ ds[l].replies = cs[l].replies
              /\ ds[l].srv = IF l = k THEN "open" ELSE cs[l].srv
  <1>1. /\ DOMAIN cs = 1 .. Len(cs) /\ Len(cs) \in Nat
        /\ \A l \in DOMAIN cs : cs[l] \in Connection
    BY Elements
  <1> DEFINE e == [cs[k] EXCEPT !.srv = "open"]
  <1>2. /\ e \in Connection /\ e.srv = "open" /\ e.replies = cs[k].replies
        /\ Uncut(cs[k], e)
    BY <1>1 DEF Connection, Uncut
  <1> HIDE DEF e
  <1>3. ds = [cs EXCEPT ![k] = e]
    BY DEF e
  <1>4. ds \in Seq(Connection)
    BY <1>1, <1>2, <1>3, ExceptSeq
  <1>5. DOMAIN ds = DOMAIN cs /\ \A l \in DOMAIN cs : ds[l] = IF l = k THEN e ELSE cs[l]
    BY <1>3
  <1>6. \A l \in DOMAIN cs : Uncut(cs[l], ds[l])
    BY <1>2, <1>5 DEF Uncut
  <1> QED  BY <1>2, <1>4, <1>5, <1>6, ServedIf

(* A request is read.                                                      *)
LEMMA ReadServes ==
  ASSUME NEW cs \in Seq(Connection), NEW k \in DOMAIN cs, NEW ended,
         NEW r \in cread(cs[k].requests, ended),
         NEW ds, ds = [cs EXCEPT ![k].requests = r.rest]
  PROVE  /\ Served(cs, ds)
         /\ r.msg \in Requests \cup {Empty}
         /\ r.msg[1] = "CREATE" =>
              Cardinality(CreatesSent(ds)) <= Cardinality(CreatesSent(cs)) - 1
         /\ \A l \in DOMAIN cs : ds[l].replies = cs[l].replies /\ ds[l].srv = cs[l].srv
  <1>1. /\ DOMAIN cs = 1 .. Len(cs) /\ Len(cs) \in Nat
        /\ \A l \in DOMAIN cs : cs[l] \in Connection
    BY Elements
  <1> DEFINE queue == cs[k].requests
             e == [cs[k] EXCEPT !.requests = r.rest]
  <1>2. queue \in Seq(Requests)
    BY <1>1 DEF Connection
  <1>3. /\ r.rest \in Seq(Requests)
        /\ \/ r.msg = Empty /\ r.rest = <<>>
           \/ /\ queue # <<>> /\ r.msg = queue[1] /\ r.msg \in Requests
              /\ \E n \in DOMAIN queue :
                   /\ Len(r.rest) = Len(queue) - n
                   /\ \A i \in DOMAIN r.rest :
                        n + i \in DOMAIN queue /\ r.rest[i] = queue[n + i]
    <2> HIDE DEF queue
    <2>1. r \in cread(queue, ended)
      BY DEF queue
    <2> QED  BY <1>2, <2>1, creadIs
  <1>4. /\ e \in Connection /\ e.client = cs[k].client /\ e.port = cs[k].port
        /\ e.srv = cs[k].srv /\ e.replies = cs[k].replies /\ e.requests = r.rest
    BY <1>1, <1>3 DEF Connection
  <1> HIDE DEF e
  <1>5. ds = [cs EXCEPT ![k] = e]
    BY DEF e
  <1>6. ds \in Seq(Connection)
    BY <1>1, <1>4, <1>5, ExceptSeq
  <1>7. DOMAIN ds = DOMAIN cs /\ \A l \in DOMAIN cs : ds[l] = IF l = k THEN e ELSE cs[l]
    BY <1>5
  <1>8. CASE r.msg = Empty /\ r.rest = <<>>
    <2>1. \A l \in DOMAIN cs : Uncut(cs[l], ds[l])
      BY <1>4, <1>7, <1>8 DEF Uncut
    <2>2. Served(cs, ds)
      BY <1>6, <1>7, <2>1, ServedIf
    <2>3. r.msg[1] # "CREATE"
      <3>1. <<"">>[1] = "" /\ "" # "CREATE"
        OBVIOUS
      <3> QED  BY <1>8, <3>1 DEF Empty
    <2> QED  BY <1>4, <1>7, <1>8, <2>2, <2>3
  <1>9. CASE /\ queue # <<>> /\ r.msg = queue[1] /\ r.msg \in Requests
             /\ \E n \in DOMAIN queue :
                  /\ Len(r.rest) = Len(queue) - n
                  /\ \A i \in DOMAIN r.rest :
                       n + i \in DOMAIN queue /\ r.rest[i] = queue[n + i]
    <2>1. PICK n \in DOMAIN queue :
            \A i \in DOMAIN r.rest : n + i \in DOMAIN queue /\ r.rest[i] = queue[n + i]
      BY <1>9
    <2> DEFINE shift == [l \in DOMAIN cs |-> IF l = k THEN n ELSE 0]
    <2>2. DOMAIN queue = 1 .. Len(queue) /\ Len(queue) \in Nat
      BY <1>2, Elements
    <2>3. n \in Nat \ {0} /\ 1 \in DOMAIN queue
      BY <2>2
    <2>4. shift \in [DOMAIN cs -> Nat] /\ shift[k] = n
      BY <2>3
    <2>5. ASSUME NEW l \in DOMAIN cs, NEW i \in DOMAIN ds[l].requests
          PROVE  /\ shift[l] + i \in DOMAIN cs[l].requests
                 /\ ds[l].requests[i] = cs[l].requests[shift[l] + i]
      <3>1. CASE l = k
        BY <1>4, <1>7, <2>1, <2>4, <3>1
      <3>2. CASE l # k
        <4>1. cs[l].requests \in Seq(Requests)
          BY <1>1 DEF Connection
        <4>2. DOMAIN cs[l].requests = 1 .. Len(cs[l].requests) /\ Len(cs[l].requests) \in Nat
          BY <4>1, Elements
        <4>3. ds[l] = cs[l] /\ shift[l] = 0
          BY <1>7, <3>2
        <4>4. shift[l] + i = i
          BY <4>2, <4>3
        <4> QED  BY <4>3, <4>4
      <3> QED  BY <3>1, <3>2
    <2> HIDE DEF shift
    <2>6. Cut(cs, ds, shift)
      BY <2>5 DEF Cut
    <2>7. /\ Cardinality(CreatesSent(ds)) <= Cardinality(CreatesSent(cs))
          /\ <<k, 1>> \in CreatesSent(cs) /\ shift[k] > 0 =>
               Cardinality(CreatesSent(ds)) <= Cardinality(CreatesSent(cs)) - 1
      BY <1>6, <1>7, <2>4, <2>6, CreatesShift
    <2>8. r.msg[1] = "CREATE" => <<k, 1>> \in CreatesSent(cs)
      BY <1>9, <2>3, CreatesIs
    <2>9. shift[k] > 0
      BY <2>3, <2>4
    <2>10. Served(cs, ds)
      BY <1>4, <1>6, <1>7, <2>7 DEF Served
    <2> QED  BY <1>4, <1>7, <1>9, <2>7, <2>8, <2>9, <2>10
  <1> QED  BY <1>3, <1>8, <1>9

(* Ports and the server's ends are the same, or but for one that is opened.*)
Alike(cs, ds) ==
  DOMAIN ds = DOMAIN cs
    /\ \A k \in DOMAIN cs : ds[k].port = cs[k].port /\ ds[k].srv = cs[k].srv
Opened(cs, k, ds) ==
  DOMAIN ds = DOMAIN cs
    /\ \A l \in DOMAIN cs :
         /\ ds[l].port = cs[l].port
         /\ ds[l].srv = IF l = k THEN "open" ELSE cs[l].srv
         /\ ds[l].replies = cs[l].replies \/ ds[l].replies = Append(cs[l].replies, <<"welcome">>)

LEMMA cwriteAlike ==
  ASSUME NEW cs \in Seq(Connection), NEW ks, NEW m \in Replies
  PROVE  Alike(cs, cwrite(cs, ks, m))
  BY cwriteIs DEF Alike

Written(cs, m, ds) ==
  DOMAIN ds = DOMAIN cs
    /\ \A k \in DOMAIN cs :
         /\ ds[k].port = cs[k].port /\ ds[k].srv = cs[k].srv
         /\ ds[k].replies = cs[k].replies \/ ds[k].replies = Append(cs[k].replies, m)

LEMMA cwriteWrites ==
  ASSUME NEW cs \in Seq(Connection), NEW ks, NEW m \in Replies
  PROVE  Written(cs, m, cwrite(cs, ks, m))
  BY cwriteIs DEF Written

LEMMA ReadAlike ==
  ASSUME NEW cs \in Seq(Connection), NEW k \in DOMAIN cs, NEW ended,
         NEW r \in cread(cs[k].requests, ended),
         NEW ds, ds = [cs EXCEPT ![k].requests = r.rest]
  PROVE  Alike(cs, ds)
  BY ReadServes DEF Alike, Served

(* A connection is accepted, and greeted.                                  *)
LEMMA AcceptIs ==
  ASSUME NEW cs \in Seq(Connection), NEW k \in DOMAIN cs,
         NEW ds, ds = cwrite([cs EXCEPT ![k].srv = "open"], {k}, <<"welcome">>)
  PROVE  Served(cs, ds) /\ Opened(cs, k, ds)
  <1> DEFINE os == [cs EXCEPT ![k].srv = "open"]
  <1>1. os = [cs EXCEPT ![k].srv = "open"] /\ ds = cwrite(os, {k}, <<"welcome">>)
    OBVIOUS
  <1> HIDE DEF os
  <1>a. Served(cs, os)
    BY <1>1, OpenIs
  <1>b. \A l \in DOMAIN cs :
          /\ os[l].replies = cs[l].replies
          /\ os[l].srv = IF l = k THEN "open" ELSE cs[l].srv
    <2>1. cs[k] \in Connection
      BY Elements
    <2>2. /\ [cs[k] EXCEPT !.srv = "open"].replies = cs[k].replies
          /\ [cs[k] EXCEPT !.srv = "open"].srv = "open"
      BY <2>1 DEF Connection
    <2> QED  BY <1>1, <2>2
  <1>2. /\ Served(cs, os)
        /\ \A l \in DOMAIN cs :
             /\ os[l].replies = cs[l].replies
             /\ os[l].srv = IF l = k THEN "open" ELSE cs[l].srv
    BY <1>a, <1>b
  <1>3. <<"welcome">> \in Replies /\ os \in Seq(Connection)
    BY <1>2 DEF Replies, Served
  <1>4. Served(os, ds)
    BY <1>1, <1>3, cwriteServes
  <1>5. Written(os, <<"welcome">>, ds)
    BY <1>1, <1>3, cwriteWrites
  <1>6. Served(cs, ds)
    BY <1>2, <1>4, ServedTrans
  <1>7. Opened(cs, k, ds)
    BY <1>2, <1>5, <1>6 DEF Served, Opened, Written
  <1> QED  BY <1>6, <1>7

-----------------------------------------------------------------------------
(* The vector of rooms.                                                    *)

LEMMA MinIs ==
  ASSUME NEW B \in SUBSET Nat, B # {}
  PROVE  Min(B) \in B /\ \A y \in B : Min(B) <= y
  <1>1. PICK b \in B : \A j \in B : ~(<<j, b>> \in OpToRel(<, Nat))
    BY NatLessThanWellFounded, WFMin
  <1>2. \A j \in B : ~(j < b)
    BY <1>1, Zenon DEF OpToRel
  <1>3. \A j \in B : b <= j
    BY <1>2
  <1> QED  BY <1>3 DEF Min

LEMMA SearchIs ==
  ASSUME NEW is \in SUBSET (Nat \ {0})
  PROVE  IF is = {} THEN FirstRoom(is) = 0 ELSE FirstRoom(is) \in is
  BY MinIs DEF FirstRoom

LEMMA getRoomByNameIs ==
  ASSUME NEW S, rooms \in Seq(S), NEW name
  PROVE  LET i == getRoomByName(name)
         IN  \/ i = 0 /\ \A n \in DOMAIN rooms : rooms[n].name # name
             \/ i \in DOMAIN rooms /\ rooms[i].name = name
  <1>1. DOMAIN rooms = 1 .. Len(rooms) /\ Len(rooms) \in Nat
    BY Elements
  <1> DEFINE is == {i \in DOMAIN rooms : rooms[i].name = name}
  <1>2. is \in SUBSET (Nat \ {0})
    BY <1>1
  <1>3. IF is = {} THEN FirstRoom(is) = 0 ELSE FirstRoom(is) \in is
    BY <1>2, SearchIs
  <1> QED  BY <1>3 DEF getRoomByName

LEMMA getRoomByPortIs ==
  ASSUME NEW S, rooms \in Seq(S), NEW p
  PROVE  LET i == getRoomByPort(p)
         IN  \/ i = 0 /\ \A n \in DOMAIN rooms : rooms[n].port # p
             \/ i \in DOMAIN rooms /\ rooms[i].port = p
  <1>1. DOMAIN rooms = 1 .. Len(rooms) /\ Len(rooms) \in Nat
    BY Elements
  <1> DEFINE is == {i \in DOMAIN rooms : rooms[i].port = p}
  <1>2. is \in SUBSET (Nat \ {0})
    BY <1>1
  <1>3. IF is = {} THEN FirstRoom(is) = 0 ELSE FirstRoom(is) \in is
    BY <1>2, SearchIs
  <1> QED  BY <1>3 DEF getRoomByPort

LEMMA MembersIs ==
  ASSUME NEW S, NEW rs \in Seq(Chamber(S)), NEW i \in DOMAIN rs, NEW m \in Seq(S),
         NEW qs, qs = [rs EXCEPT ![i].members = m]
  PROVE  /\ qs \in Seq(Chamber(S)) /\ Len(qs) = Len(rs) /\ DOMAIN qs = DOMAIN rs
         /\ \A n \in DOMAIN rs :
              /\ qs[n].name = rs[n].name /\ qs[n].port = rs[n].port
              /\ qs[n].close = rs[n].close
              /\ qs[n].members = IF n = i THEN m ELSE rs[n].members
  <1>1. /\ DOMAIN rs = 1 .. Len(rs) /\ Len(rs) \in Nat
        /\ \A n \in DOMAIN rs : rs[n] \in Chamber(S)
    BY Elements
  <1> DEFINE e == [rs[i] EXCEPT !.members = m]
  <1>2. /\ e \in Chamber(S) /\ e.name = rs[i].name /\ e.port = rs[i].port
        /\ e.close = rs[i].close /\ e.members = m
    BY <1>1 DEF Chamber
  <1> HIDE DEF e
  <1>3. qs = [rs EXCEPT ![i] = e]
    BY DEF e
  <1>4. qs \in Seq(Chamber(S)) /\ Len(qs) = Len(rs)
    BY <1>1, <1>2, <1>3, ExceptSeq
  <1> QED  BY <1>2, <1>3, <1>4

LEMMA CloseFlagIs ==
  ASSUME NEW S, NEW rs \in Seq(Chamber(S)), NEW i \in DOMAIN rs,
         NEW qs, qs = [rs EXCEPT ![i].close = TRUE]
  PROVE  /\ qs \in Seq(Chamber(S)) /\ Len(qs) = Len(rs) /\ DOMAIN qs = DOMAIN rs
         /\ \A n \in DOMAIN rs :
              /\ qs[n].name = rs[n].name /\ qs[n].port = rs[n].port
              /\ qs[n].members = rs[n].members
  <1>1. /\ DOMAIN rs = 1 .. Len(rs) /\ Len(rs) \in Nat
        /\ \A n \in DOMAIN rs : rs[n] \in Chamber(S)
    BY Elements
  <1> DEFINE e == [rs[i] EXCEPT !.close = TRUE]
  <1>2. /\ e \in Chamber(S) /\ e.name = rs[i].name /\ e.port = rs[i].port
        /\ e.members = rs[i].members
    BY <1>1 DEF Chamber
  <1> HIDE DEF e
  <1>3. qs = [rs EXCEPT ![i] = e]
    BY DEF e
  <1>4. qs \in Seq(Chamber(S)) /\ Len(qs) = Len(rs)
    <2>1. [rs EXCEPT ![i] = e] \in Seq(Chamber(S)) /\ Len([rs EXCEPT ![i] = e]) = Len(rs)
      BY <1>1, <1>2, ExceptSeq
    <2> QED  BY <1>3, <2>1
  <1> QED  BY <1>2, <1>3, <1>4

LEMMA AnotherRoomIs ==
  ASSUME NEW S, NEW rs \in Seq(Chamber(S)), NEW name \in Room, NEW p \in Thread,
         NEW qs, qs = Append(rs, NewRoom(name, p))
  PROVE  /\ qs \in Seq(Chamber(S)) /\ Len(qs) = Len(rs) + 1
         /\ DOMAIN qs = 1 .. Len(rs) + 1
         /\ \A n \in DOMAIN qs :
              \/ n \in DOMAIN rs /\ qs[n] = rs[n]
              \/ n = Len(rs) + 1 /\ qs[n] = NewRoom(name, p)
  <1> DEFINE e == NewRoom(name, p)
  <1>1. e \in Chamber(S)
    BY EmptySeq DEF NewRoom, Chamber
  <1> HIDE DEF e
  <1>2. /\ qs \in Seq(Chamber(S)) /\ Len(qs) = Len(rs) + 1
        /\ \A i \in 1 .. Len(rs) : qs[i] = rs[i]
        /\ qs[Len(rs) + 1] = e
    BY <1>1, AppendProperties DEF e
  <1>3. /\ DOMAIN qs = 1 .. Len(rs) + 1 /\ DOMAIN rs = 1 .. Len(rs) /\ Len(rs) \in Nat
    BY <1>2, Elements
  <1> QED  BY <1>2, <1>3 DEF e

-----------------------------------------------------------------------------
(* Types, of any rooms.                                                    *)

LEMMA FitInit == RInit => FitInv
  <1> SUFFICES ASSUME RInit PROVE FitInv
    OBVIOUS
  <1>1. conn = <<>> /\ \A S : <<>> \in Seq(S)
    BY EmptySeq DEF RInit, SInit
  <1>2. CreatesSent(conn) = {}
    BY <1>1 DEF CreatesSent
  <1>3. Cardinality(CreatesSent(conn)) = 0
    BY <1>2, FS_EmptySet
  <1>4. MaxPorts \in Nat /\ MaxAhead \in Nat
    BY RoomServerAssumption, RoomClientAssumption
  <1>5. conn \in Seq(Connection) /\ fds \in Seq(DOMAIN conn) /\ rooms \in Seq(Chamber(Socket))
    BY <1>1 DEF RInit, SInit
  <1>6. RTypeOK
    BY <1>4, <1>5 DEF RTypeOK, RInit, SInit, CInit, UsesRooms
  <1>7. RoomsFit
    <2>1. mreq[1] # "CREATE"
      <3>1. <<"">>[1] = "" /\ "" # "CREATE"
        OBVIOUS
      <3> QED  BY <3>1 DEF RInit, SInit, Empty
    <2>2. /\ \A c \in Client : cpc[c] = "off"
          /\ \A t \in Thread : tpc[t] = "none"
          /\ mpc = "select" /\ nextPort = 1
      BY DEF RInit, SInit, CInit
    <2> QED  BY <1>3, <1>4, <2>1, <2>2 DEF RoomsFit, Serving, UsesRooms
  <1> QED  BY <1>6, <1>7 DEF FitInv

LEMMA SocketsGrow ==
  ASSUME RTypeOK, DOMAIN conn \subseteq DOMAIN conn'
  PROVE  /\ Socket \subseteq Socket'
         /\ fds \in Seq(DOMAIN conn') /\ rooms \in Seq(Chamber(Socket'))
         /\ mready \subseteq DOMAIN conn'
         /\ watch \in [Thread -> SUBSET Socket'] /\ tready \in [Thread -> SUBSET Socket']
  <1>1. Socket \subseteq Socket'
    BY DEF Socket
  <1>2. Chamber(Socket) \subseteq Chamber(Socket')
    <2>1. ASSUME NEW r \in Chamber(Socket) PROVE r \in Chamber(Socket')
      <3>1. r.members \in Seq(Socket) /\ r.name \in Room /\ r.port \in Thread
              /\ r.close \in BOOLEAN
              /\ r = [name |-> r.name, port |-> r.port, members |-> r.members,
                      close |-> r.close]
        BY DEF Chamber
      <3>2. r.members \in Seq(Socket')
        BY <1>1, <3>1, SeqMonotonic
      <3> QED  BY <3>1, <3>2 DEF Chamber
    <2> QED  BY <2>1
  <1>3. fds \in Seq(DOMAIN conn')
    BY SeqMonotonic DEF RTypeOK
  <1>4. rooms \in Seq(Chamber(Socket'))
    BY <1>2, SeqMonotonic DEF RTypeOK
  <1>5. watch \in [Thread -> SUBSET Socket'] /\ tready \in [Thread -> SUBSET Socket']
    BY <1>1 DEF RTypeOK
  <1> QED  BY <1>1, <1>3, <1>4, <1>5 DEF RTypeOK

LEMMA ClientFits == FitInv /\ ClientStep => FitInv' /\ Kept(conn, conn')
  <1> SUFFICES ASSUME FitInv, ClientStep PROVE FitInv' /\ Kept(conn, conn')
    OBVIOUS
  <1> USE DEF FitInv
  <1>1. ClientsFit /\ conn \in Seq(Connection) /\ listening \subseteq Thread \cup {MasterPort}
    BY DEF ClientsFit, RTypeOK, RoomsFit
  <1>2. Kept(conn, conn') /\ ClientsFit' /\ UNCHANGED <<up, listening>> /\ UNCHANGED svars
    BY <1>1, CNextKeeps DEF ClientStep
  <1>3. DOMAIN conn \subseteq DOMAIN conn' /\ conn' \in Seq(Connection)
    BY <1>2 DEF Kept
  <1>4. /\ fds' \in Seq(DOMAIN conn') /\ rooms' \in Seq(Chamber(Socket'))
        /\ mready' \subseteq DOMAIN conn'
        /\ watch' \in [Thread -> SUBSET Socket'] /\ tready' \in [Thread -> SUBSET Socket']
    BY <1>2, <1>3, SocketsGrow DEF svars, master, threads
  <1>5. RTypeOK'
    BY <1>2, <1>3, <1>4 DEF RTypeOK, ClientsFit, svars, master, threads
  <1>6. nextPort' + Cardinality(CreatesSent(conn')) <= MaxPorts + 1
    BY <1>2 DEF ClientStep, PortsLeft, svars
  <1>7. RoomsFit'
    BY <1>2, <1>6 DEF RoomsFit, ClientsFit, svars, master, threads
  <1> QED  BY <1>2, <1>5, <1>7

LEMMA SocketsStay ==
  ASSUME DOMAIN conn' = DOMAIN conn PROVE Socket' = Socket
  BY DEF Socket

(* A step of the main thread.                                              *)
LEMMA MasterFits ==
  ASSUME FitInv, MainThread, up' = up, UNCHANGED cvars
  PROVE  FitInv' /\ Served(conn, conn')
  <1> USE DEF FitInv
  <1>1. conn \in Seq(Connection) /\ Served(conn, conn)
    BY ServedIf DEF RTypeOK, Uncut
  <1>2. fds \in Seq(DOMAIN conn) /\ rooms \in Seq(Chamber(Socket))
    BY DEF RTypeOK
  <1>3. DOMAIN fds = 1 .. Len(fds) /\ \A i \in DOMAIN fds : fds[i] \in DOMAIN conn
    BY <1>2, Elements
  <1>4. Cardinality(CreatesSent(conn)) \in Nat /\ nextPort \in Nat /\ MaxPorts \in Nat
    BY <1>1, CreatesFinite, RoomServerAssumption DEF RTypeOK
  <1>5. ASSUME Served(conn, conn')
        PROVE  /\ conn' \in Seq(Connection) /\ DOMAIN conn' = DOMAIN conn /\ Socket' = Socket
               /\ Cardinality(CreatesSent(conn')) \in Nat
               /\ nextPort + Cardinality(CreatesSent(conn')) <= MaxPorts + 1
    <2>1. /\ conn' \in Seq(Connection) /\ DOMAIN conn' = DOMAIN conn
          /\ Cardinality(CreatesSent(conn')) <= Cardinality(CreatesSent(conn))
      BY <1>5 DEF Served
    <2>2. Cardinality(CreatesSent(conn')) \in Nat
      BY <2>1, CreatesFinite
    <2>3. nextPort + Cardinality(CreatesSent(conn')) <= MaxPorts + 1
      BY <1>4, <2>1, <2>2 DEF RoomsFit
    <2> QED  BY <2>1, <2>2, <2>3, SocketsStay
  <1>6. CASE MasterAccept
    <2>1. PICK k \in FirstQueued(MasterPort) :
            /\ conn' = cwrite([conn EXCEPT ![k].srv = "open"], {k}, <<"welcome">>)
            /\ fds' = Append(fds, k)
      BY <1>6 DEF MasterAccept
    <2>2. k \in DOMAIN conn
      BY DEF FirstQueued
    <2>5. Served(conn, conn')
      BY <1>1, <2>1, <2>2, AcceptIs
    <2>6. fds' \in Seq(DOMAIN conn)
      BY <1>2, <2>1, <2>2, AppendProperties
    <2>7. FitInv'
      BY <1>5, <1>6, <2>5, <2>6
         DEF RTypeOK, RoomsFit, MasterAccept, MasterStep, threads, cvars
    <2> QED  BY <2>5, <2>7
  <1>7. CASE MasterSelect
    <2>1. mready' \subseteq DOMAIN conn
      BY <1>7 DEF MasterSelect, Ready
    <2>2. FitInv'
      BY <1>1, <1>5, <1>7, <2>1
         DEF RTypeOK, RoomsFit, MasterSelect, MasterStep, threads, cvars, net
    <2> QED  BY <1>1, <1>7, <2>2 DEF MasterSelect, net
  <1>8. CASE MasterScanned
    <2>1. FitInv'
      BY <1>1, <1>5, <1>8
         DEF RTypeOK, RoomsFit, MasterScanned, MasterStep, threads, cvars, net
    <2> QED  BY <1>1, <1>8, <2>1 DEF MasterScanned, net
  <1>9. CASE MasterRead
    <2> DEFINE i == Min(MasterPending)
               k == fds[i]
    <2>1. i \in DOMAIN fds
      <3>1. MasterPending \subseteq DOMAIN fds /\ MasterPending # {}
        BY <1>9 DEF MasterRead, MasterPending
      <3>2. MasterPending \in SUBSET Nat
        BY <1>3, <3>1
      <3> QED  BY <3>1, <3>2, MinIs
    <2>2. k \in DOMAIN conn
      BY <1>3, <2>1
    <2>3. PICK r \in cread(conn[k].requests, ~conn[k].here) :
            /\ conn' = [conn EXCEPT ![k].requests = r.rest]
            /\ mreq' \in {r.msg} \cup (IF r.msg = Empty THEN {<<"TALK">>} ELSE {})
      BY <1>9 DEF MasterRead
    <2>4. /\ Served(conn, conn') /\ r.msg \in Requests \cup {Empty}
          /\ r.msg[1] = "CREATE" =>
               Cardinality(CreatesSent(conn')) <= Cardinality(CreatesSent(conn)) - 1
      <3> HIDE DEF k
      <3> QED  BY <1>1, <2>2, <2>3, ReadServes
    <2>5. mreq' \in Requests \cup {Empty} /\ (mreq'[1] = "CREATE" => mreq' = r.msg)
      <3>1. <<"TALK">> \in Requests /\ <<"TALK">>[1] # "CREATE"
        BY DEF Requests
      <3> QED  BY <2>3, <2>4, <3>1
    <2>6. mi' = i /\ mpc' = "act"
      BY <1>9 DEF MasterRead, MasterStep
    <2>7. mfound' \in Nat
      <3>1. getRoomByName(mreq'[2]) \in Nat
        BY <1>2, getRoomByNameIs, Elements
      <3> QED  BY <1>9, <3>1 DEF MasterRead
    <2>8. /\ nextPort' = IF mreq'[1] = "CREATE" THEN nextPort + 1 ELSE nextPort
          /\ UNCHANGED <<up, listening, fds, rooms, serv, mready, threads>>
      BY <1>9 DEF MasterRead, getNextPort
    <2>9. /\ nextPort' \in 1 .. MaxPorts + 1
          /\ nextPort' + Cardinality(CreatesSent(conn')) <= MaxPorts + 1
          /\ mreq'[1] = "CREATE" => nextPort \in Thread
      <3>1. CASE mreq'[1] = "CREATE"
        <4> DEFINE m == Cardinality(CreatesSent(conn))
                   n == Cardinality(CreatesSent(conn'))
        <4>1. /\ m \in Nat /\ n \in Nat /\ nextPort \in Nat \ {0} /\ MaxPorts \in Nat
              /\ n <= m - 1 /\ nextPort + m <= MaxPorts + 1 /\ nextPort' = nextPort + 1
          BY <1>4, <1>5, <2>4, <2>5, <2>8, <3>1 DEF RTypeOK, RoomsFit
        <4> HIDE DEF m, n
        <4>2. /\ nextPort' \in 1 .. MaxPorts + 1 /\ nextPort' + n <= MaxPorts + 1
              /\ nextPort \in 1 .. MaxPorts
          BY <4>1
        <4> QED  BY <4>2 DEF n, Thread
      <3>2. CASE mreq'[1] # "CREATE"
        BY <1>5, <2>4, <2>8, <3>2 DEF RTypeOK
      <3> QED  BY <3>1, <3>2
    <2>10. mreq'[1] = "CREATE" => nextPort' > 1 /\ tpc[nextPort' - 1] = "none"
      <3> SUFFICES ASSUME mreq'[1] = "CREATE"
                   PROVE  nextPort' > 1 /\ tpc[nextPort' - 1] = "none"
        OBVIOUS
      <3>1. nextPort \in Thread /\ nextPort' - 1 = nextPort /\ nextPort' > 1 /\ ~(nextPort < nextPort)
        BY <1>4, <2>8, <2>9 DEF RTypeOK
      <3>2. tpc[nextPort] = "none"
        BY <3>1 DEF RoomsFit
      <3> QED  BY <3>1, <3>2
    <2>11. RTypeOK'
      <3>1. mi' \in Nat
        BY <1>3, <2>1, <2>6
      <3>2. mpc' \in {"select", "scan", "act"}
        BY <2>6
      <3>3. conn' \in Seq(Connection) /\ DOMAIN conn' = DOMAIN conn /\ Socket' = Socket
        BY <1>5, <2>4
      <3> HIDE DEF i, k
      <3> QED  BY <2>5, <2>7, <2>8, <2>9, <3>1, <3>2, <3>3 DEF RTypeOK, threads, cvars
    <2>12. \A t \in Thread : t < nextPort => t < nextPort'
      BY <1>4, <2>8 DEF Thread
    <2>13. RoomsFit'
      BY <1>5, <2>1, <2>4, <2>6, <2>8, <2>9, <2>10, <2>12 DEF RoomsFit, threads, cvars
    <2> QED  BY <2>4, <2>11, <2>13
  <1>10. ASSUME NEW request, Act(request)
         PROVE  /\ mi \in DOMAIN fds /\ fds[mi] \in DOMAIN conn /\ mpc' = "scan"
                /\ mi' \in Nat /\ mreq' = Empty /\ mreq'[1] # "CREATE" /\ mfound' = 0
                /\ UNCHANGED <<up, listening, nextPort, serv, mready, slavePort, slavefd,
                               index, watch, tready, ti>>
    <2>1. mi \in DOMAIN fds /\ mi \in Nat
      BY <1>10 DEF RoomsFit, RTypeOK, Act, MasterStep
    <2>2. <<"">>[1] = "" /\ "" # "CREATE"
      OBVIOUS
    <2>3. mi' \in Nat
      BY <1>10, <2>1 DEF Act
    <2>4. mreq' = Empty /\ mreq'[1] # "CREATE"
      BY <1>10, <2>2 DEF Act, Empty
    <2> QED  BY <1>3, <1>10, <2>1, <2>3, <2>4 DEF Act, MasterStep
  <1>11. ASSUME NEW request, Act(request), Served(conn, conn'),
                fds' \in Seq(DOMAIN conn), rooms' \in Seq(Chamber(Socket)),
                tpc' = tpc \/ (/\ request = "CREATE"
                               /\ tpc' = [tpc EXCEPT ![nextPort - 1] = "start"])
         PROVE  FitInv' /\ Served(conn, conn')
    <2>1. RTypeOK'
      <3>1. DOMAIN tpc' = DOMAIN tpc /\ \A t \in Thread : tpc'[t] = tpc[t] \/ tpc'[t] = "start"
        BY <1>11 DEF RTypeOK
      <3>2. tpc' \in [Thread -> UsesRooms \cup {"none", "start", "bind", "listen", "wait",
                                                "done"}]
        <4>1. tpc' = [t \in DOMAIN tpc' |-> tpc'[t]]
          BY <1>11 DEF RTypeOK
        <4> QED  BY <3>1, <4>1 DEF RTypeOK
      <3>3. conn' \in Seq(Connection) /\ DOMAIN conn' = DOMAIN conn /\ Socket' = Socket
        BY <1>5, <1>11
      <3>4. mpc' \in {"select", "scan", "act"} /\ mi' \in Nat /\ mfound' \in Nat
              /\ mreq' \in Requests \cup {Empty}
        BY <1>10, <1>11
      <3> QED  BY <1>10, <1>11, <3>2, <3>3, <3>4 DEF RTypeOK, cvars
    <2>2. \A t \in Thread : tpc'[t] # "none" => t < nextPort
      <3>1. CASE tpc' = tpc
        BY <3>1 DEF RoomsFit
      <3>2. CASE request = "CREATE" /\ tpc' = [tpc EXCEPT ![nextPort - 1] = "start"]
        <4>1. \A t \in Thread : tpc'[t] = tpc[t] \/ t = nextPort - 1
          BY <3>2 DEF RTypeOK
        <4> QED  BY <1>4, <4>1 DEF RoomsFit
      <3> QED  BY <1>11, <3>1, <3>2
    <2>3. \A t \in Thread : tpc'[t] \in Serving => tpc[t] \in Serving
      BY <1>11 DEF RTypeOK, Serving, UsesRooms
    <2>4. RoomsFit'
      BY <1>5, <1>10, <1>11, <2>2, <2>3 DEF RoomsFit, cvars
    <2> QED  BY <1>11, <2>1, <2>4
  <1>12. ASSUME NEW m \in Replies, Answer(m) PROVE Served(conn, conn')
    BY <1>1, <1>12, cwriteServes DEF Answer
  <1>13. <<"reply">> \in Replies
    BY DEF Replies
  <1>14. CASE Create
    <2>1. Act("CREATE") /\ Served(conn, conn')
      BY <1>12, <1>13, <1>14 DEF Create
    <2>2. mreq[1] = "CREATE" /\ mreq \in Requests
      <3>1. <<"">>[1] = "" /\ "" # "CREATE"
        OBVIOUS
      <3> QED  BY <2>1, <3>1 DEF Act, RTypeOK, Empty
    <2>3. mreq[2] \in Room
      BY <2>2 DEF Requests
    <2>4. nextPort - 1 \in Thread
      BY <1>4, <2>2 DEF RoomsFit, RTypeOK, Thread
    <2>5. rooms' = Append(rooms, NewRoom(mreq[2], nextPort - 1))
      BY <1>14 DEF Create
    <2>6. rooms' \in Seq(Chamber(Socket))
      BY <1>2, <2>3, <2>4, <2>5, AnotherRoomIs
    <2> QED  BY <1>2, <1>11, <1>14, <2>1, <2>6 DEF Create
  <1>15. CASE Join
    <2>1. Act("JOIN") /\ mfound \in DOMAIN rooms /\ UNCHANGED <<rooms, tpc>>
      BY <1>15 DEF Join
    <2>2. rooms[mfound] \in Chamber(Socket)
      BY <1>2, <2>1, Elements
    <2>3. <<"port", rooms[mfound].port>> \in Replies
      BY <2>2 DEF Replies, Chamber
    <2>4. fds' \in Seq(DOMAIN conn)
      BY <1>2, <1>10, <1>15, <2>1, RemoveAtIs DEF Join
    <2> QED  BY <1>2, <1>11, <1>12, <1>15, <2>1, <2>3, <2>4 DEF Join
  <1>16. CASE Delete
    <2>1. Act("DELETE") /\ mfound \in DOMAIN rooms /\ UNCHANGED <<fds, tpc>>
      BY <1>16 DEF Delete
    <2>2. rooms' \in Seq(Chamber(Socket))
      BY <1>2, <1>16, CloseFlagIs DEF Delete
    <2> QED  BY <1>2, <1>11, <1>12, <1>13, <1>16, <2>1, <2>2 DEF Delete
  <1>17. CASE Refuse
    <2>1. PICK request : Act(request)
      BY <1>17 DEF Refuse
    <2> QED  BY <1>2, <1>11, <1>12, <1>13, <1>17, <2>1 DEF Refuse
  <1>18. CASE Disconnect
    <2>1. Act(Empty[1]) /\ UNCHANGED <<rooms, tpc>>
      BY <1>18 DEF Disconnect
    <2>2. fds' \in Seq(DOMAIN conn)
      BY <1>2, <1>10, <1>18, <2>1, RemoveAtIs DEF Disconnect
    <2>3. Served(conn, conn')
      BY <1>1, <1>18, ClosedServes DEF Disconnect
    <2> QED  BY <1>2, <1>11, <2>1, <2>2, <2>3
  <1>19. ~Die
    BY DEF Die
  <1> QED  BY <1>6, <1>7, <1>8, <1>9, <1>14, <1>15, <1>16, <1>17, <1>18, <1>19
           DEF MainThread, process_request

(* Sockets are closed.                                                     *)
LEMMA CloseIs ==
  ASSUME NEW cs \in Seq(Connection), NEW ks, Close(cs, ks)
  PROVE  /\ Served(cs, conn') /\ listening' \subseteq listening
         /\ \A p \in listening : p \in listening' <=> Listener(p) \notin ks
         /\ \A k \in DOMAIN cs :
              /\ conn'[k].replies = cs[k].replies
              /\ \/ conn'[k].srv = cs[k].srv /\ k \notin ks
                 \/ conn'[k].srv = "closed" /\ (k \in ks \/ cs[k].srv = "queued")
  <1> DEFINE all == ks \cup {k \in DOMAIN cs : /\ cs[k].srv = "queued"
                                               /\ Listener(cs[k].port) \in ks}
  <1>1. conn' = Closed(cs, all) /\ listening' = {p \in listening : Listener(p) \notin ks}
    BY DEF Close
  <1>2. \A k \in DOMAIN cs : k \in all => k \in ks \/ cs[k].srv = "queued"
    OBVIOUS
  <1>3. ks \subseteq all
    OBVIOUS
  <1> HIDE DEF all
  <1>4. Served(cs, conn')
    BY <1>1, ClosedServes
  <1>5. \A k \in DOMAIN cs :
          /\ conn'[k].replies = cs[k].replies
          /\ conn'[k].srv = IF k \in all THEN "closed" ELSE cs[k].srv
    BY <1>1, ClosedIs
  <1> QED  BY <1>1, <1>2, <1>3, <1>4, <1>5

(* A step of the thread of a room.                                         *)
LEMMA ThreadFits ==
  ASSUME FitInv, NEW t \in Thread, create_slave_room(t), UNCHANGED cvars
  PROVE  FitInv' /\ Served(conn, conn')
  <1> USE DEF FitInv
  <1>1. conn \in Seq(Connection) /\ Served(conn, conn)
    BY ServedIf DEF RTypeOK, Uncut
  <1>2. rooms \in Seq(Chamber(Socket))
    BY DEF RTypeOK
  <1>3. Cardinality(CreatesSent(conn)) \in Nat /\ nextPort \in Nat /\ MaxPorts \in Nat
    BY <1>1, CreatesFinite, RoomServerAssumption DEF RTypeOK
  <1> DEFINE Stage == UsesRooms \cup {"none", "start", "bind", "listen", "wait", "done"}
  <1>4. ASSUME NEW from, NEW to \in Stage, from # "none", ThreadStep(t, from, to),
               Served(conn, conn'), listening' \subseteq Thread \cup {MasterPort},
               up' = up, rooms' \in Seq(Chamber(Socket)), serv' \in Thread \cup {Freed},
               slavePort' \in [Thread -> Thread \cup {MasterPort}],
               slavefd' \in [Thread -> Thread \cup {MasterPort}],
               index' \in [Thread -> Nat], watch' \in [Thread -> SUBSET Socket],
               tready' \in [Thread -> SUBSET Socket], ti' \in [Thread -> Nat],
               to \in Serving => slavefd'[t] \in Thread,
               \A u \in Thread \ {t} : slavefd'[u] = slavefd[u]
        PROVE  FitInv' /\ Served(conn, conn')
    <2>1. conn' \in Seq(Connection) /\ DOMAIN conn' = DOMAIN conn /\ Socket' = Socket
      BY <1>4, SocketsStay DEF Served
    <2>2. /\ tpc' = [tpc EXCEPT ![t] = to] /\ tpc[t] = from
          /\ UNCHANGED <<fds, nextPort, mpc, mready, mi, mreq, mfound>>
      BY <1>4 DEF ThreadStep, master
    <2>3. tpc' \in [Thread -> Stage]
      BY <2>2 DEF RTypeOK
    <2>4. RTypeOK'
      BY <1>4, <2>1, <2>2, <2>3 DEF RTypeOK, cvars
    <2>5. nextPort' + Cardinality(CreatesSent(conn')) <= MaxPorts + 1
      <3> DEFINE m == Cardinality(CreatesSent(conn))
                 n == Cardinality(CreatesSent(conn'))
      <3>1. n <= m /\ n \in Nat /\ m \in Nat /\ nextPort + m <= MaxPorts + 1
        BY <1>3, <1>4, <2>1, CreatesFinite DEF Served, RoomsFit
      <3> HIDE DEF m, n
      <3>2. nextPort + n <= MaxPorts + 1
        BY <1>3, <3>1
      <3> QED  BY <2>2, <3>2 DEF n
    <2>6. t < nextPort /\ \A u \in Thread : tpc'[u] # "none" => u < nextPort
      BY <1>4, <2>2 DEF RoomsFit, RTypeOK
    <2>7. \A u \in Thread : tpc'[u] \in Serving => slavefd'[u] \in Thread
      BY <1>4, <2>2 DEF RoomsFit, RTypeOK
    <2>8. mreq[1] = "CREATE" => nextPort > 1 /\ tpc'[nextPort - 1] = "none"
      <3> SUFFICES ASSUME mreq[1] = "CREATE"
                   PROVE  nextPort > 1 /\ tpc'[nextPort - 1] = "none"
        OBVIOUS
      <3>1. nextPort > 1 /\ tpc[nextPort - 1] = "none"
        BY DEF RoomsFit
      <3>2. nextPort - 1 # t
        BY <1>4, <2>2, <3>1
      <3> QED  BY <2>2, <3>1, <3>2 DEF RTypeOK
    <2>9. RoomsFit'
      BY <2>1, <2>2, <2>5, <2>6, <2>7, <2>8 DEF RoomsFit, cvars
    <2> QED  BY <1>4, <2>4, <2>9
  <1>5. ASSUME NEW from, NEW to, ThreadStep(t, from, to), from # "none"
        PROVE  /\ tpc[t] = from /\ t < nextPort
               /\ from \in Serving => slavefd[t] \in Thread
               /\ from \in Serving => Listener(slavefd[t]) \in Socket
    BY <1>5 DEF ThreadStep, RoomsFit, Socket
  <1> USE DEF UsesRooms, Serving
  <1>6. CASE Resolve(t)
    <2>1. ThreadStep(t, "start", "bind")
      BY <1>6 DEF Resolve
    <2>2. serv' \in Thread
      <3>1. nextPort - 1 \in Thread
        BY <1>3, <1>5, <2>1 DEF RTypeOK, Thread
      <3> QED  BY <1>6, <3>1 DEF Resolve
    <2>3. slavePort' \in [Thread -> Thread \cup {MasterPort}]
      BY <1>6, <2>2 DEF Resolve, RTypeOK
    <2> QED  BY <1>1, <1>2, <1>4, <1>6, <2>1, <2>2, <2>3 DEF Resolve, RTypeOK, net
  <1>7. CASE Bind(t)
    <2>1. ThreadStep(t, "bind", "listen") /\ serv \in Thread
      BY <1>7 DEF Bind, RTypeOK
    <2>2. slavefd' = [slavefd EXCEPT ![t] = serv]
      BY <1>7 DEF Bind
    <2>3. /\ slavefd' \in [Thread -> Thread \cup {MasterPort}] /\ slavefd'[t] \in Thread
          /\ \A u \in Thread \ {t} : slavefd'[u] = slavefd[u]
      BY <2>1, <2>2 DEF RTypeOK
    <2>4. UNCHANGED <<up, listening, conn, rooms, serv, slavePort, index, watch, tready, ti>>
      BY <1>7 DEF Bind, net
    <2>5. Served(conn, conn')
      BY <1>1, <2>4
    <2> QED  BY <1>2, <1>4, <2>1, <2>3, <2>4, <2>5 DEF RTypeOK
  <1>8. CASE Listen(t)
    <2>1. ThreadStep(t, "listen", "lookup") /\ slavefd[t] \in Thread
      BY <1>5, <1>8 DEF Listen
    <2>2. listening' \subseteq Thread \cup {MasterPort} /\ serv' \in Thread \cup {Freed}
      BY <1>8, <2>1 DEF Listen, RTypeOK
    <2> QED  BY <1>1, <1>2, <1>4, <1>8, <2>1, <2>2 DEF Listen, RTypeOK
  <1>9. CASE Lookup(t)
    <2> DEFINE i == getRoomByPort(slavePort[t])
    <2>1. ThreadStep(t, "lookup", "loop") /\ i # 0
      BY <1>9 DEF Lookup
    <2>2. i \in DOMAIN rooms /\ i \in Nat
      BY <1>2, <2>1, getRoomByPortIs, Elements
    <2>3. index' = [index EXCEPT ![t] = i] /\ index'[t] = i
      BY <1>9 DEF Lookup, RTypeOK
    <2>4. rooms' = [rooms EXCEPT ![i].members = Append(rooms[i].members, Listener(slavefd[t]))]
      BY <1>9, <2>3 DEF Lookup
    <2> HIDE DEF i
    <2>5. Append(rooms[i].members, Listener(slavefd[t])) \in Seq(Socket)
      <3>1. rooms[i].members \in Seq(Socket)
        <4>1. rooms[i] \in Chamber(Socket)
          BY <1>2, <2>2, Elements
        <4> QED  BY <4>1 DEF Chamber
      <3> QED  BY <1>5, <2>1, <3>1, AppendProperties
    <2>6. rooms' \in Seq(Chamber(Socket))
      BY <1>2, <2>2, <2>4, <2>5, MembersIs
    <2>7. index' \in [Thread -> Nat]
      BY <2>2, <2>3 DEF RTypeOK
    <2>8. slavefd[t] \in Thread
      BY <1>5, <2>1
    <2> QED  BY <1>1, <1>4, <1>9, <2>1, <2>6, <2>7, <2>8 DEF Lookup, RTypeOK, net
  <1>10. HasRoom(t) => Members(t) \in Seq(Socket)
    <2>1. HasRoom(t) => rooms[index[t]] \in Chamber(Socket)
      BY <1>2, Elements DEF HasRoom
    <2> QED  BY <2>1 DEF Members, Chamber
  <1>11. CASE Loop(t)
    <2>1. PICK to \in {"goodbye", "wait"} :
            /\ ThreadStep(t, "loop", to)
            /\ watch' = watch \/ watch' = [watch EXCEPT ![t] = Range(Members(t))]
      BY <1>11 DEF Loop
    <2>2. Range(Members(t)) \subseteq Socket
      <3>1. HasRoom(t)
        BY <1>11 DEF Loop
      <3> QED  BY <1>10, <3>1, Elements DEF Range
    <2>3. watch' \in [Thread -> SUBSET Socket]
      BY <2>1, <2>2 DEF RTypeOK
    <2>4. slavefd[t] \in Thread
      BY <1>5, <2>1
    <2> QED  BY <1>1, <1>2, <1>4, <1>11, <2>1, <2>3, <2>4 DEF Loop, RTypeOK, net
  <1>12. CASE Select(t)
    <2> DEFINE ready == {k \in watch[t] : Ready(k) \/ Knocked(k)}
    <2>1. PICK to \in {"accept", "scan", "loop"} :
            /\ ThreadStep(t, "wait", to)
            /\ tready' = tready \/ tready' = [tready EXCEPT ![t] = ready]
      BY <1>12 DEF Select
    <2>2. ready \subseteq Socket /\ watch' = [watch EXCEPT ![t] = {}]
      BY <1>12 DEF Select, RTypeOK
    <2> HIDE DEF ready
    <2>3. tready' \in [Thread -> SUBSET Socket] /\ watch' \in [Thread -> SUBSET Socket]
      BY <2>1, <2>2 DEF RTypeOK
    <2>4. slavefd[t] \in Thread
      BY <1>5, <2>1
    <2> QED  BY <1>1, <1>2, <1>4, <1>12, <2>1, <2>3, <2>4 DEF Select, RTypeOK, net
  <1>13. ASSUME NEW m \in Seq(Socket), HasRoom(t),
                rooms' = [rooms EXCEPT ![index[t]].members = m]
         PROVE  rooms' \in Seq(Chamber(Socket))
    BY <1>2, <1>13, MembersIs DEF HasRoom
  <1>14. CASE Accept(t)
    <2>1. PICK k \in FirstQueued(slavefd[t]) :
            /\ conn' = cwrite([conn EXCEPT ![k].srv = "open"], {k}, <<"welcome">>)
            /\ rooms' = [rooms EXCEPT ![index[t]].members = Append(Members(t), k)]
      BY <1>14 DEF Accept, Members
    <2>2. k \in DOMAIN conn /\ k \in Socket
      BY DEF FirstQueued, Socket
    <2>5. Served(conn, conn')
      BY <1>1, <2>1, <2>2, AcceptIs
    <2>6. ThreadStep(t, "accept", "loop") /\ HasRoom(t)
      BY <1>14 DEF Accept
    <2>7. rooms' \in Seq(Chamber(Socket))
      <3>1. Append(Members(t), k) \in Seq(Socket)
        BY <1>10, <2>2, <2>6, AppendProperties
      <3> QED  BY <1>13, <2>1, <2>6, <3>1
    <2>8. slavefd[t] \in Thread
      BY <1>5, <2>6
    <2> QED  BY <1>4, <1>14, <2>5, <2>6, <2>7, <2>8 DEF Accept, RTypeOK
  <1>15. CASE Scan(t)
    <2> DEFINE i == Min(Pending(t))
               k == Members(t)[i]
    <2>1. ThreadStep(t, "scan", "scan") /\ HasRoom(t)
      BY <1>15 DEF Scan
    <2>2. i \in DOMAIN Members(t) /\ i \in Nat
      <3>1. Pending(t) \subseteq DOMAIN Members(t) /\ Pending(t) # {}
        BY <1>15 DEF Scan, Pending
      <3>2. DOMAIN Members(t) \subseteq Nat
        BY <1>10, <2>1, Elements
      <3> QED  BY <3>1, <3>2, MinIs
    <2>3. k \in Socket
      BY <1>10, <2>1, <2>2, Elements
    <2>4. PICK r \in Reads(k) :
            \/ /\ r.msg = Empty /\ Close(conn, {k})
               /\ rooms' = [rooms EXCEPT ![index[t]].members = RemoveAt(Members(t), i)]
            \/ /\ r.msg # Empty
               /\ conn' = Forward(t, k, [conn EXCEPT ![k].requests = r.rest])
               /\ UNCHANGED <<listening, rooms>>
      BY <1>15 DEF Scan, Members
    <2> HIDE DEF i, k
    <2>5. ASSUME r.msg = Empty, Close(conn, {k}),
                 rooms' = [rooms EXCEPT ![index[t]].members = RemoveAt(Members(t), i)]
          PROVE  /\ Served(conn, conn') /\ listening' \subseteq Thread \cup {MasterPort}
                 /\ rooms' \in Seq(Chamber(Socket))
      <3>1. RemoveAt(Members(t), i) \in Seq(Socket)
        BY <1>10, <2>1, <2>2, RemoveAtIs
      <3>2. rooms' \in Seq(Chamber(Socket))
        BY <1>13, <2>1, <2>5, <3>1
      <3>3. Served(conn, conn') /\ listening' \subseteq Thread \cup {MasterPort}
        BY <1>1, <2>5, CloseIs DEF RTypeOK
      <3> QED  BY <3>2, <3>3
    <2>6. ASSUME r.msg # Empty,
                 conn' = Forward(t, k, [conn EXCEPT ![k].requests = r.rest]),
                 UNCHANGED <<listening, rooms>>
          PROVE  /\ Served(conn, conn') /\ listening' \subseteq Thread \cup {MasterPort}
                 /\ rooms' \in Seq(Chamber(Socket))
      <3>1. k \in DOMAIN conn /\ r \in cread(conn[k].requests, ~conn[k].here)
        BY <2>6 DEF Reads
      <3> DEFINE ds == [conn EXCEPT ![k].requests = r.rest]
      <3>a. ds = [conn EXCEPT ![k].requests = r.rest]
        OBVIOUS
      <3> HIDE DEF ds
      <3>2. Served(conn, ds) /\ ds \in Seq(Connection)
        <4>1. Served(conn, ds)
          BY <1>1, <3>1, <3>a, ReadServes
        <4> QED  BY <4>1 DEF Served
      <3>3. <<"talk", k>> \in Replies
        <4>1. k \in Nat
          BY <1>1, <3>1, Elements
        <4> QED  BY <4>1 DEF Replies
      <3>4. Served(ds, conn')
        BY <2>6, <3>2, <3>3, <3>a, cwriteServes DEF Forward
      <3>5. Served(conn, conn')
        BY <1>1, <3>2, <3>4, ServedTrans
      <3> QED  BY <1>2, <2>6, <3>5 DEF RTypeOK
    <2>7. /\ Served(conn, conn') /\ listening' \subseteq Thread \cup {MasterPort}
          /\ rooms' \in Seq(Chamber(Socket))
      BY <2>4, <2>5, <2>6
    <2>8. ti' \in [Thread -> Nat]
      <3>1. ti' = [ti EXCEPT ![t] = i + 1]
        BY <1>15 DEF Scan, i
      <3> QED  BY <2>2, <3>1 DEF RTypeOK
    <2>9. slavefd[t] \in Thread
      BY <1>5, <2>1
    <2> QED  BY <1>4, <1>15, <2>1, <2>7, <2>8, <2>9 DEF Scan, RTypeOK
  <1>16. CASE Scanned(t)
    <2>1. ThreadStep(t, "scan", "loop")
      BY <1>16 DEF Scanned
    <2>2. tready' \in [Thread -> SUBSET Socket] /\ ti' \in [Thread -> Nat]
      BY <1>16 DEF Scanned, RTypeOK
    <2>3. slavefd[t] \in Thread
      BY <1>5, <2>1
    <2> QED  BY <1>1, <1>2, <1>4, <1>16, <2>1, <2>2, <2>3 DEF Scanned, RTypeOK, net
  <1>17. CASE Goodbye(t)
    <2> DEFINE m == Members(t)
               told == cwrite(conn, {m[i] : i \in 2 .. Len(m)}, <<"goodbye">>)
    <2>1. /\ ThreadStep(t, "goodbye", "erase") /\ HasRoom(t)
          /\ Close(told, {m[i] : i \in {j \in DOMAIN m : j % 2 = 1}})
          /\ rooms' = [rooms EXCEPT ![index[t]].members = EverySecond(m)]
      BY <1>17 DEF Goodbye, Members
    <2>2. Served(conn, told) /\ told \in Seq(Connection)
      <3>1. <<"goodbye">> \in Replies
        BY DEF Replies
      <3>2. Served(conn, told)
        BY <1>1, <3>1, cwriteServes
      <3> QED  BY <3>2 DEF Served
    <2> HIDE DEF told
    <2>3. Served(told, conn') /\ listening' \subseteq Thread \cup {MasterPort}
      BY <2>1, <2>2, CloseIs DEF RTypeOK
    <2>4. Served(conn, conn')
      BY <1>1, <2>2, <2>3, ServedTrans
    <2>5. rooms' \in Seq(Chamber(Socket))
      <3>1. EverySecond(m) \in Seq(Socket)
        BY <1>10, <2>1, EverySecondIs
      <3> QED  BY <1>13, <2>1, <3>1
    <2>6. slavefd[t] \in Thread
      BY <1>5, <2>1
    <2> QED  BY <1>4, <1>17, <2>1, <2>3, <2>4, <2>5, <2>6 DEF Goodbye, RTypeOK
  <1>18. CASE Erase(t)
    <2> DEFINE n == getRoomByName(rooms[index[t]].name)
    <2>1. /\ ThreadStep(t, "erase", "done") /\ HasRoom(t)
          /\ rooms' = RemoveAt(rooms, n)
      BY <1>18 DEF Erase
    <2>2. n \in DOMAIN rooms
      BY <1>2, <2>1, getRoomByNameIs DEF HasRoom
    <2> HIDE DEF n
    <2>3. rooms' \in Seq(Chamber(Socket))
      BY <1>2, <2>1, <2>2, RemoveAtIs
    <2> QED  BY <1>1, <1>4, <1>18, <2>1, <2>3 DEF Erase, RTypeOK, net
  <1> QED  BY <1>6, <1>7, <1>8, <1>9, <1>11, <1>12, <1>14, <1>15, <1>16, <1>17, <1>18
           DEF create_slave_room

LEMMA FitStep == FitInv /\ [RNext]_rvars => FitInv'
  <1> SUFFICES ASSUME FitInv, [RNext]_rvars PROVE FitInv'
    OBVIOUS
  <1>1. CASE ClientStep
    BY <1>1, ClientFits
  <1>2. CASE ServerStep
    <2>1. CASE Die
      BY <1>2, <2>1, SocketsStay
         DEF FitInv, RTypeOK, RoomsFit, Die, ServerStep, svars, master, threads, cvars
    <2>2. CASE MainThread /\ ~Die
      <3>1. up' = up
        BY <2>2 DEF MainThread, process_request, MasterAccept, MasterSelect, MasterRead,
                    MasterScanned, net, Create, Join, Delete, Refuse, Disconnect, Act
      <3> QED  BY <1>2, <2>2, <3>1, MasterFits DEF ServerStep
    <2>3. CASE \E t \in Thread : create_slave_room(t)
      BY <1>2, <2>3, ThreadFits DEF ServerStep
    <2> QED  BY <1>2, <2>1, <2>2, <2>3 DEF ServerStep, SNext, RoomThread
  <1>3. CASE UNCHANGED rvars
    BY <1>3, SocketsStay
       DEF FitInv, RTypeOK, RoomsFit, rvars, net, svars, master, threads, cvars
  <1> QED  BY <1>1, <1>2, <1>3 DEF RNext

(* The variables have their types, whatever rooms there are: what is in a  *)
(* list is a socket that was made, and every port was given out, also when *)
(* threads use rooms that are not their own.                               *)
THEOREM RoomTypes == RSpec => []RTypeOK
  <1>1. RInit => FitInv
    BY FitInit
  <1>2. FitInv /\ [RNext]_rvars => FitInv'
    BY FitStep
  <1>3. FitInv => RTypeOK
    BY DEF FitInv
  <1> QED  BY <1>1, <1>2, <1>3, PTL DEF RSpec

-----------------------------------------------------------------------------
(* Where the sockets are.                                                  *)

In(rs, k) == \E i \in DOMAIN rs : \E j \in DOMAIN rs[i].members : rs[i].members[j] = k
Once(rs) ==
  \A i, n \in DOMAIN rs : \A j \in DOMAIN rs[i].members : \A m \in DOMAIN rs[n].members :
    rs[i].members[j] = rs[n].members[m] => i = n /\ j = m

(* Nothing but k is added; nothing is added, and what is in ks is gone.    *)
Added(rs, k, qs) == Once(qs) /\ \A x : In(qs, x) => In(rs, x) \/ x = k
Fewer(rs, ks, qs) == Once(qs) /\ \A x : In(qs, x) => In(rs, x) /\ x \notin ks

(* A room keeps some of its members, those at the positions g.             *)
Picks(old, m, g) ==
  /\ g \in [DOMAIN m -> DOMAIN old]
  /\ \A j, l \in DOMAIN m : g[j] = g[l] => j = l
  /\ \A j \in DOMAIN m : m[j] = old[g[j]]
OnlyAt(rs, i, m, qs) ==
  /\ DOMAIN qs = DOMAIN rs /\ qs[i].members = m
  /\ \A n \in DOMAIN rs \ {i} : qs[n].members = rs[n].members

OnlyPicked(rs, i, m, g, qs) ==
  /\ Once(qs)
  /\ \A x : In(qs, x) => In(rs, x)
  /\ \A l \in DOMAIN rs[i].members :
       (\A j \in DOMAIN m : g[j] # l) => ~In(qs, rs[i].members[l])

LEMMA FewerMembers ==
  ASSUME NEW rs, NEW i \in DOMAIN rs, Once(rs), NEW m, NEW g,
         Picks(rs[i].members, m, g), NEW qs, OnlyAt(rs, i, m, qs)
  PROVE  OnlyPicked(rs, i, m, g, qs)
  <1> USE DEF Picks, OnlyAt
  <1>1. ASSUME NEW n \in DOMAIN qs, NEW j \in DOMAIN qs[n].members
        PROVE  \E l \in DOMAIN rs[n].members :
                 /\ qs[n].members[j] = rs[n].members[l]
                 /\ IF n = i THEN j \in DOMAIN m /\ l = g[j] ELSE l = j
    <2>1. CASE n = i
      BY <2>1
    <2>2. CASE n # i
      BY <2>2
    <2> QED  BY <2>1, <2>2
  <1>2. ASSUME NEW n \in DOMAIN qs, NEW o \in DOMAIN qs,
               NEW j \in DOMAIN qs[n].members, NEW k \in DOMAIN qs[o].members,
               qs[n].members[j] = qs[o].members[k]
        PROVE  n = o /\ j = k
    <2>1. PICK l \in DOMAIN rs[n].members :
            /\ qs[n].members[j] = rs[n].members[l]
            /\ IF n = i THEN j \in DOMAIN m /\ l = g[j] ELSE l = j
      BY <1>1
    <2>2. PICK q \in DOMAIN rs[o].members :
            /\ qs[o].members[k] = rs[o].members[q]
            /\ IF o = i THEN k \in DOMAIN m /\ q = g[k] ELSE q = k
      BY <1>1
    <2>a. rs[n].members[l] = rs[o].members[q] /\ n \in DOMAIN rs /\ o \in DOMAIN rs
      BY <1>2, <2>1, <2>2
    <2>3. n = o /\ l = q
      BY <2>a DEF Once
    <2> QED  BY <2>1, <2>2, <2>3
  <1>3. ASSUME NEW x, In(qs, x) PROVE In(rs, x)
    BY <1>1, <1>3 DEF In
  <1>4. ASSUME NEW l \in DOMAIN rs[i].members, \A j \in DOMAIN m : g[j] # l,
               In(qs, rs[i].members[l])
        PROVE  FALSE
    <2>1. PICK n \in DOMAIN qs : \E j \in DOMAIN qs[n].members :
            qs[n].members[j] = rs[i].members[l]
      BY <1>4 DEF In
    <2>2. PICK j \in DOMAIN qs[n].members : qs[n].members[j] = rs[i].members[l]
      BY <2>1
    <2>3. PICK q \in DOMAIN rs[n].members :
            /\ qs[n].members[j] = rs[n].members[q]
            /\ IF n = i THEN j \in DOMAIN m /\ q = g[j] ELSE q = j
      BY <1>1
    <2>a. rs[n].members[q] = rs[i].members[l] /\ n \in DOMAIN rs
      BY <2>2, <2>3
    <2>4. n = i /\ q = l
      BY <1>4, <2>a DEF Once
    <2> QED  BY <1>4, <2>3, <2>4
  <1> QED  BY <1>2, <1>3, <1>4 DEF Once, OnlyPicked

(* The member at n is removed.                                             *)
LEMMA MemberRemoved ==
  ASSUME NEW S, NEW rs \in Seq(Chamber(S)), NEW i \in DOMAIN rs, Once(rs),
         NEW n \in DOMAIN rs[i].members,
         NEW m, m = RemoveAt(rs[i].members, n), NEW qs, qs = [rs EXCEPT ![i].members = m]
  PROVE  Fewer(rs, {rs[i].members[n]}, qs)
  <1> DEFINE old == rs[i].members
             g == [j \in DOMAIN m |-> Behind(j, n)]
  <1>1. old \in Seq(S)
    <2>1. rs[i] \in Chamber(S)
      BY Elements
    <2> QED  BY <2>1 DEF Chamber
  <1>2. DOMAIN old = 1 .. Len(old) /\ Len(old) \in Nat
    BY <1>1, Elements
  <1>3. /\ m \in Seq(S) /\ DOMAIN m = 1 .. Len(old) - 1
        /\ \A j \in DOMAIN m : Behind(j, n) \in DOMAIN old /\ m[j] = old[Behind(j, n)]
    <2> HIDE DEF old
    <2> QED  BY <1>1, RemoveAtIs DEF old
  <1>4. g \in [DOMAIN m -> DOMAIN old] /\ \A j \in DOMAIN m : g[j] = Behind(j, n)
    BY <1>3
  <1>5. /\ \A j, l \in DOMAIN m : g[j] = g[l] => j = l
        /\ \A j \in DOMAIN m : g[j] # n /\ m[j] = old[g[j]]
    <2>1. n \in Int /\ \A j \in DOMAIN m : j \in Int
      BY <1>2, <1>3
    <2>2. \A j \in Int : Behind(j, n) # n
      BY <2>1 DEF Behind
    <2>3. \A j, l \in Int : Behind(j, n) = Behind(l, n) => j = l
      BY <2>1 DEF Behind
    <2> QED  BY <1>3, <1>4, <2>1, <2>2, <2>3
  <1> HIDE DEF g
  <1>b. m \in Seq(S)
    BY <1>3
  <1>c. /\ DOMAIN qs = DOMAIN rs
        /\ \A l \in DOMAIN rs : qs[l].members = IF l = i THEN m ELSE rs[l].members
    BY <1>b, MembersIs
  <1>6. OnlyAt(rs, i, m, qs) /\ Picks(rs[i].members, m, g)
    BY <1>4, <1>5, <1>c DEF OnlyAt, Picks
  <1>d. OnlyPicked(rs, i, m, g, qs)
    BY <1>6, FewerMembers
  <1>7. /\ Once(qs)
        /\ \A x : In(qs, x) => In(rs, x)
        /\ \A l \in DOMAIN old : (\A j \in DOMAIN m : g[j] # l) => ~In(qs, old[l])
    BY <1>d DEF OnlyPicked
  <1>8. ~In(qs, old[n])
    BY <1>5, <1>7
  <1>9. \A x \in {old[n]} : ~In(qs, x)
    BY <1>8
  <1> QED  BY <1>7, <1>9 DEF Fewer

(* Every second member stays, and none of the others.                      *)
Odd(m) == {m[i] : i \in {j \in DOMAIN m : j % 2 = 1}}

LEMMA MembersHalved ==
  ASSUME NEW S, NEW rs \in Seq(Chamber(S)), NEW i \in DOMAIN rs, Once(rs),
         NEW m, m = EverySecond(rs[i].members), NEW qs, qs = [rs EXCEPT ![i].members = m]
  PROVE  Fewer(rs, Odd(rs[i].members), qs)
  <1> DEFINE old == rs[i].members
             g == [j \in DOMAIN m |-> 2 * j]
  <1>1. old \in Seq(S)
    <2>1. rs[i] \in Chamber(S)
      BY Elements
    <2> QED  BY <2>1 DEF Chamber
  <1>3. /\ m \in Seq(S)
        /\ \A j \in DOMAIN m : j \in Nat /\ 2 * j \in DOMAIN old /\ m[j] = old[2 * j]
    BY <1>1, EverySecondIs
  <1>4. g \in [DOMAIN m -> DOMAIN old] /\ \A j \in DOMAIN m : g[j] = 2 * j
    BY <1>3
  <1>5. /\ \A j, l \in DOMAIN m : g[j] = g[l] => j = l
        /\ \A j \in DOMAIN m : g[j] % 2 # 1 /\ m[j] = old[g[j]]
    BY <1>3, <1>4
  <1> HIDE DEF g
  <1>b. m \in Seq(S)
    BY <1>3
  <1>c. /\ DOMAIN qs = DOMAIN rs
        /\ \A l \in DOMAIN rs : qs[l].members = IF l = i THEN m ELSE rs[l].members
    BY <1>b, MembersIs
  <1>6. OnlyAt(rs, i, m, qs) /\ Picks(rs[i].members, m, g)
    BY <1>4, <1>5, <1>c DEF OnlyAt, Picks
  <1>d. OnlyPicked(rs, i, m, g, qs)
    BY <1>6, FewerMembers
  <1>7. /\ Once(qs)
        /\ \A x : In(qs, x) => In(rs, x)
        /\ \A l \in DOMAIN old : (\A j \in DOMAIN m : g[j] # l) => ~In(qs, old[l])
    BY <1>d DEF OnlyPicked
  <1>8. ASSUME NEW l \in DOMAIN old, l % 2 = 1 PROVE ~In(qs, old[l])
    <2>1. \A j \in DOMAIN m : g[j] # l
      BY <1>5, <1>8
    <2> QED  BY <1>7, <2>1
  <1>9. \A x \in Odd(old) : ~In(qs, x)
    BY <1>8 DEF Odd
  <1> QED  BY <1>7, <1>9 DEF Fewer

(* A socket that is in no room is put into one.                            *)
LEMMA MemberAdded ==
  ASSUME NEW S, NEW rs \in Seq(Chamber(S)), NEW i \in DOMAIN rs, Once(rs),
         NEW k \in S, ~In(rs, k),
         NEW m, m = Append(rs[i].members, k), NEW qs, qs = [rs EXCEPT ![i].members = m]
  PROVE  Added(rs, k, qs)
  <1> DEFINE old == rs[i].members
  <1>1. old \in Seq(S)
    <2>1. rs[i] \in Chamber(S)
      BY Elements
    <2> QED  BY <2>1 DEF Chamber
  <1>2. DOMAIN old = 1 .. Len(old) /\ Len(old) \in Nat
    BY <1>1, Elements
  <1>3. /\ m \in Seq(S) /\ Len(m) = Len(old) + 1
        /\ \A j \in 1 .. Len(old) : m[j] = old[j]
        /\ m[Len(old) + 1] = k
    BY <1>1, AppendProperties
  <1>4. DOMAIN m = 1 .. Len(old) + 1
    BY <1>3, Elements
  <1>5. \A j \in DOMAIN m : \/ j \in DOMAIN old /\ m[j] = old[j]
                            \/ j = Len(old) + 1 /\ m[j] = k
    BY <1>2, <1>3, <1>4
  <1>6. /\ DOMAIN qs = DOMAIN rs /\ qs[i].members = m
        /\ \A l \in DOMAIN rs \ {i} : qs[l].members = rs[l].members
    <2>1. m \in Seq(S)
      BY <1>3
    <2>2. /\ DOMAIN qs = DOMAIN rs
          /\ \A l \in DOMAIN rs : qs[l].members = IF l = i THEN m ELSE rs[l].members
      BY <2>1, MembersIs
    <2> QED  BY <2>2
  <1>7. ASSUME NEW n \in DOMAIN qs, NEW j \in DOMAIN qs[n].members
        PROVE  \/ j \in DOMAIN rs[n].members /\ qs[n].members[j] = rs[n].members[j]
               \/ n = i /\ j = Len(old) + 1 /\ qs[n].members[j] = k
    <2>1. CASE n = i
      BY <1>5, <1>6, <2>1
    <2>2. CASE n # i
      BY <1>6, <2>2
    <2> QED  BY <2>1, <2>2
  <1> HIDE DEF old
  <1>8. ASSUME NEW n \in DOMAIN qs, NEW o \in DOMAIN qs,
               NEW j \in DOMAIN qs[n].members, NEW l \in DOMAIN qs[o].members,
               qs[n].members[j] = qs[o].members[l]
        PROVE  n = o /\ j = l
    <2>1. CASE j \in DOMAIN rs[n].members /\ qs[n].members[j] = rs[n].members[j]
      <3>1. qs[n].members[j] # k
        BY <1>6, <2>1 DEF In
      <3>2. l \in DOMAIN rs[o].members /\ qs[o].members[l] = rs[o].members[l]
        BY <1>7, <1>8, <3>1
      <3> QED  BY <1>6, <1>8, <2>1, <3>2 DEF Once
    <2>2. CASE n = i /\ j = Len(old) + 1 /\ qs[n].members[j] = k
      <3>1. ~(l \in DOMAIN rs[o].members /\ qs[o].members[l] = rs[o].members[l])
        BY <1>6, <1>8, <2>2 DEF In
      <3>2. o = i /\ l = Len(old) + 1
        BY <1>7, <3>1
      <3> QED  BY <2>2, <3>2
    <2> QED  BY <1>7, <2>1, <2>2
  <1>9. ASSUME NEW x, In(qs, x) PROVE In(rs, x) \/ x = k
    <2>1. PICK n \in DOMAIN qs : \E j \in DOMAIN qs[n].members : qs[n].members[j] = x
      BY <1>9 DEF In
    <2>2. PICK j \in DOMAIN qs[n].members : qs[n].members[j] = x
      BY <2>1
    <2> QED  BY <1>6, <1>7, <2>2 DEF In
  <1> QED  BY <1>8, <1>9 DEF Once, Added

(* A room is removed, is added without members, or keeps its members.      *)
LEMMA RoomRemoved ==
  ASSUME NEW S, NEW rs \in Seq(S), NEW n \in DOMAIN rs, Once(rs)
  PROVE  Fewer(rs, {}, RemoveAt(rs, n))
  <1> DEFINE qs == RemoveAt(rs, n)
  <1>1. /\ qs \in Seq(S) /\ DOMAIN qs = 1 .. Len(rs) - 1
        /\ \A j \in DOMAIN qs : Behind(j, n) \in DOMAIN rs /\ qs[j] = rs[Behind(j, n)]
    BY RemoveAtIs
  <1>2. DOMAIN rs = 1 .. Len(rs) /\ Len(rs) \in Nat
    BY Elements
  <1> HIDE DEF qs
  <1>3. \A j, l \in DOMAIN qs : Behind(j, n) = Behind(l, n) => j = l
    BY <1>1, <1>2 DEF Behind
  <1>4. Once(qs)
    BY <1>1, <1>3 DEF Once
  <1>5. \A x : In(qs, x) => In(rs, x)
    BY <1>1 DEF In
  <1> QED  BY <1>4, <1>5 DEF qs, Fewer

LEMMA RoomsSame ==
  ASSUME NEW rs, Once(rs), NEW qs,
         \A n \in DOMAIN qs : \/ n \in DOMAIN rs /\ qs[n].members = rs[n].members
                              \/ DOMAIN qs[n].members = {}
  PROVE  Fewer(rs, {}, qs)
  <1>1. Once(qs)
    BY DEF Once
  <1>2. \A x : In(qs, x) => In(rs, x)
    BY DEF In
  <1> QED  BY <1>1, <1>2 DEF Fewer

-----------------------------------------------------------------------------
(* The lists of sockets, of any rooms.                                     *)

(* The main room.                                                          *)
MainList ==
  /\ \A i, j \in DOMAIN fds : fds[i] = fds[j] => i = j
  /\ \A i \in DOMAIN fds :
       conn[fds[i]].port = MasterPort /\ conn[fds[i]].srv = "open"

(* A socket in a room is open, and a listening one that a thread is about  *)
(* to put there is in no room yet.                                         *)
RoomLists ==
  /\ Once(rooms)
  /\ \A k \in DOMAIN conn :
       In(rooms, k) => conn[k].port # MasterPort /\ conn[k].srv = "open"
  /\ \A p \in Thread : In(rooms, Listener(p)) => p \in listening
  /\ \A t \in Thread : tpc[t] = "lookup" =>
       slavefd[t] \in listening /\ ~In(rooms, Listener(slavefd[t]))
  /\ \A t, u \in Thread :
       tpc[t] = "lookup" /\ tpc[u] = "lookup" /\ slavefd[t] = slavefd[u] => t = u

ListsInv == FitInv /\ MainList /\ RoomLists

(* Who looks for a room has not changed, or there are fewer.               *)
LookupsStay ==
  \A t \in Thread : tpc'[t] = "lookup" => tpc[t] = "lookup" /\ slavefd'[t] = slavefd[t]

LEMMA MainSame ==
  ASSUME RTypeOK, MainList, Alike(conn, conn'), fds' = fds
  PROVE  MainList'
  <1>1. \A i \in DOMAIN fds : fds[i] \in DOMAIN conn
    BY Elements DEF RTypeOK
  <1> QED  BY <1>1 DEF MainList, Alike

LEMMA RoomsFewer ==
  ASSUME RoomLists, Alike(conn, conn'), listening' = listening,
         Fewer(rooms, {}, rooms'), LookupsStay
  PROVE  RoomLists'
  BY DEF RoomLists, Alike, LookupsStay, Fewer

LEMMA ListsClose ==
  ASSUME RTypeOK, MainList, RoomLists, NEW cs \in Seq(Connection), Alike(conn, cs),
         NEW ks, \A x \in ks : In(rooms, x), Close(cs, ks),
         Fewer(rooms, ks, rooms'), fds' = fds, LookupsStay
  PROVE  MainList' /\ RoomLists'
  <1> USE DEF Fewer
  <1>1. /\ \A p \in listening : p \in listening' <=> Listener(p) \notin ks
        /\ \A k \in DOMAIN cs :
             \/ conn'[k].srv = cs[k].srv /\ k \notin ks
             \/ conn'[k].srv = "closed" /\ (k \in ks \/ cs[k].srv = "queued")
    BY CloseIs
  <1>2. DOMAIN conn' = DOMAIN cs /\ \A k \in DOMAIN cs : conn'[k].port = cs[k].port
    <2>1. Served(cs, conn')
      BY CloseIs
    <2> QED  BY <2>1 DEF Served
  <1>3. DOMAIN cs = DOMAIN conn
          /\ \A k \in DOMAIN conn : cs[k].port = conn[k].port /\ cs[k].srv = conn[k].srv
    BY DEF Alike
  <1>4. \A k \in DOMAIN conn :
          conn[k].srv = "open" /\ k \notin ks => conn'[k].srv = "open"
    BY <1>1, <1>3
  <1>5. \A k \in DOMAIN conn : k \in ks => conn[k].port # MasterPort
    BY DEF RoomLists
  <1>6. MainList'
    <2>1. \A i \in DOMAIN fds : fds[i] \in DOMAIN conn
      BY Elements DEF RTypeOK
    <2> QED  BY <1>2, <1>3, <1>4, <1>5, <2>1 DEF MainList
  <1>7. \A k \in DOMAIN conn' :
          In(rooms', k) => conn'[k].port # MasterPort /\ conn'[k].srv = "open"
    BY <1>2, <1>3, <1>4 DEF RoomLists
  <1>8. \A p \in Thread : In(rooms', Listener(p)) => p \in listening'
    BY <1>1 DEF RoomLists
  <1>9. ASSUME NEW t \in Thread, tpc'[t] = "lookup"
        PROVE  slavefd'[t] \in listening' /\ ~In(rooms', Listener(slavefd'[t]))
    <2>1. /\ slavefd'[t] = slavefd[t] /\ slavefd[t] \in listening
          /\ ~In(rooms, Listener(slavefd[t]))
      BY <1>9 DEF LookupsStay, RoomLists
    <2>2. Listener(slavefd[t]) \notin ks
      BY <2>1
    <2> QED  BY <1>1, <2>1, <2>2
  <1>10. \A t, u \in Thread :
           tpc'[t] = "lookup" /\ tpc'[u] = "lookup" /\ slavefd'[t] = slavefd'[u] => t = u
    BY DEF LookupsStay, RoomLists
  <1> QED  BY <1>6, <1>7, <1>8, <1>9, <1>10 DEF RoomLists

LEMMA ListsInit == RInit => ListsInv
  <1> SUFFICES ASSUME RInit PROVE ListsInv
    OBVIOUS
  <1>1. fds = <<>> /\ rooms = <<>> /\ \A t \in Thread : tpc[t] = "none"
    BY DEF RInit, SInit
  <1>2. DOMAIN fds = {} /\ DOMAIN rooms = {}
    BY <1>1
  <1>3. MainList /\ RoomLists
    BY <1>1, <1>2 DEF MainList, RoomLists, Once, In
  <1> QED  BY <1>3, FitInit DEF ListsInv

LEMMA InIsSocket ==
  ASSUME RTypeOK, NEW k, In(rooms, k)
  PROVE  k \in Socket
  <1>1. PICK i \in DOMAIN rooms : \E j \in DOMAIN rooms[i].members : rooms[i].members[j] = k
    BY DEF In
  <1>2. PICK j \in DOMAIN rooms[i].members : rooms[i].members[j] = k
    BY <1>1
  <1>3. rooms[i] \in Chamber(Socket)
    BY Elements DEF RTypeOK
  <1>4. rooms[i].members \in Seq(Socket)
    BY <1>3 DEF Chamber
  <1> QED  BY <1>2, <1>4, Elements

LEMMA ListsClient ==
  ASSUME ListsInv, ClientStep
  PROVE  MainList' /\ RoomLists'
  <1>1. RTypeOK /\ MainList /\ RoomLists
    BY DEF ListsInv, FitInv
  <1>2. Kept(conn, conn')
    BY ClientFits DEF ListsInv
  <1>3. UNCHANGED <<listening, fds, rooms, tpc, slavefd>>
    <2>1. UNCHANGED svars /\ CNext
      BY DEF ClientStep
    <2>2. listening' = listening
      BY <2>1 DEF CNext, ClientLoop, UserAction, Start, Rejoin, GoToRoom, ConnectFails, Show,
                  Welcome, Type, Quit, At
    <2> QED  BY <2>1, <2>2 DEF svars, threads
  <1>4. /\ DOMAIN conn \subseteq DOMAIN conn'
        /\ \A k \in DOMAIN conn : conn'[k].port = conn[k].port /\ conn'[k].srv = conn[k].srv
    BY <1>2 DEF Kept, SameSide
  <1>5. \A i \in DOMAIN fds : fds[i] \in DOMAIN conn
    BY <1>1, Elements DEF RTypeOK
  <1>6. MainList'
    BY <1>1, <1>3, <1>4, <1>5 DEF MainList
  <1>7. ASSUME NEW k \in DOMAIN conn', In(rooms, k) PROVE k \in DOMAIN conn
    <2>5. k \in Socket
      BY <1>1, <1>7, InIsSocket
    <2>6. k \in Nat
      <3>1. conn' \in Seq(Connection)
        BY <1>2 DEF Kept
      <3> QED  BY <3>1, Elements
    <2>7. \A p \in Thread : Listener(p) \notin Nat
      BY DEF Thread, Listener
    <2> QED  BY <2>5, <2>6, <2>7 DEF Socket
  <1>8. RoomLists'
    BY <1>1, <1>3, <1>4, <1>7 DEF RoomLists
  <1> QED  BY <1>6, <1>8

(* A step of the main thread.                                              *)
LEMMA ListsMain ==
  ASSUME ListsInv, MainThread, up' = up, UNCHANGED cvars
  PROVE  MainList' /\ RoomLists'
  <1>1. FitInv /\ RTypeOK /\ MainList /\ RoomLists
    BY DEF ListsInv, FitInv
  <1>2. conn \in Seq(Connection) /\ fds \in Seq(DOMAIN conn) /\ rooms \in Seq(Chamber(Socket))
    BY <1>1 DEF RTypeOK
  <1>3. DOMAIN fds = 1 .. Len(fds) /\ Len(fds) \in Nat /\ \A i \in DOMAIN fds : fds[i] \in DOMAIN conn
    BY <1>2, Elements
  <1>4. Alike(conn, conn)
    BY DEF Alike
  <1>5. Once(rooms) /\ Fewer(rooms, {}, rooms)
    BY <1>1 DEF RoomLists, Fewer
  <1>6. CASE MasterAccept
    <2>1. PICK k \in FirstQueued(MasterPort) :
            /\ conn' = cwrite([conn EXCEPT ![k].srv = "open"], {k}, <<"welcome">>)
            /\ fds' = Append(fds, k)
      BY <1>6 DEF MasterAccept
    <2>2. k \in DOMAIN conn /\ conn[k].port = MasterPort /\ conn[k].srv = "queued"
      BY DEF FirstQueued
    <2>4. Opened(conn, k, conn')
      BY <1>2, <2>1, <2>2, AcceptIs
    <2>5. /\ DOMAIN conn' = DOMAIN conn
          /\ \A l \in DOMAIN conn :
               /\ conn'[l].port = conn[l].port
               /\ conn'[l].srv = IF l = k THEN "open" ELSE conn[l].srv
      BY <2>4 DEF Opened
    <2>6. /\ DOMAIN fds' = 1 .. Len(fds) + 1 /\ fds'[Len(fds) + 1] = k
          /\ \A i \in DOMAIN fds : fds'[i] = fds[i]
      <3>1. /\ Append(fds, k) \in Seq(DOMAIN conn) /\ Len(Append(fds, k)) = Len(fds) + 1
            /\ \A i \in 1 .. Len(fds) : Append(fds, k)[i] = fds[i]
            /\ Append(fds, k)[Len(fds) + 1] = k
        BY <1>2, <2>2, AppendProperties
      <3>2. DOMAIN Append(fds, k) = 1 .. Len(fds) + 1
        BY <3>1, Elements
      <3> QED  BY <1>3, <2>1, <3>1, <3>2
    <2>7. \A i \in DOMAIN fds' : i \in DOMAIN fds \/ i = Len(fds) + 1
      BY <1>3, <2>6
    <2>8. \A i \in DOMAIN fds : fds[i] # k
      BY <1>1, <2>2 DEF MainList
    <2>9. MainList'
      BY <1>1, <1>3, <2>2, <2>5, <2>6, <2>7, <2>8 DEF MainList
    <2>10. UNCHANGED <<listening, rooms, tpc, slavefd>>
      BY <1>6 DEF MasterAccept, threads
    <2>11. RoomLists'
      BY <1>1, <2>2, <2>5, <2>10 DEF RoomLists
    <2> QED  BY <2>9, <2>11
  <1>7. ASSUME Alike(conn, conn'), UNCHANGED <<listening, fds, rooms, tpc, slavefd>>
        PROVE  MainList' /\ RoomLists'
    BY <1>1, <1>5, <1>7, MainSame, RoomsFewer DEF LookupsStay
  <1>8. CASE MasterSelect \/ MasterScanned
    BY <1>4, <1>7, <1>8 DEF MasterSelect, MasterScanned, net, threads
  <1>9. CASE MasterRead
    <2> DEFINE i == Min(MasterPending)
               k == fds[i]
    <2>1. i \in DOMAIN fds
      <3>1. MasterPending \subseteq DOMAIN fds /\ MasterPending # {}
        BY <1>9 DEF MasterRead, MasterPending
      <3>2. MasterPending \in SUBSET Nat
        BY <1>3, <3>1
      <3> QED  BY <3>1, <3>2, MinIs
    <2>2. k \in DOMAIN conn
      BY <1>3, <2>1
    <2>3. PICK r \in cread(conn[k].requests, ~conn[k].here) :
            conn' = [conn EXCEPT ![k].requests = r.rest]
      BY <1>9 DEF MasterRead
    <2> HIDE DEF i, k
    <2>5. Alike(conn, conn')
      <3>1. conn' = [conn EXCEPT ![k].requests = r.rest]
        BY <2>3
      <3> QED  BY <1>2, <2>2, <3>1, ReadAlike
    <2> QED  BY <1>7, <1>9, <2>5 DEF MasterRead, threads
  <1>10. ASSUME NEW request, Act(request)
         PROVE  mi \in DOMAIN fds /\ fds[mi] \in DOMAIN conn /\ UNCHANGED <<listening, slavefd>>
    BY <1>1, <1>3, <1>10 DEF FitInv, RoomsFit, Act, MasterStep
  <1>11. ASSUME NEW m \in Replies, Answer(m) PROVE Alike(conn, conn')
    BY <1>2, <1>11, cwriteIs DEF Answer, Alike
  <1>12. <<"reply">> \in Replies
    BY DEF Replies
  <1>13. CASE Create
    <2>1. /\ Act("CREATE") /\ Answer(<<"reply">>) /\ fds' = fds
          /\ rooms' = Append(rooms, NewRoom(mreq[2], nextPort - 1))
          /\ tpc' = [tpc EXCEPT ![nextPort - 1] = "start"]
      BY <1>13 DEF Create
    <2>2. Alike(conn, conn') /\ UNCHANGED <<listening, slavefd>>
      BY <1>10, <1>11, <1>12, <2>1
    <2>3. mreq \in Requests /\ mreq[1] = "CREATE"
      <3>1. <<"">>[1] = "" /\ "" # "CREATE"
        OBVIOUS
      <3> QED  BY <1>1, <2>1, <3>1 DEF Act, RTypeOK, Empty
    <2>4. mreq[2] \in Room
      BY <2>3 DEF Requests
    <2>5. nextPort - 1 \in Thread
      BY <1>1, <2>3, RoomServerAssumption DEF FitInv, RoomsFit, RTypeOK, Thread
    <2>6. \A n \in DOMAIN rooms' :
            \/ n \in DOMAIN rooms /\ rooms'[n] = rooms[n]
            \/ n = Len(rooms) + 1 /\ rooms'[n] = NewRoom(mreq[2], nextPort - 1)
      BY <1>2, <2>1, <2>4, <2>5, AnotherRoomIs
    <2>7. \A n \in DOMAIN rooms' :
            \/ n \in DOMAIN rooms /\ rooms'[n].members = rooms[n].members
            \/ DOMAIN rooms'[n].members = {}
      BY <2>6 DEF NewRoom
    <2>8. Fewer(rooms, {}, rooms')
      BY <1>5, <2>7, RoomsSame
    <2>9. LookupsStay
      BY <1>1, <2>1, <2>2 DEF RTypeOK, LookupsStay
    <2> QED  BY <1>1, <2>1, <2>2, <2>8, <2>9, MainSame, RoomsFewer
  <1>14. ASSUME NEW request, Act(request), UNCHANGED <<rooms, tpc>>,
                fds' = RemoveAt(fds, mi), DOMAIN conn' = DOMAIN conn,
                \A k \in DOMAIN conn : /\ conn'[k].port = conn[k].port
                                       /\ k = fds[mi] \/ conn'[k].srv = conn[k].srv
         PROVE  MainList' /\ RoomLists'
    <2>1. mi \in DOMAIN fds /\ fds[mi] \in DOMAIN conn /\ UNCHANGED <<listening, slavefd>>
      BY <1>10, <1>14
    <2>2. \A i \in DOMAIN fds' : Behind(i, mi) \in DOMAIN fds /\ fds'[i] = fds[Behind(i, mi)]
      BY <1>2, <1>14, <2>1, RemoveAtIs
    <2>3. DOMAIN fds' \subseteq Nat
      <3>1. DOMAIN fds' = 1 .. Len(fds) - 1
        BY <1>2, <1>14, <2>1, RemoveAtIs
      <3> QED  BY <1>3, <3>1
    <2>4. /\ \A i \in DOMAIN fds' : Behind(i, mi) # mi
          /\ \A i, j \in DOMAIN fds' : Behind(i, mi) = Behind(j, mi) => i = j
      BY <1>3, <2>1, <2>3 DEF Behind
    <2>5. MainList'
      BY <1>1, <1>3, <1>14, <2>1, <2>2, <2>4 DEF MainList
    <2>6. ~In(rooms, fds[mi])
      BY <1>1, <2>1 DEF MainList, RoomLists
    <2>7. RoomLists'
      BY <1>1, <1>14, <2>1, <2>6 DEF RoomLists
    <2> QED  BY <2>5, <2>7
  <1>15. CASE Join
    <2>1. /\ Act("JOIN") /\ mfound \in DOMAIN rooms /\ UNCHANGED <<rooms, tpc>>
          /\ Answer(<<"port", rooms[mfound].port>>) /\ fds' = RemoveAt(fds, mi)
      BY <1>15 DEF Join
    <2>2. rooms[mfound] \in Chamber(Socket)
      BY <1>2, <2>1, Elements
    <2>3. <<"port", rooms[mfound].port>> \in Replies
      BY <2>2 DEF Replies, Chamber
    <2>4. Alike(conn, conn')
      BY <1>11, <2>1, <2>3
    <2> QED  BY <1>14, <2>1, <2>4 DEF Alike
  <1>16. CASE Delete
    <2>1. /\ Act("DELETE") /\ mfound \in DOMAIN rooms /\ UNCHANGED <<fds, tpc>>
          /\ Answer(<<"reply">>)
      BY <1>16 DEF Delete
    <2>2. DOMAIN rooms' = DOMAIN rooms
            /\ \A n \in DOMAIN rooms : rooms'[n].members = rooms[n].members
      BY <1>2, <1>16, CloseFlagIs DEF Delete
    <2>3. Fewer(rooms, {}, rooms')
      BY <1>5, <2>2, RoomsSame
    <2>4. Alike(conn, conn') /\ UNCHANGED <<listening, slavefd>>
      BY <1>10, <1>11, <1>12, <2>1
    <2> QED  BY <1>1, <2>1, <2>3, <2>4, MainSame, RoomsFewer DEF LookupsStay
  <1>17. CASE Refuse
    <2>1. PICK request : Act(request)
      BY <1>17 DEF Refuse
    <2>2. Answer(<<"reply">>) /\ UNCHANGED <<fds, rooms, tpc>>
      BY <1>17 DEF Refuse
    <2> QED  BY <1>7, <1>10, <1>11, <1>12, <2>1, <2>2
  <1>18. CASE Disconnect
    <2>1. /\ Act(Empty[1]) /\ UNCHANGED <<rooms, tpc>> /\ fds' = RemoveAt(fds, mi)
          /\ conn' = Closed(conn, {fds[mi]})
      BY <1>18 DEF Disconnect
    <2>2. DOMAIN conn' = DOMAIN conn
            /\ \A k \in DOMAIN conn : /\ conn'[k].port = conn[k].port
                                      /\ k = fds[mi] \/ conn'[k].srv = conn[k].srv
      BY <1>2, <2>1, ClosedIs
    <2> QED  BY <1>14, <2>1, <2>2
  <1>19. ~Die
    BY DEF Die
  <1> QED  BY <1>6, <1>8, <1>9, <1>13, <1>15, <1>16, <1>17, <1>18, <1>19
           DEF MainThread, process_request

(* A step of the thread of a room.                                         *)
LEMMA ListsThread ==
  ASSUME ListsInv, NEW t \in Thread, create_slave_room(t), UNCHANGED cvars
  PROVE  MainList' /\ RoomLists'
  <1>1. FitInv /\ RTypeOK /\ RoomsFit /\ MainList /\ RoomLists
    BY DEF ListsInv, FitInv
  <1>2. /\ conn \in Seq(Connection) /\ rooms \in Seq(Chamber(Socket))
        /\ Once(rooms) /\ Fewer(rooms, {}, rooms)
    BY <1>1 DEF RTypeOK, RoomLists, Fewer
  <1>3. Alike(conn, conn)
    BY DEF Alike
  <1>4. ASSUME NEW from, NEW to, ThreadStep(t, from, to)
        PROVE  /\ fds' = fds /\ tpc[t] = from /\ tpc'[t] = to
               /\ \A u \in Thread \ {t} : tpc'[u] = tpc[u]
    BY <1>1, <1>4 DEF ThreadStep, RTypeOK
  <1>5. ASSUME NEW from, NEW to, ThreadStep(t, from, to), to # "lookup",
               \A u \in Thread \ {t} : slavefd'[u] = slavefd[u]
        PROVE  LookupsStay
    BY <1>4, <1>5 DEF LookupsStay
  <1>6. ASSUME NEW from, NEW to, ThreadStep(t, from, to), to # "lookup",
               \A u \in Thread \ {t} : slavefd'[u] = slavefd[u],
               Alike(conn, conn'), UNCHANGED <<listening, rooms>>
        PROVE  MainList' /\ RoomLists'
    BY <1>1, <1>2, <1>4, <1>5, <1>6, MainSame, RoomsFewer
  <1>7. CASE Resolve(t)
    <2>1. ThreadStep(t, "start", "bind") /\ UNCHANGED <<listening, conn, rooms, slavefd>>
      BY <1>7 DEF Resolve, net
    <2> QED  BY <1>3, <1>6, <2>1
  <1>8. CASE Bind(t)
    <2>1. ThreadStep(t, "bind", "listen") /\ UNCHANGED <<listening, conn, rooms>>
            /\ \A u \in Thread \ {t} : slavefd'[u] = slavefd[u]
      BY <1>1, <1>8 DEF Bind, net, RTypeOK
    <2> QED  BY <1>3, <1>6, <2>1
  <1>9. CASE Loop(t)
    <2>1. PICK to \in {"goodbye", "wait"} : ThreadStep(t, "loop", to)
      BY <1>9 DEF Loop
    <2>2. UNCHANGED <<listening, conn, rooms, slavefd>>
      BY <1>9 DEF Loop, net
    <2> QED  BY <1>3, <1>6, <2>1, <2>2
  <1>10. CASE Select(t)
    <2>1. PICK to \in {"accept", "scan", "loop"} : ThreadStep(t, "wait", to)
      BY <1>10 DEF Select
    <2>2. UNCHANGED <<listening, conn, rooms, slavefd>>
      BY <1>10 DEF Select, net
    <2> QED  BY <1>3, <1>6, <2>1, <2>2
  <1>11. CASE Scanned(t)
    <2>1. ThreadStep(t, "scan", "loop") /\ UNCHANGED <<listening, conn, rooms, slavefd>>
      BY <1>11 DEF Scanned, net
    <2> QED  BY <1>3, <1>6, <2>1
  <1>12. CASE Listen(t)
    <2>1. /\ ThreadStep(t, "listen", "lookup") /\ slavefd[t] \notin listening
          /\ listening' = listening \cup {slavefd[t]}
          /\ UNCHANGED <<conn, rooms, slavefd>>
      BY <1>12 DEF Listen
    <2>2. slavefd[t] \in Thread
      BY <1>1, <1>4, <2>1 DEF RoomsFit, Serving
    <2>3. ~In(rooms, Listener(slavefd[t]))
      BY <1>1, <2>1, <2>2 DEF RoomLists
    <2>4. MainList'
      BY <1>1, <1>3, <1>4, <2>1, MainSame
    <2>5. ASSUME NEW u \in Thread, tpc'[u] = "lookup"
          PROVE  /\ slavefd[u] \in listening' /\ ~In(rooms, Listener(slavefd[u]))
                 /\ u = t \/ (tpc[u] = "lookup" /\ slavefd[u] \in listening)
      BY <1>1, <1>4, <2>1, <2>3, <2>5 DEF RoomLists
    <2>6. ASSUME NEW u \in Thread, NEW v \in Thread, tpc'[u] = "lookup", tpc'[v] = "lookup",
                 slavefd[u] = slavefd[v]
          PROVE  u = v
      BY <1>1, <2>1, <2>5, <2>6 DEF RoomLists
    <2>7. RoomLists'
      BY <1>1, <2>1, <2>5, <2>6 DEF RoomLists
    <2> QED  BY <2>4, <2>7
  <1>13. CASE Lookup(t)
    <2> DEFINE i == getRoomByPort(slavePort[t])
               m == Append(rooms[i].members, Listener(slavefd[t]))
    <2>1. /\ ThreadStep(t, "lookup", "loop") /\ i # 0
          /\ UNCHANGED <<listening, conn, slavefd>>
      BY <1>13 DEF Lookup, net
    <2>2. i \in DOMAIN rooms
      BY <1>2, <2>1, getRoomByPortIs
    <2>3. index'[t] = i
      BY <1>1, <1>13 DEF Lookup, RTypeOK
    <2>4. rooms' = [rooms EXCEPT ![i].members = m]
      BY <1>13, <2>3 DEF Lookup
    <2> HIDE DEF i
    <2>5. /\ slavefd[t] \in listening /\ ~In(rooms, Listener(slavefd[t]))
          /\ Listener(slavefd[t]) \in Socket /\ slavefd[t] \in Thread
      BY <1>1, <1>4, <2>1 DEF RoomLists, RoomsFit, Serving, UsesRooms, Socket
    <2>a. m = Append(rooms[i].members, Listener(slavefd[t]))
      OBVIOUS
    <2> HIDE DEF m
    <2>b. Added(rooms, Listener(slavefd[t]), rooms')
      BY <1>2, <2>2, <2>4, <2>5, <2>a, MemberAdded
    <2>6. Once(rooms')
            /\ \A x : In(rooms', x) => In(rooms, x) \/ x = Listener(slavefd[t])
      BY <2>b DEF Added
    <2>7. MainList'
      BY <1>1, <1>3, <1>4, <2>1, MainSame
    <2>8. ASSUME NEW u \in Thread, tpc'[u] = "lookup"
          PROVE  /\ tpc[u] = "lookup" /\ slavefd[u] \in listening
                 /\ ~In(rooms', Listener(slavefd[u]))
      <3>1. u # t /\ tpc[u] = "lookup"
        BY <1>4, <2>1, <2>8
      <3>2. /\ slavefd[u] \in listening /\ ~In(rooms, Listener(slavefd[u]))
            /\ slavefd[u] # slavefd[t] /\ slavefd[u] \in Thread
        BY <1>1, <1>4, <2>1, <3>1 DEF RoomLists, RoomsFit, Serving, UsesRooms
      <3>3. Listener(slavefd[u]) # Listener(slavefd[t])
        BY <2>5, <3>2 DEF Listener, Thread
      <3> QED  BY <2>6, <3>1, <3>2, <3>3
    <2>9. ASSUME NEW p \in Thread, In(rooms', Listener(p)) PROVE p \in listening
      <3>1. Listener(p) = Listener(slavefd[t]) => p = slavefd[t]
        BY <2>5 DEF Listener, Thread
      <3> QED  BY <1>1, <2>5, <2>6, <2>9, <3>1 DEF RoomLists
    <2>10. ASSUME NEW k \in DOMAIN conn, In(rooms', k) PROVE In(rooms, k)
      <3>1. k \in Nat
        BY <1>2, Elements
      <3>2. Listener(slavefd[t]) \notin Nat
        BY <2>5 DEF Listener, Thread
      <3> QED  BY <2>6, <2>10, <3>1, <3>2
    <2>11. RoomLists'
      BY <1>1, <2>1, <2>6, <2>8, <2>9, <2>10 DEF RoomLists
    <2> QED  BY <2>7, <2>11
  <1>14. CASE Accept(t)
    <2>1. PICK k \in FirstQueued(slavefd[t]) :
            /\ conn' = cwrite([conn EXCEPT ![k].srv = "open"], {k}, <<"welcome">>)
            /\ rooms' = [rooms EXCEPT ![index[t]].members = Append(rooms[index[t]].members, k)]
      BY <1>14 DEF Accept
    <2>2. /\ ThreadStep(t, "accept", "loop") /\ index[t] \in DOMAIN rooms
          /\ UNCHANGED <<listening, slavefd>>
      BY <1>14 DEF Accept, HasRoom
    <2>3. slavefd[t] \in Thread
      BY <1>1, <1>4, <2>2 DEF RoomsFit, Serving, UsesRooms
    <2>4. /\ k \in DOMAIN conn /\ conn[k].port # MasterPort /\ conn[k].srv = "queued"
          /\ k \in Socket
      BY <2>3 DEF FirstQueued, Socket, Thread, MasterPort
    <2>5. Opened(conn, k, conn')
      BY <1>2, <2>1, <2>4, AcceptIs
    <2>7. /\ DOMAIN conn' = DOMAIN conn
          /\ \A l \in DOMAIN conn :
               /\ conn'[l].port = conn[l].port
               /\ conn'[l].srv = IF l = k THEN "open" ELSE conn[l].srv
      BY <2>5 DEF Opened
    <2>8. ~In(rooms, k)
      BY <1>1, <2>4 DEF RoomLists
    <2> DEFINE m == Append(rooms[index[t]].members, k)
    <2>b. rooms' = [rooms EXCEPT ![index[t]].members = m] /\ m = Append(rooms[index[t]].members, k)
      BY <2>1
    <2> HIDE DEF m
    <2>c. Added(rooms, k, rooms')
      BY <1>2, <2>2, <2>4, <2>8, <2>b, MemberAdded
    <2>9. Once(rooms') /\ \A x : In(rooms', x) => In(rooms, x) \/ x = k
      BY <2>c DEF Added
    <2>10. MainList'
      <3>1. \A i \in DOMAIN fds : fds[i] \in DOMAIN conn
        BY <1>1, Elements DEF RTypeOK
      <3> QED  BY <1>1, <1>4, <2>2, <2>7, <3>1 DEF MainList
    <2>11. LookupsStay
      BY <1>5, <2>2
    <2>12. \A p \in Thread : In(rooms', Listener(p)) => In(rooms, Listener(p))
      <3>1. k \in Nat /\ \A p \in Thread : Listener(p) \notin Nat
        BY <1>2, <2>4, Elements DEF Listener, Thread
      <3> QED  BY <2>9, <3>1
    <2>13. ASSUME NEW u \in Thread, tpc'[u] = "lookup"
           PROVE  /\ tpc[u] = "lookup" /\ slavefd[u] \in listening
                  /\ ~In(rooms', Listener(slavefd[u]))
      <3>1. tpc[u] = "lookup" /\ slavefd[u] \in Thread
        BY <1>1, <2>11, <2>13 DEF LookupsStay, RoomsFit, Serving, UsesRooms
      <3> QED  BY <1>1, <2>12, <3>1 DEF RoomLists
    <2>14. RoomLists'
      BY <1>1, <2>2, <2>4, <2>7, <2>9, <2>12, <2>13 DEF RoomLists
    <2> QED  BY <2>10, <2>14
  <1>15. CASE Scan(t)
    <2> DEFINE i == Min(Pending(t))
               k == Members(t)[i]
    <2>1. /\ ThreadStep(t, "scan", "scan") /\ index[t] \in DOMAIN rooms
          /\ slavefd' = slavefd
      BY <1>15 DEF Scan, HasRoom
    <2>2. rooms[index[t]].members \in Seq(Socket)
      <3>1. rooms[index[t]] \in Chamber(Socket)
        BY <1>2, <2>1, Elements
      <3> QED  BY <3>1 DEF Chamber
    <2>3. i \in DOMAIN Members(t)
      <3>1. Pending(t) \subseteq DOMAIN Members(t) /\ Pending(t) # {}
        BY <1>15 DEF Scan, Pending
      <3>2. DOMAIN Members(t) \subseteq Nat
        BY <2>2, Elements DEF Members
      <3> QED  BY <3>1, <3>2, MinIs
    <2>4. k = rooms[index[t]].members[i] /\ i \in DOMAIN rooms[index[t]].members
      BY <2>3 DEF Members
    <2>5. PICK r \in Reads(k) :
            \/ /\ Close(conn, {k})
               /\ rooms' = [rooms EXCEPT ![index[t]].members =
                                           RemoveAt(rooms[index[t]].members, i)]
            \/ /\ r.msg # Empty
               /\ conn' = Forward(t, k, [conn EXCEPT ![k].requests = r.rest])
               /\ UNCHANGED <<listening, rooms>>
      BY <1>15 DEF Scan
    <2> HIDE DEF i, k
    <2>6. LookupsStay
      BY <1>5, <2>1
    <2>7. ASSUME Close(conn, {k}),
                 rooms' = [rooms EXCEPT ![index[t]].members =
                                          RemoveAt(rooms[index[t]].members, i)]
          PROVE  MainList' /\ RoomLists'
      <3>1. Fewer(rooms, {k}, rooms')
        <4> DEFINE m == RemoveAt(rooms[index[t]].members, i)
        <4>1. rooms' = [rooms EXCEPT ![index[t]].members = m]
                /\ m = RemoveAt(rooms[index[t]].members, i)
          BY <2>7
        <4> HIDE DEF m
        <4> QED  BY <1>2, <2>1, <2>4, <4>1, MemberRemoved
      <3>2. In(rooms, k)
        BY <2>1, <2>4 DEF In
      <3>3. \A x \in {k} : In(rooms, x)
        BY <3>2
      <3>5. fds' = fds
        BY <1>4, <2>1
      <3> QED  BY <1>1, <1>2, <1>3, <2>6, <2>7, <3>1, <3>3, <3>5, ListsClose
    <2>8. ASSUME r.msg # Empty,
                 conn' = Forward(t, k, [conn EXCEPT ![k].requests = r.rest]),
                 UNCHANGED <<listening, rooms>>
          PROVE  MainList' /\ RoomLists'
      <3>1. k \in DOMAIN conn /\ r \in cread(conn[k].requests, ~conn[k].here)
        BY <2>8 DEF Reads
      <3> DEFINE ds == [conn EXCEPT ![k].requests = r.rest]
      <3>a. ds = [conn EXCEPT ![k].requests = r.rest]
        OBVIOUS
      <3> HIDE DEF ds
      <3>2. Alike(conn, ds) /\ ds \in Seq(Connection)
        <4>1. Served(conn, ds) /\ Alike(conn, ds)
          BY <1>2, <3>1, <3>a, ReadServes, ReadAlike
        <4> QED  BY <4>1 DEF Served
      <3>4. <<"talk", k>> \in Replies
        <4>1. k \in Nat
          BY <1>2, <3>1, Elements
        <4> QED  BY <4>1 DEF Replies
      <3>5. Alike(ds, conn')
        BY <2>8, <3>2, <3>4, <3>a, cwriteAlike DEF Forward
      <3>6. Alike(conn, conn')
        BY <3>2, <3>5 DEF Alike
      <3> QED  BY <1>6, <2>1, <2>8, <3>6
    <2> QED  BY <2>5, <2>7, <2>8
  <1>16. CASE Goodbye(t)
    <2> DEFINE old == rooms[index[t]].members
               told == cwrite(conn, {old[i] : i \in 2 .. Len(old)}, <<"goodbye">>)
               ks == Odd(old)
               m == EverySecond(old)
    <2>1. /\ ThreadStep(t, "goodbye", "erase") /\ index[t] \in DOMAIN rooms
          /\ slavefd' = slavefd /\ Close(told, ks)
          /\ rooms' = [rooms EXCEPT ![index[t]].members = m]
      BY <1>16 DEF Goodbye, Members, HasRoom, Odd
    <2>2. told \in Seq(Connection) /\ Alike(conn, told)
      <3>1. <<"goodbye">> \in Replies
        BY DEF Replies
      <3> QED  BY <1>2, <3>1, cwriteIs, cwriteAlike
    <2>3. m = EverySecond(rooms[index[t]].members)
      OBVIOUS
    <2> HIDE DEF told, m
    <2>4. Fewer(rooms, ks, rooms')
      BY <1>2, <2>1, <2>3, MembersHalved
    <2>6. \A x \in ks : In(rooms, x)
      BY <2>1 DEF In, Odd
    <2>7. LookupsStay /\ fds' = fds
      BY <1>4, <1>5, <2>1
    <2> HIDE DEF ks
    <2> QED  BY <1>1, <2>1, <2>2, <2>4, <2>6, <2>7, ListsClose
  <1>17. CASE Erase(t)
    <2> DEFINE n == getRoomByName(rooms[index[t]].name)
    <2>1. /\ ThreadStep(t, "erase", "done") /\ index[t] \in DOMAIN rooms
          /\ rooms' = RemoveAt(rooms, n) /\ UNCHANGED <<listening, conn, slavefd>>
      BY <1>17 DEF Erase, HasRoom, net
    <2>2. n \in DOMAIN rooms
      BY <1>2, <2>1, getRoomByNameIs
    <2> HIDE DEF n
    <2>3. Fewer(rooms, {}, rooms')
      BY <1>2, <2>1, <2>2, RoomRemoved
    <2>4. LookupsStay /\ fds' = fds
      BY <1>4, <1>5, <2>1
    <2> QED  BY <1>1, <1>3, <2>1, <2>3, <2>4, MainSame, RoomsFewer
  <1> QED  BY <1>7, <1>8, <1>9, <1>10, <1>11, <1>12, <1>13, <1>14, <1>15, <1>16, <1>17
           DEF create_slave_room

LEMMA ListsStep == ListsInv /\ [RNext]_rvars => ListsInv'
  <1> SUFFICES ASSUME ListsInv, [RNext]_rvars PROVE ListsInv'
    OBVIOUS
  <1>1. FitInv'
    BY FitStep DEF ListsInv
  <1>2. CASE ClientStep
    BY <1>1, <1>2, ListsClient DEF ListsInv
  <1>3. CASE ServerStep
    <2>1. CASE Die
      BY <1>1, <2>1 DEF ListsInv, MainList, RoomLists, Die, svars, threads
    <2>2. CASE MainThread /\ ~Die
      <3>1. up' = up
        BY <2>2 DEF MainThread, process_request, MasterAccept, MasterSelect, MasterRead,
                    MasterScanned, net, Create, Join, Delete, Refuse, Disconnect, Act
      <3> QED  BY <1>1, <1>3, <2>2, <3>1, ListsMain DEF ServerStep, ListsInv
    <2>3. CASE \E t \in Thread : create_slave_room(t)
      BY <1>1, <1>3, <2>3, ListsThread DEF ServerStep, ListsInv
    <2> QED  BY <1>3, <2>1, <2>2, <2>3 DEF ServerStep, SNext, RoomThread
  <1>4. CASE UNCHANGED rvars
    BY <1>1, <1>4 DEF ListsInv, MainList, RoomLists, rvars, net, svars, threads
  <1> QED  BY <1>2, <1>3, <1>4 DEF RNext

(* A list of places with at most one element.                              *)
LEMMA AtMostOne ==
  ASSUME NEW B, \A x, y \in B : x = y
  PROVE  Cardinality(B) <= 1
  <1>1. CASE B = {}
    BY <1>1, FS_EmptySet
  <1>2. CASE B # {}
    <2>1. PICK x : x \in B
      BY <1>2
    <2>2. B = {x}
      BY <2>1
    <2> QED  BY <2>2, FS_Singleton
  <1> QED  BY <1>1, <1>2

LEMMA ListsAreOne == ListsInv => OneList
  <1> SUFFICES ASSUME ListsInv PROVE OneList
    OBVIOUS
  <1>1. RTypeOK /\ MainList /\ RoomLists
    BY DEF ListsInv, FitInv
  <1>2. ASSUME NEW k \in DOMAIN conn PROVE Cardinality(Places(k)) <= 1
    <2>1. \A n \in DOMAIN rooms : n # 0
      BY <1>1, Elements DEF RTypeOK
    <2>2. ASSUME NEW x \in Places(k), NEW y \in Places(k) PROVE x = y
      <3>1. x # 0 => x \in DOMAIN rooms /\ \E j \in DOMAIN rooms[x].members : rooms[x].members[j] = k
        BY DEF Places
      <3>2. y # 0 => y \in DOMAIN rooms /\ \E j \in DOMAIN rooms[y].members : rooms[y].members[j] = k
        BY DEF Places
      <3>3. x = 0 \/ y = 0 => conn[k].port = MasterPort
        BY <1>1, <2>1 DEF Places, MainList
      <3>4. x # 0 \/ y # 0 => conn[k].port # MasterPort
        BY <1>1, <3>1, <3>2 DEF RoomLists, In
      <3>5. CASE x = 0 \/ y = 0
        BY <3>3, <3>4, <3>5
      <3>6. CASE x # 0 /\ y # 0
        BY <1>1, <3>1, <3>2, <3>6 DEF RoomLists, Once
      <3> QED  BY <3>5, <3>6
    <2> QED  BY <2>2, AtMostOne
  <1>3. ASSUME NEW i \in DOMAIN rooms, NEW j \in DOMAIN rooms[i].members
        PROVE  LET k == rooms[i].members[j]
               IN  /\ k > 0 => conn[k].port # MasterPort /\ conn[k].srv = "open"
                   /\ k < 0 => \E p \in listening : k = Listener(p)
                   /\ \A l \in 1 .. j - 1 : rooms[i].members[l] # k
    <2> DEFINE k == rooms[i].members[j]
    <2>1. rooms[i].members \in Seq(Socket)
      <3>1. rooms[i] \in Chamber(Socket)
        BY <1>1, Elements DEF RTypeOK
      <3> QED  BY <3>1 DEF Chamber
    <2>2. In(rooms, k) /\ k \in Socket
      <3>1. k \in Socket
        BY <2>1, Elements
      <3> QED  BY <3>1 DEF In
    <2>4. ASSUME NEW p \in Thread, k = Listener(p)
          PROVE  ~(k > 0) /\ \E q \in listening : k = Listener(q)
      <3>1. p \in listening
        BY <1>1, <2>2, <2>4 DEF RoomLists
      <3>2. p \in Nat /\ p > 0 /\ k = -p
        BY <2>4 DEF Thread, Listener
      <3> HIDE DEF k
      <3>3. ~(k > 0)
        BY <3>2
      <3> QED  BY <2>4, <3>1, <3>3
    <2>5. \A l \in 1 .. j - 1 : rooms[i].members[l] # k
      <3>1. DOMAIN rooms[i].members = 1 .. Len(rooms[i].members) /\ Len(rooms[i].members) \in Nat
        BY <2>1, Elements
      <3>2. \A l \in 1 .. j - 1 : l \in DOMAIN rooms[i].members /\ l # j
        BY <3>1
      <3> QED  BY <1>1, <3>2 DEF RoomLists, Once
    <2>6. k \in DOMAIN conn \/ \E p \in Thread : k = Listener(p)
      BY <2>2 DEF Socket
    <2>7. /\ k > 0 => conn[k].port # MasterPort /\ conn[k].srv = "open"
          /\ k < 0 => \E p \in listening : k = Listener(p)
      <3>1. CASE k \in DOMAIN conn
        <4>1. k \in Nat
          BY <1>1, <3>1, Elements DEF RTypeOK
        <4>2. conn[k].port # MasterPort /\ conn[k].srv = "open"
          BY <1>1, <2>2, <3>1 DEF RoomLists
        <4> HIDE DEF k
        <4> QED  BY <4>1, <4>2
      <3>2. CASE \E p \in Thread : k = Listener(p)
        BY <2>4, <3>2
      <3> QED  BY <2>6, <3>1, <3>2
    <2> QED  BY <2>5, <2>7
  <1> QED  BY <1>1, <1>2, <1>3 DEF OneList, MainList

(* In any rooms, also when a thread works on a room that is not its own: a *)
(* socket is in one list at most, once, and open there, although lists are *)
(* erased from by position while the loops run over them.                  *)
THEOREM RoomsOneList == RSpec => []OneList
  <1>1. RInit => ListsInv
    BY ListsInit
  <1>2. ListsInv /\ [RNext]_rvars => ListsInv'
    BY ListsStep
  <1>3. ListsInv => OneList
    BY ListsAreOne
  <1> QED  BY <1>1, <1>2, <1>3, PTL DEF RSpec
=============================================================================
