------------------------------ MODULE IpcProofs ------------------------------
(***************************************************************************)
(* The socket server, for any clients, requests in any number of pieces,   *)
(* and any limits: the limits are kept, requests are handled each in its   *)
(* turn, none lost, and what is delivered is in order and without a gap.   *)
(***************************************************************************)
EXTENDS Ipc, TLAPS, SequenceTheorems, WellFoundedInduction

Msg == [what : {"reply", "event", "too_large"}, n : Nat]
Queue == [out : Seq(Msg), kernel : Seq(Msg), closing : BOOLEAN]

\* What is queued for a client, within the limits.
Fits(q) == q \in Queue /\ Len(q.out) <= MaxPending /\ Len(q.kernel) <= Kernel

\* What a client wrote and on_client has not handled yet.
Line(c) == in[c] \o wire[c]

\* Pieces come in the order of their requests; the last one of a request ends it.
Sorted(s) ==
  \A i, j \in 1..Len(s) : i < j => s[i].n <= s[j].n /\ (s[i].last => s[i].n < s[j].n)

\* They are of requests after the h handled, up to the t sent and the one being sent.
Between(s, h, t) ==
  h <= t /\ \A i \in 1..Len(s) : h < s[i].n /\ s[i].n <= t + 1 /\ (s[i].last => s[i].n <= t)

\* No request is lost before its turn.
Kept(s, h, t) == \A n \in (h + 1)..t : \E i \in 1..Len(s) : s[i].n = n /\ s[i].last

Lines(s, h, t) == Sorted(s) /\ Between(s, h, t)

\* The first complete line of x ends at k, and y is what stands behind it.
FirstLine(x, k) == k \in 1..Len(x) /\ x[k].last /\ \A j \in 1..(k - 1) : ~x[j].last

Behind(x, y, k) ==
  y \in Seq(Piece) /\ Len(y) = Len(x) - k /\ \A i \in 1..(Len(x) - k) : y[i] = x[k + i]

\* A connection that has ended.
Ended == {"freed", "barred"}

NothingLost == \A c \in Client : conn[c] \notin Ended => Kept(Line(c), handled[c], sent[c])

ServerType ==
  /\ conn \in [Client -> {"off", "queued", "on", "freed", "barred"}]
  /\ up \in [Client -> {"open", "shut", "closed"}]
  /\ sent \in [Client -> 0..MaxRequests] /\ handled \in [Client -> 0..MaxRequests]
  /\ since \in [Client -> -1..emitted] /\ emitted \in Nat
  /\ at \in Client \cup {Nobody} /\ reap \in BOOLEAN
  /\ at # Nobody => conn[at] = "on"

InputType ==
  /\ wire \in [Client -> Seq(Piece)] /\ in \in [Client -> Seq(Piece)]
  /\ \A c \in Client : Len(in[c]) > MaxLine => queue[c].closing

OutputType == queue \in [Client -> Queue] /\ \A c \in Client : Fits(queue[c])

LinesHeld == \A c \in Client : Lines(Line(c), handled[c], sent[c])

IpcInv == ServerType /\ InputType /\ OutputType /\ LinesHeld /\ NothingLost

-----------------------------------------------------------------------------
(* Output *)

\* flush_out keeps the limits and unmarks no client.
LEMMA FlushFits ==
  ASSUME NEW q, NEW c, Fits(q)
  PROVE  Fits(Flushed(q, c)) /\ (q.closing => Flushed(q, c).closing)
<1> USE IpcAssumption
<1> DEFINE room == Kernel - Len(q.kernel)
           n == IF Len(q.out) < room THEN Len(q.out) ELSE room
           sentNow == SubSeq(q.out, 1, n)
           rest == SubSeq(q.out, n + 1, Len(q.out))
<1>1. /\ q \in Queue /\ q.out \in Seq(Msg) /\ q.kernel \in Seq(Msg) /\ q.closing \in BOOLEAN
      /\ Len(q.out) \in Nat /\ Len(q.kernel) \in Nat
      /\ Len(q.out) <= MaxPending /\ Len(q.kernel) <= Kernel
  BY DEF Fits, Queue
<1>2. n \in Nat /\ n <= Len(q.out) /\ Len(q.kernel) + n <= Kernel
  <2>1. ASSUME NEW o \in Nat, NEW k \in Nat, k <= Kernel, NEW m, m = IF o < Kernel - k THEN o ELSE Kernel - k
        PROVE  m \in Nat /\ m <= o /\ k + m <= Kernel
    BY <2>1
  <2> QED
    BY <1>1, <2>1
<1>3. \A i \in 1..Len(q.out) : q.out[i] \in Msg
  BY <1>1, ElementOfSeq
<1> HIDE DEF n
<1>4. sentNow \in Seq(Msg) /\ Len(sentNow) = n
  <2>1. \A i \in 1..n : q.out[i] \in Msg
    BY <1>1, <1>2, <1>3
  <2> QED
    BY <1>2, <2>1, SubSeqProperties
<1>5. rest \in Seq(Msg) /\ Len(rest) <= Len(q.out)
  <2>1. \A i \in (n + 1)..Len(q.out) : q.out[i] \in Msg
    BY <1>1, <1>2, <1>3
  <2> QED
    BY <1>1, <1>2, <2>1, SubSeqProperties
<1> HIDE DEF sentNow, rest
<1>6. q.kernel \o sentNow \in Seq(Msg) /\ Len(q.kernel \o sentNow) <= Kernel
  BY <1>1, <1>2, <1>4, ConcatProperties
<1>7. Flushed(q, c) = IF q.out # <<>> /\ up[c] = "closed" THEN [q EXCEPT !.closing = TRUE]
                      ELSE [q EXCEPT !.kernel = @ \o sentNow, !.out = rest]
  BY <1>1 DEF Flushed, n, sentNow, rest, Queue
<1>8. Len(rest) <= MaxPending
  BY <1>1, <1>5
<1> QED
  BY <1>1, <1>5, <1>6, <1>7, <1>8 DEF Fits, Queue

\* send_json marks a client that would go over MAX_PENDING_OUT.
LEMMA PostFits ==
  ASSUME NEW q, NEW c, NEW msg \in Msg, Fits(q)
  PROVE  Fits(Post(q, c, msg)) /\ (q.closing => Post(q, c, msg).closing)
<1>1. q \in Queue /\ q.out \in Seq(Msg) /\ Len(q.out) \in Nat
  BY DEF Fits, Queue
<1>2. CASE Len(q.out) + 1 > MaxPending
  <2>1. Post(q, c, msg) = [q EXCEPT !.closing = TRUE]
    BY <1>2 DEF Post
  <2> QED
    BY <2>1 DEF Fits, Queue
<1>3. CASE ~(Len(q.out) + 1 > MaxPending)
  <2> DEFINE p == [q EXCEPT !.out = Append(@, msg)]
  <2>1. Post(q, c, msg) = Flushed(p, c)
    BY <1>3 DEF Post
  <2>2. Append(q.out, msg) \in Seq(Msg) /\ Len(Append(q.out, msg)) = Len(q.out) + 1
    BY <1>1, AppendProperties
  <2>3. Fits(p) /\ p.closing = q.closing
    <3>1. p \in Queue /\ p.out = Append(q.out, msg) /\ p.kernel = q.kernel /\ p.closing = q.closing
      BY <1>1, <2>2 DEF Queue
    <3>2. Len(q.out) + 1 <= MaxPending
      BY <1>1, <1>3, IpcAssumption
    <3> QED
      BY <2>2, <3>1, <3>2 DEF Fits
  <2> HIDE DEF p
  <2> QED
    BY <2>1, <2>3, FlushFits
<1> QED
  BY <1>2, <1>3

\* ipc_broadcast, to each subscriber.
LEMMA BroadcastFits ==
  ASSUME OutputType, NEW msg \in Msg
  PROVE  /\ Broadcast(msg) \in [Client -> Queue]
         /\ \A c \in Client : Fits(Broadcast(msg)[c]) /\ (queue[c].closing => Broadcast(msg)[c].closing)
<1>1. \A c \in Client : Fits(Broadcast(msg)[c]) /\ (queue[c].closing => Broadcast(msg)[c].closing)
  BY PostFits DEF Broadcast, OutputType
<1>2. Broadcast(msg) \in [Client -> Queue]
  BY <1>1 DEF Broadcast, Fits
<1> QED
  BY <1>1, <1>2

-----------------------------------------------------------------------------
(* Input *)

\* Of the complete lines one is the first.
LEMMA LeastLine == ASSUME NEW S \in SUBSET Nat, S # {} PROVE \E j \in S : \A i \in S : j <= i
<1>1. PICK j \in S : \A i \in S : <<i, j>> \notin OpToRel(<, Nat)
  BY NatLessThanWellFounded, WFMin
<1>2. \A i \in S : ~(i < j)
  BY <1>1 DEF OpToRel
<1> QED
  BY <1>2

\* A piece is in what was read or in what is still in the socket.
LEMMA Joined ==
  ASSUME NEW s \in Seq(Piece), NEW w \in Seq(Piece)
  PROVE  /\ s \o w \in Seq(Piece) /\ Len(s \o w) = Len(s) + Len(w) /\ Len(w) \in Nat
         /\ \A i \in 1..Len(s) : (s \o w)[i] = s[i]
         /\ \A i \in 1..Len(w) : (s \o w)[Len(s) + i] = w[i]
<1>1. /\ s \o w \in Seq(Piece) /\ Len(s \o w) = Len(s) + Len(w)
      /\ \A i \in 1..Len(s) + Len(w) : (s \o w)[i] = IF i <= Len(s) THEN s[i] ELSE w[i - Len(s)]
  BY ConcatProperties
<1>2. Len(s) \in Nat /\ Len(w) \in Nat
  OBVIOUS
<1>3. \A i \in 1..Len(s) : (s \o w)[i] = s[i]
  BY <1>1, <1>2
<1>4. ASSUME NEW i \in 1..Len(w) PROVE (s \o w)[Len(s) + i] = w[i]
  <2>1. Len(s) + i \in 1..Len(s) + Len(w) /\ ~(Len(s) + i <= Len(s)) /\ Len(s) + i - Len(s) = i
    BY <1>2
  <2> QED
    BY <1>1, <2>1
<1> QED
  BY <1>1, <1>2, <1>3, <1>4

\* A line leaves at the front of what was read.
LEMMA FrontTaken ==
  ASSUME NEW x \in Seq(Piece), NEW w \in Seq(Piece), NEW y \in Seq(Piece), NEW k \in Nat,
         FirstLine(x, k), Behind(x, y, k)
  PROVE  FirstLine(x \o w, k) /\ Behind(x \o w, y \o w, k)
<1>0. /\ k \in 1..Len(x) /\ x[k].last /\ \A j \in 1..(k - 1) : ~x[j].last
      /\ y \in Seq(Piece) /\ Len(y) = Len(x) - k /\ \A i \in 1..(Len(x) - k) : y[i] = x[k + i]
  BY DEF FirstLine, Behind
<1> DEFINE s == x \o w
           r == y \o w
<1>1. /\ s \in Seq(Piece) /\ Len(s) = Len(x) + Len(w)
      /\ \A i \in 1..Len(x) : s[i] = x[i]
      /\ \A i \in 1..Len(w) : s[Len(x) + i] = w[i]
  BY Joined
<1>2. /\ r \in Seq(Piece) /\ Len(r) = Len(y) + Len(w)
      /\ \A i \in 1..Len(y) : r[i] = y[i]
      /\ \A i \in 1..Len(w) : r[Len(y) + i] = w[i]
  BY <1>0, Joined
<1> HIDE DEF s, r
<1>3. Len(x) \in Nat /\ Len(y) \in Nat /\ Len(w) \in Nat /\ k \in Nat
  BY <1>0, LenProperties
<1>4. Len(r) = Len(s) - k /\ k \in 1..Len(s)
  BY <1>0, <1>1, <1>2, <1>3
<1>5. ASSUME NEW i \in 1..Len(r) PROVE r[i] = s[k + i]
  <2>1. CASE i <= Len(y)
    <3>1. i \in 1..Len(y) /\ k + i \in 1..Len(x)
      BY <1>0, <1>3, <2>1
    <3> QED
      BY <1>0, <1>1, <1>2, <3>1
  <2>2. CASE ~(i <= Len(y))
    <3> DEFINE j == i - Len(y)
    <3>1. j \in 1..Len(w) /\ Len(y) + j = i /\ Len(x) + j = k + i
      BY <1>0, <1>2, <1>3, <2>2
    <3> HIDE DEF j
    <3>2. r[Len(y) + j] = w[j] /\ s[Len(x) + j] = w[j]
      BY <1>0, <1>1, <1>2, <3>1
    <3> QED
      BY <3>1, <3>2
  <2> QED
    BY <2>1, <2>2
<1>6. \A i \in 1..k : s[i] = x[i]
  BY <1>0, <1>1, <1>3
<1>7. FirstLine(s, k)
  <2>1. k \in 1..k /\ \A j \in 1..(k - 1) : j \in 1..k
    BY <1>0
  <2> QED
    BY <1>0, <1>4, <1>6, <2>1 DEF FirstLine
<1>8. Behind(s, r, k)
  BY <1>2, <1>4, <1>5 DEF Behind
<1> QED
  BY <1>7, <1>8 DEF s, r

\* What is sent goes behind what waits.
LEMMA BehindAll ==
  ASSUME NEW s \in Seq(Piece), NEW w \in Seq(Piece), NEW p \in Piece
  PROVE  LET r == s \o Append(w, p) IN
         /\ s \o w \in Seq(Piece) /\ r \in Seq(Piece)
         /\ Len(r) = Len(s \o w) + 1
         /\ \A i \in 1..Len(s \o w) : r[i] = (s \o w)[i]
         /\ r[Len(s \o w) + 1] = p
<1> DEFINE more == Append(w, p)
<1>1. /\ more \in Seq(Piece) /\ Len(more) = Len(w) + 1 /\ more[Len(w) + 1] = p
      /\ \A i \in 1..Len(w) : more[i] = w[i]
      /\ Len(w) \in Nat /\ Len(s) \in Nat
  BY AppendProperties, LenProperties
<1> HIDE DEF more
<1>2. /\ s \o w \in Seq(Piece) /\ Len(s \o w) = Len(s) + Len(w)
      /\ \A i \in 1..Len(s) + Len(w) : (s \o w)[i] = IF i <= Len(s) THEN s[i] ELSE w[i - Len(s)]
  BY ConcatProperties
<1>3. /\ s \o more \in Seq(Piece) /\ Len(s \o more) = Len(s) + Len(more)
      /\ \A i \in 1..Len(s) + Len(more) : (s \o more)[i] = IF i <= Len(s) THEN s[i] ELSE more[i - Len(s)]
  BY <1>1, ConcatProperties
<1>4. (s \o more)[Len(s \o w) + 1] = p
  <2>1. /\ Len(s \o w) + 1 \in 1..Len(s) + Len(more) /\ ~(Len(s \o w) + 1 <= Len(s))
        /\ Len(s \o w) + 1 - Len(s) = Len(w) + 1
    BY <1>1, <1>2
  <2> QED
    BY <1>1, <1>3, <2>1
<1>5. ASSUME NEW i \in 1..Len(s \o w) PROVE (s \o more)[i] = (s \o w)[i]
  <2>1. i \in 1..Len(s) + Len(w) /\ i \in 1..Len(s) + Len(more)
    BY <1>1, <1>2
  <2>2. CASE i <= Len(s)
    BY <1>2, <1>3, <2>1, <2>2
  <2>3. CASE ~(i <= Len(s))
    <3>1. i - Len(s) \in 1..Len(w)
      BY <1>1, <2>1, <2>3
    <3> QED
      BY <1>1, <1>2, <1>3, <2>1, <2>3, <3>1
  <2> QED
    BY <2>2, <2>3
<1>6. Len(s \o more) = Len(s \o w) + 1
  BY <1>1, <1>2, <1>3
<1> QED
  BY <1>2, <1>3, <1>4, <1>5, <1>6 DEF more

\* A piece more: of the request being sent.
LEMMA PieceAdded ==
  ASSUME NEW s \in Seq(Piece), NEW p \in Piece, NEW h \in Nat, NEW t \in Nat, Lines(s, h, t), p.n = t + 1,
         NEW r \in Seq(Piece), Len(r) = Len(s) + 1, \A i \in 1..Len(s) : r[i] = s[i], r[Len(s) + 1] = p,
         NEW u, u = IF p.last THEN t + 1 ELSE t
  PROVE  Lines(r, h, u) /\ (Kept(s, h, t) => Kept(r, h, u))
<1>1. Len(s) \in Nat /\ \A i \in 1..Len(s) : s[i] \in Piece
  OBVIOUS
<1>2. \A i \in 1..Len(s) : s[i].n \in Nat /\ s[i].last \in BOOLEAN
  BY <1>1, IpcAssumption DEF Piece
<1>3. \A i \in 1..Len(r) : i \in 1..Len(s) \/ i = Len(s) + 1
  BY <1>1
<1>4. Sorted(r)
  BY <1>1, <1>2, <1>3 DEF Lines, Sorted, Between
<1>5. Between(r, h, u)
  BY <1>1, <1>2, <1>3 DEF Lines, Between
<1>6. ASSUME Kept(s, h, t) PROVE Kept(r, h, u)
  <2> SUFFICES ASSUME NEW n \in (h + 1)..u PROVE \E i \in 1..Len(r) : r[i].n = n /\ r[i].last
    BY DEF Kept
  <2>1. CASE n \in (h + 1)..t
    <3>1. PICK i \in 1..Len(s) : s[i].n = n /\ s[i].last
      BY <1>6, <2>1 DEF Kept
    <3> QED
      BY <1>1, <3>1
  <2>2. CASE n \notin (h + 1)..t
    <3>1. n = t + 1 /\ p.last
      BY <2>2
    <3> QED
      BY <1>1, <3>1
  <2> QED
    BY <2>1, <2>2
<1> QED
  BY <1>4, <1>5, <1>6 DEF Lines

\* The first complete line is the next request, and what stands behind it stays.
LEMMA LineTaken ==
  ASSUME NEW s \in Seq(Piece), NEW r \in Seq(Piece), NEW k \in Nat, FirstLine(s, k), Behind(s, r, k),
         NEW h \in Nat, NEW t \in Nat, Lines(s, h, t)
  PROVE  /\ Lines(r, h + 1, t) /\ h < t
         /\ Kept(s, h, t) => s[k].n = h + 1 /\ Kept(r, h + 1, t)
<1>0. /\ k \in 1..Len(s) /\ s[k].last /\ \A j \in 1..(k - 1) : ~s[j].last
      /\ r \in Seq(Piece) /\ Len(r) = Len(s) - k /\ \A i \in 1..Len(r) : r[i] = s[k + i]
  BY DEF FirstLine, Behind
<1>1. /\ Len(s) \in Nat /\ Len(r) \in Nat /\ k \in Nat
      /\ \A i \in 1..Len(s) : s[i] \in Piece /\ s[i].n \in Nat
  <2>1. \A i \in 1..Len(s) : s[i] \in Piece
    BY ElementOfSeq
  <2>2. \A q \in Piece : q.n \in Nat
    BY IpcAssumption DEF Piece
  <2> QED
    BY <1>0, <2>1, <2>2, LenProperties
<1>2. \A i \in 1..Len(r) : k + i \in 1..Len(s) /\ k < k + i
  BY <1>0, <1>1
<1>3. h < s[k].n /\ s[k].n <= t /\ s[k].n \in Nat
  BY <1>0, <1>1 DEF Lines, Between
<1>4. Sorted(r)
  <2> SUFFICES ASSUME NEW i \in 1..Len(r), NEW j \in 1..Len(r), i < j
               PROVE  r[i].n <= r[j].n /\ (r[i].last => r[i].n < r[j].n)
    BY DEF Sorted
  <2>1. k + i < k + j /\ k + i \in 1..Len(s) /\ k + j \in 1..Len(s)
    BY <1>0, <1>1, <1>2
  <2> QED
    BY <1>0, <2>1 DEF Lines, Sorted
<1>5. Between(r, h + 1, t)
  <2>1. h + 1 <= t
    BY <1>1, <1>3
  <2> SUFFICES ASSUME NEW i \in 1..Len(r)
               PROVE  h + 1 < r[i].n /\ r[i].n <= t + 1 /\ (r[i].last => r[i].n <= t)
    BY <2>1 DEF Between
  <2>2. r[i] = s[k + i] /\ k + i \in 1..Len(s) /\ s[k + i].n \in Nat
    BY <1>0, <1>1, <1>2
  <2>3. s[k].n < s[k + i].n
    BY <1>0, <1>2 DEF Lines, Sorted
  <2> QED
    <3>1. s[k + i].n <= t + 1 /\ (s[k + i].last => s[k + i].n <= t)
      BY <1>0, <2>2 DEF Lines, Between
    <3>2. s[k].n \in Nat /\ h < s[k].n
      BY <1>1, <1>3
    <3> QED
      BY <2>2, <2>3, <3>1, <3>2
<1>6. ASSUME Kept(s, h, t) PROVE s[k].n = h + 1 /\ Kept(r, h + 1, t)
  <2>1. s[k].n = h + 1
    <3>1. h + 1 \in (h + 1)..t
      BY <1>1, <1>3
    <3>2. PICK i \in 1..Len(s) : s[i].n = h + 1 /\ s[i].last
      BY <1>6, <3>1 DEF Kept
    <3>3. i = k \/ k < i
      BY <1>0, <1>1, <3>2
    <3>4. k < i => s[k].n < s[i].n
      BY <1>0 DEF Lines, Sorted
    <3> QED
      BY <1>1, <1>3, <3>2, <3>3, <3>4
  <2>2. Kept(r, h + 1, t)
    <3> SUFFICES ASSUME NEW n \in (h + 1 + 1)..t PROVE \E i \in 1..Len(r) : r[i].n = n /\ r[i].last
      BY DEF Kept
    <3>1. PICK i \in 1..Len(s) : s[i].n = n /\ s[i].last
      BY <1>6 DEF Kept
    <3>2. i # k
      BY <2>1, <3>1
    <3>3. k < i
      BY <1>0, <1>1, <3>1, <3>2
    <3>4. i - k \in 1..Len(r) /\ r[i - k] = s[i]
      BY <1>0, <1>1, <3>3
    <3> QED
      BY <3>1, <3>4
  <2> QED
    BY <2>1, <2>2
<1> QED
  BY <1>1, <1>3, <1>4, <1>5, <1>6 DEF Lines

\* What a freed client still has in its socket is of no consequence, but in order.
LEMMA RestOrdered ==
  ASSUME NEW s \in Seq(Piece), NEW w \in Seq(Piece), NEW h \in Nat, NEW t \in Nat, Lines(s \o w, h, t)
  PROVE  Lines(<<>> \o w, h, t)
<1>1. Len(s) \in Nat /\ Len(w) \in Nat /\ <<>> \o w = w /\ Len(s \o w) = Len(s) + Len(w)
  OBVIOUS
<1>2. \A i \in 1..Len(w) : Len(s) + i \in 1..Len(s \o w) /\ (s \o w)[Len(s) + i] = w[i]
  BY <1>1, ConcatProperties
<1>3. Sorted(w)
  <2> SUFFICES ASSUME NEW i \in 1..Len(w), NEW j \in 1..Len(w), i < j
               PROVE  w[i].n <= w[j].n /\ (w[i].last => w[i].n < w[j].n)
    BY DEF Sorted
  <2>1. Len(s) + i < Len(s) + j
    BY <1>1
  <2> QED
    BY <1>2, <2>1 DEF Lines, Sorted
<1>4. Between(w, h, t)
  BY <1>2 DEF Lines, Between
<1> QED
  BY <1>1, <1>3, <1>4 DEF Lines

-----------------------------------------------------------------------------
(* The invariant. *)

\* The invariant has the types and limits the runs check.
LEMMA InvTyped == IpcInv => TypeOK
<1> SUFFICES ASSUME IpcInv PROVE TypeOK
  OBVIOUS
<1>1. \A c \in Client : /\ wire[c] \in Seq(Piece) /\ in[c] \in Seq(Piece)
                        /\ Len(queue[c].out) <= MaxPending /\ Len(queue[c].kernel) <= Kernel
                        /\ Len(in[c]) > MaxLine => queue[c].closing
  BY DEF IpcInv, InputType, OutputType, Fits
<1>2. /\ conn \in [Client -> {"off", "queued", "on", "freed", "barred"}]
      /\ up \in [Client -> {"open", "shut", "closed"}]
      /\ sent \in [Client -> 0..MaxRequests] /\ handled \in [Client -> 0..MaxRequests]
      /\ since \in [Client -> -1..emitted] /\ emitted \in Nat
      /\ at \in Client \cup {Nobody} /\ reap \in BOOLEAN
  BY DEF IpcInv, ServerType
<1> QED
  BY <1>1, <1>2 DEF TypeOK

\* Nobody has connected yet.
LEMMA InvInit == Init => IpcInv
<1> SUFFICES ASSUME Init PROVE IpcInv
  OBVIOUS
<1> USE IpcAssumption
<1>1. ServerType
  <2>1. 0 \in 0..MaxRequests /\ -1 \in -1..0 /\ 0 \in Nat
    OBVIOUS
  <2>2. since \in [Client -> -1..emitted] /\ emitted \in Nat
    BY <2>1 DEF Init
  <2> QED
    BY <2>1, <2>2 DEF Init, ServerType
<1>2. <<>> \in Seq(Piece) /\ <<>> \in Seq(Msg) /\ Len(<<>>) = 0
  OBVIOUS
<1>3. InputType
  BY <1>2 DEF Init, InputType
<1>4. OutputType
  BY <1>2 DEF Init, OutputType, Fits, Queue
<1>5. \A c \in Client : Len(Line(c)) = 0 /\ handled[c] = 0 /\ sent[c] = 0
  BY <1>2 DEF Init, Line
<1>6. LinesHeld
  BY <1>5 DEF LinesHeld, Lines, Sorted, Between
<1>7. NothingLost
  BY <1>5 DEF NothingLost, Kept
<1> QED
  BY <1>1, <1>3, <1>4, <1>6, <1>7 DEF IpcInv

\* Steps that leave input and output alone.
LEMMA InputKept ==
  ASSUME IpcInv, UNCHANGED <<wire, in, sent, handled>>,
         \A c \in Client : queue[c].closing => queue'[c].closing,
         \A c \in Client : conn[c] \in Ended => conn'[c] \in Ended
  PROVE  InputType' /\ LinesHeld' /\ NothingLost'
<1>1. InputType'
  BY DEF IpcInv, InputType
<1>2. \A c \in Client : Line(c)' = Line(c) /\ handled'[c] = handled[c] /\ sent'[c] = sent[c]
  BY DEF Line
<1> QED
  BY <1>1, <1>2 DEF IpcInv, LinesHeld, NothingLost

\* A client connects, hangs up or reads; others are accepted.
LEMMA OuterKeeps ==
  ASSUME IpcInv, OnAccept \/ \E c \in Client : Connect(c) \/ HangUp(c) \/ Read(c)
  PROVE  IpcInv'
<1>1. ServerType /\ OutputType
  BY DEF IpcInv
<1>2. CASE OnAccept
  <2>0. PICK others \in SUBSET {c \in Client : conn[c] = "queued"} :
          conn' = [c \in Client |-> IF c \in others THEN "barred"
                                    ELSE IF conn[c] = "queued" THEN "on" ELSE conn[c]]
    BY <1>2 DEF OnAccept
  <2>1. ServerType'
    BY <1>1, <1>2, <2>0 DEF OnAccept, ServerType, client
  <2>2. OutputType' /\ UNCHANGED <<wire, in, sent, handled, queue>>
    BY <1>1, <1>2 DEF OnAccept, OutputType, client
  <2>3. \A c \in Client : conn[c] \in Ended => conn'[c] \in Ended
    BY <2>0 DEF Ended
  <2> QED
    BY <2>1, <2>2, <2>3, InputKept DEF IpcInv
<1>3. ASSUME NEW c \in Client, Connect(c) PROVE IpcInv'
  <2>1. ServerType'
    BY <1>1, <1>3 DEF Connect, ServerType, client
  <2>2. OutputType' /\ UNCHANGED <<wire, in, sent, handled, queue>>
    BY <1>1, <1>3 DEF Connect, OutputType, client
  <2>3. \A d \in Client : conn[d] \in Ended => conn'[d] \in Ended
    BY <1>1, <1>3 DEF Connect, ServerType, Ended
  <2> QED
    BY <2>1, <2>2, <2>3, InputKept DEF IpcInv
<1>4. ASSUME NEW c \in Client, HangUp(c) PROVE IpcInv'
  <2>1. ServerType'
    BY <1>1, <1>4 DEF HangUp, ServerType
  <2>2. OutputType' /\ UNCHANGED <<wire, in, sent, handled, queue, conn>>
    BY <1>1, <1>4 DEF HangUp, OutputType
  <2> QED
    BY <2>1, <2>2, InputKept DEF IpcInv
<1>5. ASSUME NEW c \in Client, Read(c) PROVE IpcInv'
  <2>1. /\ queue' = [queue EXCEPT ![c].kernel = Tail(@)] /\ queue[c].kernel # <<>>
        /\ UNCHANGED <<conn, up, sent, wire, in, since, emitted, handled, at, reap>>
    BY <1>5 DEF Read, client
  <2>2. queue[c] \in Queue /\ Fits(queue[c]) /\ queue \in [Client -> Queue]
    BY <1>1 DEF OutputType
  <2>3. Tail(queue[c].kernel) \in Seq(Msg) /\ Len(Tail(queue[c].kernel)) <= Kernel
    <3>1. /\ queue[c].kernel \in Seq(Msg) /\ Len(queue[c].kernel) <= Kernel
      BY <2>2 DEF Fits, Queue
    <3> QED
      BY <2>1, <3>1, HeadTailProperties, LenProperties, IpcAssumption
  <2>4. /\ queue'[c] = [queue[c] EXCEPT !.kernel = Tail(queue[c].kernel)]
        /\ \A d \in Client : d # c => queue'[d] = queue[d]
    BY <2>1, <2>2
  <2>5. Fits(queue'[c]) /\ queue'[c].closing = queue[c].closing
    BY <2>2, <2>3, <2>4 DEF Fits, Queue
  <2>6. OutputType'
    BY <1>1, <2>1, <2>4, <2>5 DEF OutputType, Fits
  <2>7. ServerType'
    BY <1>1, <2>1 DEF ServerType
  <2> QED
    BY <2>1, <2>4, <2>5, <2>6, <2>7, InputKept DEF IpcInv
<1> QED
  BY <1>2, <1>3, <1>4, <1>5

\* A piece of a request more.
LEMMA SendKeeps == ASSUME IpcInv, NEW c \in Client, Send(c) PROVE IpcInv'
<1>1. PICK kind \in Kinds, last \in BOOLEAN :
        /\ wire' = [wire EXCEPT ![c] = Append(@, [n |-> sent[c] + 1, kind |-> kind, last |-> last])]
        /\ sent' = [sent EXCEPT ![c] = IF last THEN @ + 1 ELSE @]
  BY DEF Send
<1>2. /\ conn[c] \in {"queued", "on"} /\ sent[c] < MaxRequests
      /\ UNCHANGED <<conn, up, in, queue, got, since, emitted, handled, at, reap>>
  BY DEF Send
<1>3. ServerType /\ InputType /\ OutputType /\ LinesHeld /\ NothingLost
  BY DEF IpcInv
<1> DEFINE p == [n |-> sent[c] + 1, kind |-> kind, last |-> last]
           t == IF last THEN sent[c] + 1 ELSE sent[c]
<1>4. sent[c] \in Nat /\ sent[c] + 1 \in 1..MaxRequests /\ handled[c] \in Nat
  BY <1>2, <1>3, IpcAssumption DEF ServerType
<1>5. p \in Piece /\ p.n = sent[c] + 1 /\ p.last = last
  BY <1>4 DEF Piece
<1>6. t \in 0..MaxRequests
  BY <1>4, IpcAssumption
<1>7. /\ wire' = [wire EXCEPT ![c] = Append(wire[c], p)] /\ sent' = [sent EXCEPT ![c] = t]
  BY <1>1
<1> HIDE DEF p
<1>8. ServerType' /\ OutputType'
  BY <1>2, <1>3, <1>6, <1>7 DEF ServerType, OutputType
<1>9. wire[c] \in Seq(Piece) /\ in[c] \in Seq(Piece)
  BY <1>3 DEF InputType
<1>10. InputType'
  <2>1. Append(wire[c], p) \in Seq(Piece)
    BY <1>5, <1>9
  <2> QED
    BY <1>2, <1>3, <1>7, <2>1 DEF InputType
<1>11. /\ Line(c)' = in[c] \o Append(wire[c], p) /\ sent'[c] = t /\ handled'[c] = handled[c]
       /\ \A d \in Client : d # c => Line(d)' = Line(d) /\ sent'[d] = sent[d] /\ handled'[d] = handled[d]
  BY <1>2, <1>3, <1>7 DEF Line, InputType, ServerType
<1>12. Lines(Line(c)', handled[c], t) /\ (Kept(Line(c), handled[c], sent[c]) => Kept(Line(c)', handled[c], t))
  <2> DEFINE r == in[c] \o Append(wire[c], p)
  <2>1. /\ Line(c) \in Seq(Piece) /\ r \in Seq(Piece) /\ Len(r) = Len(Line(c)) + 1
        /\ \A i \in 1..Len(Line(c)) : r[i] = Line(c)[i]
        /\ r[Len(Line(c)) + 1] = p
    <3>1. r = in[c] \o Append(wire[c], p) /\ Line(c) = in[c] \o wire[c]
      BY DEF Line
    <3>2. /\ in[c] \o wire[c] \in Seq(Piece) /\ in[c] \o Append(wire[c], p) \in Seq(Piece)
          /\ Len(in[c] \o Append(wire[c], p)) = Len(in[c] \o wire[c]) + 1
          /\ \A i \in 1..Len(in[c] \o wire[c]) :
               (in[c] \o Append(wire[c], p))[i] = (in[c] \o wire[c])[i]
          /\ (in[c] \o Append(wire[c], p))[Len(in[c] \o wire[c]) + 1] = p
      BY <1>5, <1>9, BehindAll
    <3> HIDE DEF r
    <3> QED
      BY <3>1, <3>2
  <2>6. Lines(Line(c), handled[c], sent[c])
    BY <1>3 DEF LinesHeld
  <2> HIDE DEF r
  <2>7. Lines(r, handled[c], t) /\ (Kept(Line(c), handled[c], sent[c]) => Kept(r, handled[c], t))
    BY <1>4, <1>5, <2>1, <2>6, PieceAdded
  <2> QED
    BY <1>11, <2>7 DEF r
<1>13. LinesHeld'
  BY <1>3, <1>11, <1>12 DEF LinesHeld
<1>14. NothingLost'
  BY <1>2, <1>3, <1>11, <1>12 DEF NothingLost
<1> QED
  BY <1>8, <1>10, <1>13, <1>14 DEF IpcInv

-----------------------------------------------------------------------------
(* on_client *)

\* There is room in the socket again.
LEMMA OnWritableKeeps == ASSUME IpcInv, NEW c \in Client, OnWritable(c) PROVE IpcInv'
<1>1. /\ conn[c] = "on" /\ at' = c /\ queue' = [queue EXCEPT ![c] = Flushed(@, c)]
      /\ UNCHANGED <<conn, up, sent, wire, in, since, emitted, handled, reap>>
  BY DEF OnWritable, Live, client
<1>2. ServerType /\ OutputType
  BY DEF IpcInv
<1>3. /\ Fits(Flushed(queue[c], c)) /\ (queue[c].closing => Flushed(queue[c], c).closing)
  BY <1>2, FlushFits DEF OutputType
<1>4. /\ queue'[c] = Flushed(queue[c], c) /\ \A d \in Client : d # c => queue'[d] = queue[d]
  BY <1>1, <1>2 DEF OutputType
<1>5. OutputType'
  BY <1>1, <1>2, <1>3, <1>4 DEF OutputType, Fits
<1>6. ServerType'
  BY <1>1, <1>2 DEF ServerType
<1> QED
  BY <1>1, <1>3, <1>4, <1>5, <1>6, InputKept DEF IpcInv

\* What is there is read; too much of it marks the client.
LEMMA OnReadableKeeps == ASSUME IpcInv, NEW c \in Client, OnReadable(c) PROVE IpcInv'
<1> DEFINE all == in[c] \o wire[c]
           over == Len(all) > MaxLine
           q == IF over THEN Post(queue[c], c, Refusal) ELSE queue[c]
           mark == q.closing \/ over \/ up[c] # "open"
<1>1. /\ conn[c] = "on" /\ at' = c
      /\ in' = [in EXCEPT ![c] = all] /\ wire' = [wire EXCEPT ![c] = <<>>]
      /\ UNCHANGED <<conn, up, sent, since, emitted, handled, reap>>
  BY DEF OnReadable, Live, client
<1>2. queue' = [queue EXCEPT ![c] = [q EXCEPT !.closing = mark]]
  BY DEF OnReadable
<1>3. ServerType /\ InputType /\ OutputType /\ LinesHeld /\ NothingLost
  BY DEF IpcInv
<1>4. Refusal \in Msg
  BY DEF Refusal, Msg
<1>5. Fits(q) /\ (queue[c].closing => q.closing)
  BY <1>3, <1>4, PostFits DEF OutputType
<1> HIDE DEF q
<1>6. mark \in BOOLEAN /\ (queue[c].closing => mark) /\ (over => mark)
  BY <1>5 DEF Fits, Queue
<1> HIDE DEF mark
<1>7. Fits([q EXCEPT !.closing = mark]) /\ [q EXCEPT !.closing = mark].closing = mark
  BY <1>5, <1>6 DEF Fits, Queue
<1>8. /\ queue'[c] = [q EXCEPT !.closing = mark] /\ \A d \in Client : d # c => queue'[d] = queue[d]
  BY <1>2, <1>3 DEF OutputType
<1>9. OutputType'
  BY <1>2, <1>3, <1>7, <1>8 DEF OutputType, Fits
<1>10. ServerType'
  BY <1>1, <1>3 DEF ServerType
<1>11. wire[c] \in Seq(Piece) /\ in[c] \in Seq(Piece)
  BY <1>3 DEF InputType
<1>12. all \in Seq(Piece) /\ <<>> \in Seq(Piece) /\ all \o <<>> = all
  BY <1>11, ConcatProperties, ConcatEmptySeq
<1> HIDE DEF all
<1>13. /\ in'[c] = all /\ wire'[c] = <<>>
       /\ \A d \in Client : d # c => in'[d] = in[d] /\ wire'[d] = wire[d]
  BY <1>1, <1>3 DEF InputType
<1>14. InputType'
  <2>1. in' \in [Client -> Seq(Piece)] /\ wire' \in [Client -> Seq(Piece)]
    BY <1>1, <1>3, <1>12 DEF InputType
  <2>2. ASSUME NEW d \in Client, Len(in'[d]) > MaxLine PROVE queue'[d].closing
    <3>1. CASE d = c
      BY <1>6, <1>7, <1>8, <1>13, <2>2, <3>1
    <3>2. CASE d # c
      BY <1>3, <1>8, <1>13, <2>2, <3>2 DEF InputType
    <3> QED
      BY <3>1, <3>2
  <2> QED
    BY <2>1, <2>2 DEF InputType
<1>15. \A d \in Client : Line(d)' = Line(d)
  BY <1>12, <1>13 DEF Line, all
<1>16. LinesHeld' /\ NothingLost'
  BY <1>1, <1>3, <1>15 DEF LinesHeld, NothingLost
<1> QED
  BY <1>9, <1>10, <1>14, <1>16 DEF IpcInv

\* handle_line: the first complete line of the client is its next request, it is
\* answered, and who subscribed hears of a change.
LEMMA HandleLineKeeps ==
  ASSUME IpcInv, HandleLine
  PROVE  /\ IpcInv'
         /\ handled' = [handled EXCEPT ![at] = @ + 1]
         /\ \E k \in 1..Len(in[at]) : in[at][k].n = handled[at] + 1 /\ in[at][k].last
         /\ \E told : /\ queue' = [told EXCEPT ![at] = Post(@, at, Reply(handled[at] + 1))]
                      /\ told \in [Client -> Queue] /\ Fits(told[at])
                      /\ \/ told = queue /\ emitted' = emitted
                         \/ told = Broadcast(Event(emitted + 1)) /\ emitted' = emitted + 1
<1>0. PICK c \in Client : c = at /\ conn[c] = "on"
  BY DEF HandleLine, IpcInv, ServerType
<1> DEFINE k == CHOOSE j \in Complete(c) : \A i \in Complete(c) : j <= i
           p == in[c][k]
           told == IF p.kind = "change" THEN Broadcast(Event(emitted + 1)) ELSE queue
           rest == SubSeq(in[c], k + 1, Len(in[c]))
<1>1. /\ ~queue[c].closing /\ Complete(c) # {}
      /\ in' = [in EXCEPT ![c] = rest]
      /\ handled' = [handled EXCEPT ![c] = @ + 1] /\ UNCHANGED at
      /\ queue' = [told EXCEPT ![c] = Post(@, c, Reply(p.n))]
      /\ emitted' = IF p.kind = "change" THEN emitted + 1 ELSE emitted
      /\ \E on \in BOOLEAN : since' = IF p.kind = "hello" THEN Subscribed(c, on) ELSE since
      /\ reap' = (reap \/ p.kind = "change")
      /\ UNCHANGED <<conn, up, sent, wire, got>>
  BY <1>0 DEF HandleLine, TakeLine, ScheduleReap, client
<1>2. ServerType /\ InputType /\ OutputType /\ LinesHeld /\ NothingLost
  BY DEF IpcInv
<1>3. c \in Client /\ conn[c] = "on"
  BY <1>0
<1>4. wire[c] \in Seq(Piece) /\ in[c] \in Seq(Piece) /\ Len(in[c]) \in Nat
  BY <1>2, <1>3 DEF InputType
<1>5. k \in Complete(c) /\ \A i \in Complete(c) : k <= i
  <2>1. Complete(c) \in SUBSET Nat /\ Complete(c) # {}
    <3>1. \A j \in Complete(c) : j \in 1..Len(in[c])
      BY DEF Complete
    <3> QED
      BY <1>1, <1>4, <3>1
  <2>2. \E j \in Complete(c) : \A i \in Complete(c) : j <= i
    BY <2>1, LeastLine
  <2> QED
    BY <2>2
<1>6. k \in 1..Len(in[c]) /\ in[c][k].last /\ \A j \in 1..(k - 1) : ~in[c][j].last
  <2>1. k \in 1..Len(in[c]) /\ in[c][k].last
    BY <1>5 DEF Complete
  <2>2. ASSUME NEW j \in 1..(k - 1), in[c][j].last PROVE FALSE
    <3>1. j \in 1..Len(in[c]) /\ ~(k <= j)
      BY <1>4, <2>1
    <3> QED
      BY <1>5, <2>2, <3>1 DEF Complete
  <2> QED
    BY <2>1, <2>2
<1> HIDE DEF k
<1>7. p \in Piece
  BY <1>4, <1>6, ElementOfSeq
<1>8. /\ rest \in Seq(Piece) /\ Len(rest) = Len(in[c]) - k
      /\ \A i \in 1..(Len(in[c]) - k) : rest[i] = in[c][k + i]
  <2>1. \A i \in (k + 1)..Len(in[c]) : in[c][i] \in Piece
    BY <1>4, <1>6, ElementOfSeq
  <2>2. k + 1 \in Int /\ Len(in[c]) \in Int /\ Len(in[c]) - (k + 1) + 1 = Len(in[c]) - k
    BY <1>4, <1>6
  <2>3. /\ rest \in Seq(Piece)
        /\ Len(rest) = IF k + 1 <= Len(in[c]) THEN Len(in[c]) - (k + 1) + 1 ELSE 0
        /\ \A i \in 1..Len(in[c]) - (k + 1) + 1 : rest[i] = in[c][(k + 1) + i - 1]
    BY <2>1, <2>2, SubSeqProperties
  <2> QED
    BY <1>4, <1>6, <2>2, <2>3
<1> HIDE DEF rest, p
\* The input.
<1>9. /\ Lines(rest \o wire[c], handled[c] + 1, sent[c]) /\ handled[c] < sent[c]
      /\ p.n = handled[c] + 1 /\ Kept(rest \o wire[c], handled[c] + 1, sent[c])
  <2> DEFINE s == in[c] \o wire[c]
             r == rest \o wire[c]
  <2>1. FirstLine(s, k) /\ Behind(s, r, k) /\ s \in Seq(Piece) /\ s[k] = p
    <3>1. FirstLine(in[c], k) /\ Behind(in[c], rest, k)
      BY <1>6, <1>8 DEF FirstLine, Behind
    <3>2. k \in Nat /\ rest \in Seq(Piece) /\ in[c] \in Seq(Piece) /\ wire[c] \in Seq(Piece)
      BY <1>4, <1>6, <1>8
    <3>3. \A x, w, y \in Seq(Piece), j \in Nat :
            FirstLine(x, j) /\ Behind(x, y, j) => FirstLine(x \o w, j) /\ Behind(x \o w, y \o w, j)
      BY FrontTaken
    <3>4. FirstLine(s, k) /\ Behind(s, r, k)
      BY <3>1, <3>2, <3>3
    <3>5. s \in Seq(Piece) /\ s[k] = in[c][k]
      <4>1. \A x, w \in Seq(Piece) :
              x \o w \in Seq(Piece) /\ \A i \in 1..Len(x) : (x \o w)[i] = x[i]
        BY Joined
      <4> QED
        BY <1>6, <3>2, <4>1
    <3> QED
      BY <3>4, <3>5 DEF p
  <2>2. Lines(s, handled[c], sent[c]) /\ Kept(s, handled[c], sent[c])
    BY <1>0, <1>2 DEF LinesHeld, NothingLost, Line, Ended
  <2> HIDE DEF s, r
  <2>4. handled[c] \in Nat /\ sent[c] \in Nat /\ k \in Nat /\ r \in Seq(Piece)
    BY <1>2, <1>6, <2>1, IpcAssumption DEF ServerType, Behind
  <2>5. /\ Lines(r, handled[c] + 1, sent[c]) /\ handled[c] < sent[c]
        /\ s[k].n = handled[c] + 1 /\ Kept(r, handled[c] + 1, sent[c])
    BY <2>1, <2>2, <2>4, LineTaken
  <2> QED
    BY <2>1, <2>5 DEF r
<1>10. /\ in'[c] = rest /\ \A d \in Client : d # c => in'[d] = in[d]
       /\ wire' = wire /\ sent' = sent
       /\ handled'[c] = handled[c] + 1 /\ \A d \in Client : d # c => handled'[d] = handled[d]
  BY <1>1, <1>2, <1>3 DEF InputType, ServerType
<1>11. /\ Line(c)' = rest \o wire[c] /\ \A d \in Client : d # c => Line(d)' = Line(d)
  BY <1>10 DEF Line
<1>12. LinesHeld' /\ NothingLost'
  BY <1>1, <1>2, <1>9, <1>10, <1>11 DEF LinesHeld, NothingLost
\* The output.
<1>13. emitted \in Nat /\ Event(emitted + 1) \in Msg
  BY <1>2 DEF ServerType, Event, Msg
<1>14. /\ told \in [Client -> Queue]
       /\ \A d \in Client : Fits(told[d]) /\ (queue[d].closing => told[d].closing)
  BY <1>2, <1>13, BroadcastFits DEF OutputType
<1>15. Reply(p.n) \in Msg
  BY <1>7, IpcAssumption DEF Reply, Msg, Piece
<1>21. \/ told = queue /\ emitted' = emitted
       \/ told = Broadcast(Event(emitted + 1)) /\ emitted' = emitted + 1
  BY <1>1
<1> HIDE DEF told
<1>16. Fits(Post(told[c], c, Reply(p.n)))
  BY <1>3, <1>14, <1>15, PostFits
<1>17. /\ queue'[c] = Post(told[c], c, Reply(p.n)) /\ \A d \in Client : d # c => queue'[d] = told[d]
  BY <1>1, <1>3, <1>14
<1>18. OutputType'
  BY <1>1, <1>14, <1>16, <1>17 DEF OutputType, Fits
<1>19. InputType'
  <2>1. in' \in [Client -> Seq(Piece)] /\ wire' \in [Client -> Seq(Piece)]
    BY <1>1, <1>2, <1>8 DEF InputType
  <2>2. ASSUME NEW d \in Client, Len(in'[d]) > MaxLine PROVE queue'[d].closing
    <3>1. CASE d = c
      <4>1. Len(rest) <= MaxLine
        <5>1. ~(Len(in[c]) > MaxLine)
          BY <1>1, <1>2, <1>3 DEF InputType
        <5> QED
          BY <1>4, <1>6, <1>8, <5>1, IpcAssumption
      <4> QED
        BY <1>8, <1>10, <2>2, <3>1, <4>1, IpcAssumption
    <3>2. CASE d # c
      BY <1>2, <1>10, <1>14, <1>17, <2>2, <3>2 DEF InputType
    <3> QED
      BY <3>1, <3>2
  <2> QED
    BY <2>1, <2>2 DEF InputType
<1>20. ServerType'
  <2>1. handled[c] + 1 \in 0..MaxRequests
    BY <1>2, <1>3, <1>9, IpcAssumption DEF ServerType
  <2>2. handled' \in [Client -> 0..MaxRequests]
    BY <1>1, <1>2, <2>1 DEF ServerType
  <2>3. emitted' \in Nat /\ emitted <= emitted'
    BY <1>1, <1>13
  <2>4. since' \in [Client -> -1..emitted']
    <3>1. since \in [Client -> -1..emitted'] /\ emitted \in -1..emitted' /\ -1 \in -1..emitted'
      BY <1>2, <1>13, <2>3 DEF ServerType
    <3>2. \A on \in BOOLEAN : Subscribed(c, on) \in [Client -> -1..emitted']
      BY <1>3, <3>1 DEF Subscribed
    <3> QED
      BY <1>1, <3>1, <3>2
  <2>5. reap' \in BOOLEAN
    BY <1>1
  <2> QED
    BY <1>1, <1>2, <2>2, <2>3, <2>4, <2>5 DEF ServerType
<1>22. \E w : /\ queue' = [w EXCEPT ![c] = Post(@, c, Reply(handled[c] + 1))]
              /\ w \in [Client -> Queue] /\ Fits(w[c])
              /\ \/ w = queue /\ emitted' = emitted
                 \/ w = Broadcast(Event(emitted + 1)) /\ emitted' = emitted + 1
  BY <1>1, <1>3, <1>9, <1>14, <1>21
<1>23. IpcInv'
  BY <1>12, <1>18, <1>19, <1>20 DEF IpcInv
<1>24. \E j \in 1..Len(in[c]) : in[c][j].n = handled[c] + 1 /\ in[c][j].last
  BY <1>6, <1>9 DEF p
<1> QED
  BY <1>0, <1>1, <1>22, <1>23, <1>24

\* client_free
LEMMA FreeKeeps ==
  ASSUME IpcInv, NEW gone \in SUBSET Client, NEW end \in Ended, Free(gone, end), OutputType',
         \A c \in Client : queue[c].closing => queue'[c].closing,
         UNCHANGED <<up, sent, wire, emitted, handled>>, at' = Nobody, reap' \in BOOLEAN
  PROVE  IpcInv'
<1>1. ServerType /\ InputType /\ LinesHeld /\ NothingLost
  BY DEF IpcInv
<1>2. /\ conn' = [c \in Client |-> IF c \in gone THEN end ELSE conn[c]]
      /\ in' = [c \in Client |-> IF c \in gone THEN <<>> ELSE in[c]]
      /\ since' = [c \in Client |-> IF c \in gone THEN -1 ELSE since[c]]
  BY DEF Free
<1>3. ServerType'
  <2>1. -1 \in -1..emitted
    BY <1>1 DEF ServerType
  <2>2. since' \in [Client -> -1..emitted']
    BY <1>1, <1>2, <2>1 DEF ServerType
  <2> QED
    BY <1>1, <1>2, <2>2 DEF ServerType, Ended
<1>4. InputType'
  <2>1. <<>> \in Seq(Piece) /\ ~(Len(<<>>) > MaxLine)
    BY IpcAssumption
  <2> QED
    BY <1>1, <1>2, <2>1 DEF InputType
<1>5. \A c \in Client : Line(c)' = IF c \in gone THEN <<>> \o wire[c] ELSE Line(c)
  BY <1>2 DEF Line
<1>6. ASSUME NEW c \in Client PROVE Lines(Line(c), handled[c], sent[c])'
  <2>1. Lines(Line(c), handled[c], sent[c]) /\ handled'[c] = handled[c] /\ sent'[c] = sent[c]
    BY <1>1 DEF LinesHeld
  <2>2. CASE c \in gone
    <3>1. in[c] \in Seq(Piece) /\ wire[c] \in Seq(Piece) /\ handled[c] \in Nat /\ sent[c] \in Nat
      BY <1>1, IpcAssumption DEF InputType, ServerType
    <3>2. Lines(<<>> \o wire[c], handled[c], sent[c])
      BY <2>1, <3>1, RestOrdered DEF Line
    <3> QED
      BY <1>5, <2>1, <2>2, <3>2
  <2>3. CASE c \notin gone
    BY <1>5, <2>1, <2>3
  <2> QED
    BY <2>2, <2>3
<1>7. LinesHeld'
  BY <1>6 DEF LinesHeld
<1>8. NothingLost'
  BY <1>1, <1>2, <1>5 DEF NothingLost
<1> QED
  BY <1>3, <1>4, <1>7, <1>8 DEF IpcInv

\* The queue of a client that is freed.
LEMMA Emptied ==
  ASSUME NEW q, Fits(q)
  PROVE  Fits([q EXCEPT !.out = <<>>]) /\ [q EXCEPT !.out = <<>>].closing = q.closing
<1>1. <<>> \in Seq(Msg) /\ Len(<<>>) <= MaxPending
  BY IpcAssumption
<1> QED
  BY <1>1 DEF Fits, Queue

\* The end of on_client.
LEMMA FinishKeeps == ASSUME IpcInv, Finish PROVE IpcInv'
<1>1. /\ at # Nobody /\ at' = Nobody /\ UNCHANGED <<up, sent, wire, emitted, handled, reap>>
      /\ ServerType /\ OutputType
  BY DEF Finish, client, IpcInv
<1>2. at \in Client /\ reap \in BOOLEAN
  BY <1>1 DEF ServerType
<1>3. CASE queue[at].closing
  <2> DEFINE q == Flushed(queue[at], at)
  <2>1. Free({at}, "freed") /\ queue' = [queue EXCEPT ![at] = [q EXCEPT !.out = <<>>]]
    BY <1>3 DEF Finish
  <2>2. Fits(q) /\ q.closing
    BY <1>1, <1>2, <1>3, FlushFits DEF OutputType
  <2> HIDE DEF q
  <2>3. Fits([q EXCEPT !.out = <<>>]) /\ [q EXCEPT !.out = <<>>].closing
    BY <2>2, Emptied
  <2>4. /\ queue'[at] = [q EXCEPT !.out = <<>>] /\ \A d \in Client : d # at => queue'[d] = queue[d]
    BY <1>1, <1>2, <2>1 DEF OutputType
  <2>5. OutputType'
    BY <1>1, <2>1, <2>3, <2>4 DEF OutputType, Fits
  <2>6. \A c \in Client : queue[c].closing => queue'[c].closing
    BY <2>3, <2>4
  <2> QED
    BY <1>1, <1>2, <2>1, <2>5, <2>6, FreeKeeps DEF Ended
<1>4. CASE ~queue[at].closing
  <2>1. UNCHANGED <<conn, in, since, queue>>
    BY <1>4 DEF Finish
  <2>2. ServerType' /\ OutputType'
    BY <1>1, <2>1 DEF ServerType, OutputType
  <2> QED
    BY <1>1, <2>1, <2>2, InputKept DEF IpcInv
<1> QED
  BY <1>3, <1>4

\* The reap timer.
LEMMA OnReapKeeps == ASSUME IpcInv, OnReap PROVE IpcInv'
<1> DEFINE gone == {c \in Live : queue[c].closing}
<1>1. /\ at = Nobody /\ at' = at /\ reap' = FALSE /\ Free(gone, "freed")
      /\ queue' = [c \in Client |-> IF c \in Live /\ queue[c].closing
                                    THEN [queue[c] EXCEPT !.out = <<>>] ELSE queue[c]]
      /\ UNCHANGED <<up, sent, wire, emitted, handled>>
  BY DEF OnReap, client
<1>2. OutputType
  BY DEF IpcInv
<1>3. gone \in SUBSET Client
  BY DEF Live
<1>4. \A c \in Client : Fits(queue'[c]) /\ (queue[c].closing => queue'[c].closing)
  BY <1>1, <1>2, Emptied DEF OutputType
<1>5. OutputType'
  BY <1>1, <1>4 DEF OutputType, Fits
<1> QED
  BY <1>1, <1>3, <1>4, <1>5, FreeKeeps DEF Ended

\* The end of the daemon.
LEMMA CloseKeeps == ASSUME IpcInv, Close PROVE IpcInv'
<1>1. /\ at = Nobody /\ at' = at /\ reap' = FALSE /\ Free(Client, "barred")
      /\ queue' = [c \in Client |-> [queue[c] EXCEPT !.out = <<>>]]
      /\ UNCHANGED <<up, sent, wire, emitted, handled>>
  BY DEF Close, client
<1>2. OutputType
  BY DEF IpcInv
<1>3. \A c \in Client : Fits(queue'[c]) /\ (queue[c].closing => queue'[c].closing)
  BY <1>1, <1>2, Emptied DEF OutputType
<1>4. OutputType'
  BY <1>1, <1>3 DEF OutputType, Fits
<1> QED
  BY <1>1, <1>3, <1>4, FreeKeeps DEF Ended

-----------------------------------------------------------------------------
(* What is kept and what is handled. *)

\* A step, by its actions.
LEMMA InvStep == IpcInv /\ [Next]_vars => IpcInv'
<1> SUFFICES ASSUME IpcInv, [Next]_vars PROVE IpcInv'
  OBVIOUS
<1>1. CASE UNCHANGED vars
  <2>1. UNCHANGED <<conn, up, sent, wire, in, queue, since, emitted, handled, at, reap>>
    BY <1>1 DEF vars, client
  <2>2. ServerType' /\ OutputType'
    BY <2>1 DEF IpcInv, ServerType, OutputType
  <2> QED
    BY <2>1, <2>2, InputKept DEF IpcInv
<1> QED
  BY <1>1, OuterKeeps, SendKeeps, OnWritableKeeps, OnReadableKeeps, HandleLineKeeps, FinishKeeps,
     OnReapKeeps, CloseKeeps DEF Next

\* The invariant.
THEOREM IpcInvariant == Spec => []IpcInv
  BY InvInit, InvStep, PTL DEF Spec

\* What is queued for a client stays within MAX_PENDING_OUT, and one that sends more
\* than MAX_LINE is on its way out (send_json, on_client).
THEOREM IpcTyped == Spec => []TypeOK
  BY IpcInvariant, InvTyped, PTL

\* Requests are handled one at a time, each in its turn (handle_line): the k-th is the
\* k-th the client sent.
InTurn ==
  [][\A c \in Client : handled'[c] # handled[c] =>
       /\ handled'[c] = handled[c] + 1
       /\ \E k \in 1..Len(in[c]) : in[c][k].n = handled'[c] /\ in[c][k].last]_vars

\* No request of a client that is served is skipped, handled twice or lost before its
\* turn, in however many pieces it comes and whatever comes with it (on_client).
THEOREM RequestsInTurn == Spec => InTurn /\ []NothingLost
<1> DEFINE Turn == \A c \in Client : handled'[c] # handled[c] =>
                     /\ handled'[c] = handled[c] + 1
                     /\ \E k \in 1..Len(in[c]) : in[c][k].n = handled'[c] /\ in[c][k].last
<1>1. IpcInv /\ [Next]_vars => [Turn]_vars
  <2> SUFFICES ASSUME IpcInv, [Next]_vars, handled' # handled PROVE Turn
    BY DEF Turn
  <2>1. HandleLine
    BY DEF Next, vars, client, Connect, Send, HangUp, Read, OnAccept, Finish, OnReap, Close, OnWritable,
           OnReadable
  <2>2. handled \in [Client -> 0..MaxRequests]
    BY DEF IpcInv, ServerType
  <2> QED
    BY <2>1, <2>2, HandleLineKeeps
<1>2. IpcInv => NothingLost
  BY DEF IpcInv
<1> QED
  BY <1>1, <1>2, IpcInvariant, PTL DEF Spec, InTurn
-----------------------------------------------------------------------------
(* What is delivered to a client. *)

\* The replies in s are those to the first requests up to h, each behind the ones before.
RepliesSo(s, h) ==
  /\ Rising("reply", s)
  /\ \A i \in 1..Len(s) : s[i].what = "reply" =>
       s[i].n \in 1..h /\ \A n \in 1..s[i].n : \E j \in 1..Len(s) : j <= i /\ s[j] = Reply(n)

AllReplied(s, h) == \A n \in 1..h : \E j \in 1..Len(s) : s[j] = Reply(n)

\* The events in s are some of the first e, and those after the f-th are all there.
EventsSo(s, e) ==
  Rising("event", s) /\ \A i \in 1..Len(s) : s[i].what = "event" => s[i].n \in 1..e

AllTold(s, f, e) == \A n \in (f + 1)..e : \E j \in 1..Len(s) : s[j] = Event(n)

\* A connection that is waiting or served, and not about to be ended.
Open(c) == conn[c] \notin Ended /\ ~queue[c].closing

StreamInv ==
  /\ got \in [Client -> Seq(Msg)]
  /\ \A c \in Client : since[c] >= 0 => conn[c] = "on"
  /\ \A c \in Client :
       /\ RepliesSo(Stream(c), handled[c]) /\ EventsSo(Stream(c), emitted)
       /\ Open(c) => /\ AllReplied(Stream(c), handled[c])
                     /\ since[c] >= 0 => AllTold(Stream(c), since[c], emitted)

\* The beginning of a stream is as well ordered as the whole.
LEMMA StreamCut ==
  ASSUME NEW s \in Seq(Msg), NEW t \in Seq(Msg), NEW h, NEW e, RepliesSo(s, h), EventsSo(s, e),
         Len(t) <= Len(s), \A i \in 1..Len(t) : t[i] = s[i]
  PROVE  RepliesSo(t, h) /\ EventsSo(t, e)
<1>1. Len(s) \in Nat /\ Len(t) \in Nat /\ \A i \in 1..Len(t) : i \in 1..Len(s)
  BY LenProperties
<1>2. Rising("reply", t) /\ Rising("event", t)
  BY <1>1 DEF RepliesSo, EventsSo, Rising
<1>3. ASSUME NEW i \in 1..Len(t), t[i].what = "reply", NEW n \in 1..t[i].n
      PROVE  \E j \in 1..Len(t) : j <= i /\ t[j] = Reply(n)
  <2>1. PICK j \in 1..Len(s) : j <= i /\ s[j] = Reply(n)
    BY <1>1, <1>3 DEF RepliesSo
  <2>2. j \in 1..Len(t)
    BY <1>1, <2>1
  <2> QED
    BY <2>1, <2>2
<1> QED
  BY <1>1, <1>2, <1>3 DEF RepliesSo, EventsSo

\* A message behind all others.
LEMMA Behindhand ==
  ASSUME NEW s \in Seq(Msg), NEW m \in Msg, NEW t, t = Append(s, m)
  PROVE  /\ t \in Seq(Msg) /\ Len(t) = Len(s) + 1 /\ Len(s) \in Nat
         /\ \A i \in 1..Len(s) : t[i] = s[i] /\ i \in 1..Len(t)
         /\ t[Len(s) + 1] = m /\ Len(s) + 1 \in 1..Len(t)
         /\ \A i \in 1..Len(t) : i \in 1..Len(s) \/ i = Len(s) + 1
<1>1. /\ t \in Seq(Msg) /\ Len(t) = Len(s) + 1 /\ Len(s) \in Nat
      /\ \A i \in 1..Len(s) : t[i] = s[i]
      /\ t[Len(s) + 1] = m
  BY AppendProperties, LenProperties
<1> QED
  BY <1>1

\* Numbers that go up still do with a larger one behind, or with another sort of message.
LEMMA StillRising ==
  ASSUME NEW s \in Seq(Msg), NEW m \in Msg, NEW what, Rising(what, s),
         m.what = what => \A i \in 1..Len(s) : s[i].what = what => s[i].n < m.n
  PROVE  Rising(what, Append(s, m))
<1> DEFINE t == Append(s, m)
<1>1. /\ Len(t) = Len(s) + 1 /\ Len(s) \in Nat
      /\ \A i \in 1..Len(s) : t[i] = s[i]
      /\ t[Len(s) + 1] = m
      /\ \A i \in 1..Len(t) : i \in 1..Len(s) \/ i = Len(s) + 1
  BY Behindhand
<1> HIDE DEF t
<1>2. ASSUME NEW i \in 1..Len(t), NEW j \in 1..Len(t), i < j, t[i].what = what, t[j].what = what
      PROVE  t[i].n < t[j].n
  <2>1. i \in 1..Len(s)
    BY <1>1, <1>2
  <2>2. CASE j \in 1..Len(s)
    BY <1>1, <1>2, <2>1, <2>2 DEF Rising
  <2>3. CASE j = Len(s) + 1
    BY <1>1, <1>2, <2>1, <2>3
  <2> QED
    BY <1>1, <2>2, <2>3
<1> QED
  BY <1>2 DEF Rising, t

\* The next reply.
LEMMA ReplyAdded ==
  ASSUME NEW s \in Seq(Msg), NEW h \in Nat, RepliesSo(s, h), AllReplied(s, h)
  PROVE  RepliesSo(Append(s, Reply(h + 1)), h + 1) /\ AllReplied(Append(s, Reply(h + 1)), h + 1)
<1> DEFINE m == Reply(h + 1)
           t == Append(s, m)
<1>1. m \in Msg /\ m.what = "reply" /\ m.n = h + 1
  BY DEF Reply, Msg
<1> HIDE DEF m
<1>2. /\ Len(t) = Len(s) + 1 /\ Len(s) \in Nat
      /\ \A i \in 1..Len(s) : t[i] = s[i] /\ i \in 1..Len(t)
      /\ t[Len(s) + 1] = m /\ Len(s) + 1 \in 1..Len(t)
      /\ \A i \in 1..Len(t) : i \in 1..Len(s) \/ i = Len(s) + 1
  BY <1>1, Behindhand
<1>3. Rising("reply", t)
  BY <1>1, StillRising DEF RepliesSo
<1> HIDE DEF t
<1>4. ASSUME NEW n \in 1..(h + 1) PROVE \E j \in 1..Len(t) : t[j] = Reply(n)
  <2>1. CASE n = h + 1
    BY <1>2, <2>1 DEF m
  <2>2. CASE n \in 1..h
    BY <1>2, <2>2 DEF AllReplied
  <2> QED
    BY <2>1, <2>2
<1>5. ASSUME NEW i \in 1..Len(t), t[i].what = "reply"
      PROVE  t[i].n \in 1..(h + 1) /\ \A n \in 1..t[i].n : \E j \in 1..Len(t) : j <= i /\ t[j] = Reply(n)
  <2>1. CASE i \in 1..Len(s)
    <3>1. s[i].n \in 1..h /\ \A n \in 1..s[i].n : \E j \in 1..Len(s) : j <= i /\ s[j] = Reply(n)
      BY <1>2, <1>5, <2>1 DEF RepliesSo
    <3>2. ASSUME NEW n \in 1..t[i].n PROVE \E j \in 1..Len(t) : j <= i /\ t[j] = Reply(n)
      BY <1>2, <2>1, <3>1
    <3> QED
      BY <1>2, <2>1, <3>1, <3>2
  <2>2. CASE i = Len(s) + 1
    <3>1. t[i].n = h + 1 /\ \A j \in 1..Len(t) : j <= i
      BY <1>1, <1>2, <2>2
    <3> QED
      BY <1>4, <3>1
  <2> QED
    BY <1>2, <2>1, <2>2
<1> QED
  BY <1>3, <1>4, <1>5 DEF RepliesSo, AllReplied, t, m

\* The next event.
LEMMA EventAdded ==
  ASSUME NEW s \in Seq(Msg), NEW e \in Nat, EventsSo(s, e)
  PROVE  /\ EventsSo(Append(s, Event(e + 1)), e + 1)
         /\ \A f \in Nat : f <= e /\ AllTold(s, f, e) => AllTold(Append(s, Event(e + 1)), f, e + 1)
<1> DEFINE m == Event(e + 1)
           t == Append(s, m)
<1>1. m \in Msg /\ m.what = "event" /\ m.n = e + 1
  BY DEF Event, Msg
<1> HIDE DEF m
<1>2. /\ Len(t) = Len(s) + 1 /\ Len(s) \in Nat
      /\ \A i \in 1..Len(s) : t[i] = s[i] /\ i \in 1..Len(t)
      /\ t[Len(s) + 1] = m /\ Len(s) + 1 \in 1..Len(t)
      /\ \A i \in 1..Len(t) : i \in 1..Len(s) \/ i = Len(s) + 1
  BY <1>1, Behindhand
<1>3. Rising("event", t)
  BY <1>1, StillRising DEF EventsSo
<1> HIDE DEF t
<1>4. ASSUME NEW i \in 1..Len(t), t[i].what = "event" PROVE t[i].n \in 1..(e + 1)
  <2>1. CASE i \in 1..Len(s)
    BY <1>2, <1>4, <2>1 DEF EventsSo
  <2>2. CASE i = Len(s) + 1
    BY <1>1, <1>2, <2>2
  <2> QED
    BY <1>2, <2>1, <2>2
<1>5. ASSUME NEW f \in Nat, f <= e, AllTold(s, f, e), NEW n \in (f + 1)..(e + 1)
      PROVE  \E j \in 1..Len(t) : t[j] = Event(n)
  <2>1. CASE n = e + 1
    BY <1>2, <2>1 DEF m
  <2>2. CASE n \in (f + 1)..e
    BY <1>2, <1>5, <2>2 DEF AllTold
  <2> QED
    BY <1>5, <2>1, <2>2
<1> QED
  BY <1>3, <1>4, <1>5 DEF EventsSo, AllTold, t, m

\* A message of another sort changes nothing about replies.
LEMMA RepliesApart ==
  ASSUME NEW s \in Seq(Msg), NEW m \in Msg, m.what # "reply", NEW h, RepliesSo(s, h)
  PROVE  RepliesSo(Append(s, m), h) /\ (AllReplied(s, h) => AllReplied(Append(s, m), h))
<1> DEFINE t == Append(s, m)
<1>1. /\ Len(t) = Len(s) + 1 /\ Len(s) \in Nat
      /\ \A i \in 1..Len(s) : t[i] = s[i] /\ i \in 1..Len(t)
      /\ t[Len(s) + 1] = m
      /\ \A i \in 1..Len(t) : i \in 1..Len(s) \/ i = Len(s) + 1
  BY Behindhand
<1>2. Rising("reply", t)
  BY StillRising DEF RepliesSo
<1> HIDE DEF t
<1>3. ASSUME NEW i \in 1..Len(t), t[i].what = "reply"
      PROVE  t[i].n \in 1..h /\ \A n \in 1..t[i].n : \E j \in 1..Len(t) : j <= i /\ t[j] = Reply(n)
  <2>1. i \in 1..Len(s) /\ t[i] = s[i]
    BY <1>1, <1>3
  <2>2. s[i].n \in 1..h /\ \A n \in 1..s[i].n : \E j \in 1..Len(s) : j <= i /\ s[j] = Reply(n)
    BY <1>3, <2>1 DEF RepliesSo
  <2> QED
    BY <1>1, <2>1, <2>2
<1>4. AllReplied(s, h) => AllReplied(t, h)
  BY <1>1 DEF AllReplied
<1> QED
  BY <1>2, <1>3, <1>4 DEF RepliesSo, t

\* Nor one about events.
LEMMA EventsApart ==
  ASSUME NEW s \in Seq(Msg), NEW m \in Msg, m.what # "event", NEW e, EventsSo(s, e)
  PROVE  EventsSo(Append(s, m), e) /\ \A f : AllTold(s, f, e) => AllTold(Append(s, m), f, e)
<1> DEFINE t == Append(s, m)
<1>1. /\ Len(t) = Len(s) + 1 /\ Len(s) \in Nat
      /\ \A i \in 1..Len(s) : t[i] = s[i] /\ i \in 1..Len(t)
      /\ t[Len(s) + 1] = m
      /\ \A i \in 1..Len(t) : i \in 1..Len(s) \/ i = Len(s) + 1
  BY Behindhand
<1>2. Rising("event", t)
  BY StillRising DEF EventsSo
<1> HIDE DEF t
<1>3. \A i \in 1..Len(t) : t[i].what = "event" => t[i].n \in 1..e
  BY <1>1 DEF EventsSo
<1>4. \A f : AllTold(s, f, e) => AllTold(t, f, e)
  BY <1>1 DEF AllTold
<1> QED
  BY <1>2, <1>3, <1>4 DEF EventsSo, t

\* Streams put together.
LEMMA Together ==
  \A x, y, z \in Seq(Msg) : x \o y \in Seq(Msg) /\ (x \o y) \o z = x \o (y \o z)
<1> TAKE x, y, z \in Seq(Msg)
<1>1. x \o y \in Seq(Msg)
  BY ConcatProperties
<1>2. (x \o y) \o z = x \o (y \o z)
  BY ConcatAssociative
<1> QED
  BY <1>1, <1>2

\* What flush_out passes on to the socket stays where it is in the stream.
LEMMA FlushStream ==
  ASSUME NEW g \in Seq(Msg), NEW q, NEW c, Fits(q)
  PROVE  g \o Flushed(q, c).kernel \o Flushed(q, c).out = g \o q.kernel \o q.out
<1> USE IpcAssumption
<1> DEFINE room == Kernel - Len(q.kernel)
           n == IF Len(q.out) < room THEN Len(q.out) ELSE room
           sentNow == SubSeq(q.out, 1, n)
           rest == SubSeq(q.out, n + 1, Len(q.out))
<1>1. /\ q \in Queue /\ q.out \in Seq(Msg) /\ q.kernel \in Seq(Msg)
      /\ Len(q.out) \in Nat /\ Len(q.kernel) \in Nat /\ Len(q.kernel) <= Kernel
  BY DEF Fits, Queue
<1>2. n \in 0..Len(q.out)
  <2>1. ASSUME NEW o \in Nat, NEW k \in Nat, k <= Kernel, NEW m, m = IF o < Kernel - k THEN o ELSE Kernel - k
        PROVE  m \in 0..o
    BY <2>1
  <2> QED
    BY <1>1, <2>1
<1> HIDE DEF n
<1>3. sentNow \o rest = q.out
  <2>1. SubSeq(q.out, 1, n) \o SubSeq(q.out, n + 1, Len(q.out)) = SubSeq(q.out, 1, Len(q.out))
    <3>1. 1 \in 1..Len(q.out) + 1 /\ n \in 1 - 1..Len(q.out) /\ Len(q.out) \in n..Len(q.out)
      BY <1>1, <1>2
    <3> QED
      BY <1>1, <3>1, ConcatAdjacentSubSeq
  <2> QED
    BY <1>1, <2>1, SubSeqFull
<1>4. sentNow \in Seq(Msg) /\ rest \in Seq(Msg)
  <2>1. \A i \in 1..Len(q.out) : q.out[i] \in Msg
    BY <1>1, ElementOfSeq
  <2>2. (\A i \in 1..n : q.out[i] \in Msg) /\ \A i \in (n + 1)..Len(q.out) : q.out[i] \in Msg
    BY <1>1, <1>2, <2>1
  <2>3. 1 \in Int /\ n \in Int /\ n + 1 \in Int /\ Len(q.out) \in Int
    BY <1>1, <1>2
  <2> QED
    BY <2>2, <2>3, SubSeqProperties
<1>5. Flushed(q, c) = IF q.out # <<>> /\ up[c] = "closed" THEN [q EXCEPT !.closing = TRUE]
                      ELSE [q EXCEPT !.kernel = @ \o sentNow, !.out = rest]
  BY <1>1 DEF Flushed, n, Queue
<1> HIDE DEF sentNow, rest
<1>6. g \o (q.kernel \o sentNow) \o rest = g \o q.kernel \o q.out
  <2>1. g \o (q.kernel \o sentNow) = (g \o q.kernel) \o sentNow /\ g \o q.kernel \in Seq(Msg)
    BY <1>1, <1>4, Together
  <2>2. ((g \o q.kernel) \o sentNow) \o rest = (g \o q.kernel) \o (sentNow \o rest)
    BY <1>4, <2>1, Together
  <2> QED
    BY <1>3, <2>1, <2>2
<1>7. CASE q.out # <<>> /\ up[c] = "closed"
  BY <1>1, <1>5, <1>7 DEF Queue
<1>8. CASE ~(q.out # <<>> /\ up[c] = "closed")
  <2>1. Flushed(q, c).kernel = q.kernel \o sentNow /\ Flushed(q, c).out = rest
    BY <1>1, <1>5, <1>8 DEF Queue
  <2> QED
    BY <1>6, <2>1
<1> QED
  BY <1>7, <1>8

\* send_json puts the message behind all others, or marks the client.
LEMMA PostStream ==
  ASSUME NEW g \in Seq(Msg), NEW q, NEW c, NEW msg \in Msg, Fits(q)
  PROVE  LET p == Post(q, c, msg) IN
         \/ g \o p.kernel \o p.out = g \o q.kernel \o q.out /\ p.closing
         \/ g \o p.kernel \o p.out = Append(g \o q.kernel \o q.out, msg)
<1>1. q \in Queue /\ q.out \in Seq(Msg) /\ q.kernel \in Seq(Msg) /\ Len(q.out) \in Nat
  BY DEF Fits, Queue
<1>2. CASE Len(q.out) + 1 > MaxPending
  <2>1. Post(q, c, msg) = [q EXCEPT !.closing = TRUE]
    BY <1>2 DEF Post
  <2>2. [q EXCEPT !.closing = TRUE].closing /\ [q EXCEPT !.closing = TRUE].kernel = q.kernel
        /\ [q EXCEPT !.closing = TRUE].out = q.out
    BY <1>1 DEF Queue
  <2> QED
    BY <2>1, <2>2
<1>3. CASE ~(Len(q.out) + 1 > MaxPending)
  <2> DEFINE p == [q EXCEPT !.out = Append(@, msg)]
  <2>1. Post(q, c, msg) = Flushed(p, c)
    BY <1>3 DEF Post
  <2>2. Append(q.out, msg) \in Seq(Msg) /\ Len(Append(q.out, msg)) = Len(q.out) + 1
    BY <1>1, AppendProperties
  <2>3. p \in Queue /\ p.out = Append(q.out, msg) /\ p.kernel = q.kernel
    BY <1>1, <2>2 DEF Queue
  <2>4. Len(q.out) + 1 <= MaxPending
    BY <1>1, <1>3, IpcAssumption
  <2>5. Fits(p)
    BY <2>2, <2>3, <2>4 DEF Fits
  <2> HIDE DEF p
  <2>6. g \o Flushed(p, c).kernel \o Flushed(p, c).out = g \o q.kernel \o Append(q.out, msg)
    BY <2>3, <2>5, FlushStream
  <2>7. g \o q.kernel \o Append(q.out, msg) = Append(g \o q.kernel \o q.out, msg)
    <3>1. g \o q.kernel \in Seq(Msg) /\ g \o q.kernel \o q.out \in Seq(Msg) /\ <<msg>> \in Seq(Msg)
      BY <1>1, ConcatProperties
    <3>2. Append(q.out, msg) = q.out \o <<msg>>
      BY <1>1, AppendIsConcat
    <3>3. Append(g \o q.kernel \o q.out, msg) = (g \o q.kernel \o q.out) \o <<msg>>
      BY <3>1, AppendIsConcat
    <3>4. \A w \in Seq(Msg) :
            ((g \o q.kernel) \o q.out) \o w = (g \o q.kernel) \o (q.out \o w)
      <4> DEFINE x == g \o q.kernel
                 y == q.out
      <4>1. x \in Seq(Msg) /\ y \in Seq(Msg)
        BY <1>1, <3>1
      <4> HIDE DEF x, y
      <4>2. \A w \in Seq(Msg) : (x \o y) \o w = x \o (y \o w)
        BY <4>1, Together
      <4> QED
        BY <4>2 DEF x, y
    <3> QED
      BY <3>1, <3>2, <3>3, <3>4
  <2> QED
    BY <2>1, <2>6, <2>7
<1> QED
  BY <1>2, <1>3

\* What the invariants say of one client's stream.
LEMMA StreamTyped ==
  ASSUME IpcInv, StreamInv, NEW c \in Client
  PROVE  /\ Fits(queue[c]) /\ got[c] \in Seq(Msg) /\ Stream(c) \in Seq(Msg)
         /\ queue[c].kernel \in Seq(Msg) /\ queue[c].out \in Seq(Msg)
         /\ handled[c] \in Nat /\ emitted \in Nat /\ since[c] \in Int /\ since[c] <= emitted
<1>1. Fits(queue[c]) /\ got[c] \in Seq(Msg)
  BY DEF IpcInv, OutputType, StreamInv
<1>2. queue[c].kernel \in Seq(Msg) /\ queue[c].out \in Seq(Msg)
  BY <1>1 DEF Fits, Queue
<1>3. Stream(c) \in Seq(Msg)
  BY <1>1, <1>2, Together DEF Stream
<1>4. handled[c] \in 0..MaxRequests /\ emitted \in Nat /\ since[c] \in -1..emitted
  BY DEF IpcInv, ServerType
<1>5. handled[c] \in Nat /\ since[c] \in Int /\ since[c] <= emitted
  BY <1>4, IpcAssumption
<1> QED
  BY <1>1, <1>2, <1>3, <1>4, <1>5

\* The invariant after a step, in terms of the streams after it.
LEMMA StreamsAfter ==
  ASSUME got' \in [Client -> Seq(Msg)], \A c \in Client : since'[c] >= 0 => conn'[c] = "on",
         \A c \in Client :
           /\ RepliesSo(Stream(c)', handled'[c]) /\ EventsSo(Stream(c)', emitted')
           /\ Open(c)' => /\ AllReplied(Stream(c)', handled'[c])
                          /\ since'[c] >= 0 => AllTold(Stream(c)', since'[c], emitted')
  PROVE  StreamInv'
<1>1. ASSUME NEW c \in Client
      PROVE  /\ RepliesSo(Stream(c), handled[c])' /\ EventsSo(Stream(c), emitted)'
             /\ Open(c)' => /\ AllReplied(Stream(c), handled[c])'
                            /\ since'[c] >= 0 => AllTold(Stream(c), since[c], emitted)'
  BY DEF RepliesSo, EventsSo, Rising, AllReplied, AllTold, Reply, Event
<1> QED
  BY <1>1 DEF StreamInv

\* Steps that say nothing, and may throw away the end of a stream that is over.
LEMMA StreamKept ==
  ASSUME IpcInv, IpcInv', StreamInv, UNCHANGED <<handled, emitted>>, got' \in [Client -> Seq(Msg)],
         \A c \in Client :
           /\ Open(c)' => Open(c) /\ Stream(c)' = Stream(c)
           /\ since'[c] \in {since[c], -1} /\ (since'[c] >= 0 => conn'[c] = "on")
           /\ Stream(c)' \in Seq(Msg) /\ Len(Stream(c)') <= Len(Stream(c))
           /\ \A i \in 1..Len(Stream(c)') : Stream(c)'[i] = Stream(c)[i]
  PROVE  StreamInv'
<1>1. ASSUME NEW c \in Client
      PROVE  /\ RepliesSo(Stream(c)', handled'[c]) /\ EventsSo(Stream(c)', emitted')
             /\ Open(c)' => /\ AllReplied(Stream(c)', handled'[c])
                            /\ since'[c] >= 0 => AllTold(Stream(c)', since'[c], emitted')
  <2>1. Stream(c) \in Seq(Msg)
    BY StreamTyped
  <2> DEFINE s == Stream(c)
             t == Stream(c)'
  <2>2. RepliesSo(s, handled[c]) /\ EventsSo(s, emitted)
    BY DEF StreamInv
  <2>3. t \in Seq(Msg) /\ Len(t) <= Len(s) /\ \A i \in 1..Len(t) : t[i] = s[i]
    OBVIOUS
  <2> HIDE DEF s, t
  <2>4. RepliesSo(t, handled[c]) /\ EventsSo(t, emitted)
    BY <2>1, <2>2, <2>3, StreamCut DEF s
  <2>5. ASSUME Open(c)' PROVE /\ AllReplied(t, handled[c])
                              /\ since'[c] >= 0 => AllTold(t, since'[c], emitted)
    <3>1. Open(c) /\ t = s /\ since'[c] \in {since[c], -1}
      BY <2>5 DEF s, t
    <3>2. AllReplied(s, handled[c]) /\ (since[c] >= 0 => AllTold(s, since[c], emitted))
      BY <3>1 DEF StreamInv, s
    <3> QED
      BY <3>1, <3>2
  <2> QED
    BY <2>4, <2>5 DEF t
<1> QED
  BY <1>1, StreamsAfter

\* In most of those steps all streams stay as they are.
LEMMA StreamSame ==
  ASSUME IpcInv, IpcInv', StreamInv, UNCHANGED <<handled, emitted, since>>, got' \in [Client -> Seq(Msg)],
         \A c \in Client : Stream(c)' = Stream(c) /\ (Open(c)' => Open(c))
                           /\ (conn[c] = "on" => conn'[c] = "on")
  PROVE  StreamInv'
<1>1. ASSUME NEW c \in Client
      PROVE  /\ since'[c] \in {since[c], -1} /\ (since'[c] >= 0 => conn'[c] = "on")
             /\ Stream(c)' \in Seq(Msg) /\ Len(Stream(c)') <= Len(Stream(c))
             /\ \A i \in 1..Len(Stream(c)') : Stream(c)'[i] = Stream(c)[i]
  <2>1. Stream(c) \in Seq(Msg) /\ Len(Stream(c)) \in Nat
    BY StreamTyped, LenProperties
  <2> QED
    BY <2>1 DEF StreamInv
<1> QED
  BY <1>1, StreamKept

\* A message read is one from the front of what the socket holds.
LEMMA HeadMoved ==
  ASSUME NEW g \in Seq(Msg), NEW k \in Seq(Msg), k # <<>>
  PROVE  Append(g, Head(k)) \o Tail(k) = g \o k
<1> DEFINE m == Head(k)
           r == Tail(k)
<1>1. m \in Msg /\ r \in Seq(Msg)
  BY HeadTailProperties
<1>2. k = <<m>> \o r
  <2>1. /\ <<m>> \in Seq(Msg) /\ Len(<<m>>) = 1 /\ <<m>>[1] = m /\ m = k[1]
        /\ Len(r) = Len(k) - 1 /\ Len(k) \in Nat /\ Len(k) # 0
        /\ \A i \in 1..Len(r) : r[i] = k[i + 1]
    BY <1>1, HeadTailProperties, LenProperties, EmptySeq
  <2> DEFINE h == <<m>>
             s == h \o r
  <2> HIDE DEF h, m, r
  <2>2. /\ s \in Seq(Msg) /\ Len(s) = Len(h) + Len(r)
        /\ \A i \in 1..Len(h) + Len(r) : s[i] = IF i <= Len(h) THEN h[i] ELSE r[i - Len(h)]
    BY <1>1, <2>1, ConcatProperties DEF h
  <2> HIDE DEF s
  <2>3. Len(s) = Len(k) /\ Len(h) = 1 /\ h[1] = k[1]
    BY <2>1, <2>2 DEF h
  <2>4. ASSUME NEW i \in 1..Len(s) PROVE s[i] = k[i]
    <3>1. CASE i = 1
      BY <2>1, <2>2, <2>3, <3>1
    <3>2. CASE i # 1
      <4>1. i - 1 \in 1..Len(r) /\ s[i] = r[i - 1] /\ (i - 1) + 1 = i
        BY <2>1, <2>2, <2>3, <3>2
      <4> QED
        BY <2>1, <4>1
    <3> QED
      BY <3>1, <3>2
  <2> QED
    BY <2>2, <2>3, <2>4, SeqEqual DEF s, h
<1> HIDE DEF m, r
<1>3. Append(g, m) = g \o <<m>>
  BY <1>1, AppendIsConcat
<1>4. \A h \in Seq(Msg) : (g \o h) \o r = g \o (h \o r)
  BY <1>1, Together
<1>5. <<m>> \in Seq(Msg)
  BY <1>1
<1> QED
  BY <1>2, <1>3, <1>4, <1>5 DEF m, r

\* A client connects, sends, hangs up or reads; others are accepted.
LEMMA OuterStreams ==
  ASSUME IpcInv, IpcInv', StreamInv,
         OnAccept \/ \E c \in Client : Connect(c) \/ Send(c) \/ HangUp(c) \/ Read(c)
  PROVE  StreamInv'
<1>0. /\ got \in [Client -> Seq(Msg)] /\ queue \in [Client -> Queue]
      /\ conn \in [Client -> {"off", "queued", "on", "freed", "barred"}]
  BY DEF StreamInv, IpcInv, OutputType, ServerType
<1>1. ASSUME UNCHANGED <<queue, got, handled, emitted, since>>,
             \A c \in Client : /\ conn[c] \in Ended => conn'[c] \in Ended
                               /\ conn[c] = "on" => conn'[c] = "on"
      PROVE  StreamInv'
  <2>1. \A c \in Client : Stream(c)' = Stream(c) /\ (Open(c)' => Open(c))
    BY <1>1 DEF Stream, Open
  <2> QED
    BY <1>0, <1>1, <2>1, StreamSame
<1>2. CASE OnAccept
  <2>1. PICK others \in SUBSET {c \in Client : conn[c] = "queued"} :
          conn' = [c \in Client |-> IF c \in others THEN "barred"
                                    ELSE IF conn[c] = "queued" THEN "on" ELSE conn[c]]
    BY <1>2 DEF OnAccept
  <2>2. UNCHANGED <<queue, got, handled, emitted, since>>
    BY <1>2 DEF OnAccept
  <2>3. \A c \in Client : /\ conn[c] \in Ended => conn'[c] \in Ended
                          /\ conn[c] = "on" => conn'[c] = "on"
    BY <2>1 DEF Ended
  <2> QED
    BY <1>1, <2>2, <2>3
<1>3. ASSUME NEW c \in Client, Connect(c) PROVE StreamInv'
  <2>1. \A d \in Client : /\ conn[d] \in Ended => conn'[d] \in Ended
                          /\ conn[d] = "on" => conn'[d] = "on"
    BY <1>0, <1>3 DEF Connect, Ended
  <2> QED
    BY <1>1, <1>3, <2>1 DEF Connect
<1>4. ASSUME NEW c \in Client, Send(c) \/ HangUp(c) PROVE StreamInv'
  BY <1>1, <1>4 DEF Send, HangUp
<1>5. ASSUME NEW c \in Client, Read(c) PROVE StreamInv'
  <2>1. /\ queue[c].kernel # <<>>
        /\ got' = [got EXCEPT ![c] = Append(@, Head(queue[c].kernel))]
        /\ queue' = [queue EXCEPT ![c].kernel = Tail(@)]
        /\ UNCHANGED <<conn, since, emitted, handled>>
    BY <1>5 DEF Read
  <2>2. /\ got[c] \in Seq(Msg) /\ queue[c].kernel \in Seq(Msg) /\ queue[c].out \in Seq(Msg)
    BY StreamTyped
  <2>3. Head(queue[c].kernel) \in Msg /\ Tail(queue[c].kernel) \in Seq(Msg)
    BY <2>1, <2>2, HeadTailProperties
  <2>4. /\ queue'[c].kernel = Tail(queue[c].kernel) /\ queue'[c].out = queue[c].out
        /\ queue'[c].closing = queue[c].closing
        /\ got'[c] = Append(got[c], Head(queue[c].kernel))
        /\ \A d \in Client : d # c => queue'[d] = queue[d] /\ got'[d] = got[d]
    BY <1>0, <2>1 DEF Queue
  <2>5. got' \in [Client -> Seq(Msg)]
    BY <1>0, <2>1, <2>2, <2>3, AppendProperties
  <2>6. Append(got[c], Head(queue[c].kernel)) \o Tail(queue[c].kernel) = got[c] \o queue[c].kernel
    BY <2>1, <2>2, HeadMoved
  <2>7. \A d \in Client : Stream(d)' = Stream(d) /\ (Open(d)' => Open(d))
    BY <2>1, <2>4, <2>6 DEF Stream, Open
  <2> QED
    BY <2>1, <2>5, <2>7, StreamSame
<1> QED
  BY <1>2, <1>3, <1>4, <1>5

\* There is room in the socket again.
LEMMA OnWritableStreams ==
  ASSUME IpcInv, IpcInv', StreamInv, NEW c \in Client, OnWritable(c) PROVE StreamInv'
<1>1. /\ queue' = [queue EXCEPT ![c] = Flushed(@, c)]
      /\ UNCHANGED <<conn, got, since, emitted, handled>>
  BY DEF OnWritable
<1>2. /\ queue'[c] = Flushed(queue[c], c) /\ \A d \in Client : d # c => queue'[d] = queue[d]
      /\ got \in [Client -> Seq(Msg)]
  BY <1>1 DEF IpcInv, OutputType, StreamInv
<1>3. Fits(queue[c]) /\ got[c] \in Seq(Msg)
  BY StreamTyped
<1>4. /\ got[c] \o queue'[c].kernel \o queue'[c].out = got[c] \o queue[c].kernel \o queue[c].out
      /\ queue[c].closing => queue'[c].closing
  <2>1. \A g \in Seq(Msg) : g \o Flushed(queue[c], c).kernel \o Flushed(queue[c], c).out
                            = g \o queue[c].kernel \o queue[c].out
    BY <1>3, FlushStream
  <2>2. queue[c].closing => Flushed(queue[c], c).closing
    BY <1>3, FlushFits
  <2> QED
    BY <1>2, <1>3, <2>1, <2>2
<1>5. \A d \in Client : Stream(d)' = Stream(d) /\ (Open(d)' => Open(d))
  BY <1>1, <1>2, <1>4 DEF Stream, Open
<1> QED
  BY <1>1, <1>2, <1>5, StreamSame

\* What a client reads when the rest was thrown away is the beginning of the rest.
LEMMA CutOff ==
  \A g, k, o, e \in Seq(Msg) : e = <<>> =>
    /\ g \o k \o e \in Seq(Msg) /\ Len(g \o k \o e) <= Len(g \o k \o o)
    /\ \A i \in 1..Len(g \o k \o e) : (g \o k \o e)[i] = (g \o k \o o)[i]
<1> SUFFICES ASSUME NEW g \in Seq(Msg), NEW k \in Seq(Msg), NEW o \in Seq(Msg), NEW e \in Seq(Msg), e = <<>>
             PROVE  /\ g \o k \o e \in Seq(Msg) /\ Len(g \o k \o e) <= Len(g \o k \o o)
                    /\ \A i \in 1..Len(g \o k \o e) : (g \o k \o e)[i] = (g \o k \o o)[i]
  OBVIOUS
<1> DEFINE s == g \o k
<1>1. s \in Seq(Msg)
  BY Together
<1> HIDE DEF s
<1>2. s \o e = s
  BY <1>1, ConcatEmptySeq
<1>3. /\ Len(s \o o) = Len(s) + Len(o) /\ Len(s) \in Nat /\ Len(o) \in Nat
      /\ \A i \in 1..Len(s) + Len(o) : (s \o o)[i] = IF i <= Len(s) THEN s[i] ELSE o[i - Len(s)]
  BY <1>1, ConcatProperties, LenProperties
<1>4. Len(s) <= Len(s \o o) /\ \A i \in 1..Len(s) : s[i] = (s \o o)[i]
  BY <1>3
<1> QED
  BY <1>1, <1>2, <1>4 DEF s

\* Clients are freed, and what was queued for them with them.
LEMMA FreeStreams ==
  ASSUME IpcInv, IpcInv', StreamInv, NEW gone \in SUBSET Client, NEW end \in Ended, Free(gone, end),
         UNCHANGED <<got, emitted, handled>>,
         \A c \in Client : /\ Stream(c)' \in Seq(Msg) /\ Len(Stream(c)') <= Len(Stream(c))
                           /\ \A i \in 1..Len(Stream(c)') : Stream(c)'[i] = Stream(c)[i]
                           /\ c \notin gone => Stream(c)' = Stream(c) /\ queue'[c].closing = queue[c].closing
  PROVE  StreamInv'
<1>1. ASSUME NEW c \in Client
      PROVE  /\ Open(c)' => Open(c) /\ Stream(c)' = Stream(c)
             /\ since'[c] \in {since[c], -1} /\ (since'[c] >= 0 => conn'[c] = "on")
  <2>1. CASE c \in gone
    BY <2>1 DEF Free, Open
  <2>2. CASE c \notin gone
    BY <2>2 DEF Free, Open, StreamInv
  <2> QED
    BY <2>1, <2>2
<1>2. got' \in [Client -> Seq(Msg)]
  BY DEF StreamInv
<1> QED
  BY <1>1, <1>2, StreamKept

\* The end of on_client.
LEMMA FinishStreams == ASSUME IpcInv, IpcInv', StreamInv, Finish PROVE StreamInv'
<1>1. at \in Client /\ queue \in [Client -> Queue] /\ got \in [Client -> Seq(Msg)]
  BY DEF Finish, IpcInv, ServerType, OutputType, StreamInv
<1>2. UNCHANGED <<got, emitted, handled>>
  BY DEF Finish
<1>3. CASE queue[at].closing
  <2> DEFINE q == Flushed(queue[at], at)
  <2>1. Free({at}, "freed") /\ queue' = [queue EXCEPT ![at] = [q EXCEPT !.out = <<>>]]
    BY <1>3 DEF Finish
  <2>2. Fits(queue[at]) /\ got[at] \in Seq(Msg)
    BY <1>1, StreamTyped
  <2>3. Fits(q) /\ got[at] \o q.kernel \o q.out = got[at] \o queue[at].kernel \o queue[at].out
    BY <2>2, FlushFits, FlushStream
  <2> HIDE DEF q
  <2>4. q.kernel \in Seq(Msg) /\ q.out \in Seq(Msg) /\ q \in Queue
    BY <2>3 DEF Fits, Queue
  <2>5. /\ queue'[at].kernel = q.kernel /\ queue'[at].out = <<>>
        /\ \A d \in Client : d # at => queue'[d] = queue[d]
    BY <1>1, <2>1, <2>4 DEF Queue
  <2>6. ASSUME NEW c \in Client
        PROVE  /\ Stream(c)' \in Seq(Msg) /\ Len(Stream(c)') <= Len(Stream(c))
               /\ \A i \in 1..Len(Stream(c)') : Stream(c)'[i] = Stream(c)[i]
               /\ c \notin {at} => Stream(c)' = Stream(c) /\ queue'[c].closing = queue[c].closing
    <3>1. CASE c = at
      <4> DEFINE e == queue'[at].out
      <4>1. Stream(c)' = got[at] \o q.kernel \o e /\ Stream(c) = got[at] \o q.kernel \o q.out
        BY <1>2, <2>3, <2>5, <3>1 DEF Stream
      <4>2. e = <<>> /\ e \in Seq(Msg)
        BY <2>5
      <4> DEFINE g == got[at]
                 k == q.kernel
                 o == q.out
      <4>3. g \in Seq(Msg) /\ k \in Seq(Msg) /\ o \in Seq(Msg)
        BY <2>2, <2>4
      <4> HIDE DEF e, g, k, o
      <4>4. /\ g \o k \o e \in Seq(Msg) /\ Len(g \o k \o e) <= Len(g \o k \o o)
            /\ \A i \in 1..Len(g \o k \o e) : (g \o k \o e)[i] = (g \o k \o o)[i]
        BY <4>2, <4>3, CutOff
      <4>5. Stream(c)' = g \o k \o e /\ Stream(c) = g \o k \o o
        BY <4>1 DEF e, g, k, o
      <4> QED
        BY <3>1, <4>4, <4>5
    <3>2. CASE c # at
      <4>1. Stream(c)' = Stream(c) /\ queue'[c] = queue[c]
        BY <1>2, <2>5, <3>2 DEF Stream
      <4>2. Stream(c) \in Seq(Msg) /\ Len(Stream(c)) \in Nat
        BY StreamTyped, LenProperties
      <4> QED
        BY <4>1, <4>2
    <3> QED
      BY <3>1, <3>2
  <2>7. {at} \in SUBSET Client /\ "freed" \in Ended
    BY <1>1 DEF Ended
  <2> QED
    BY <1>2, <2>1, <2>6, <2>7, FreeStreams
<1>4. CASE ~queue[at].closing
  <2>1. UNCHANGED <<conn, since, queue>>
    BY <1>4 DEF Finish
  <2>2. \A c \in Client : Stream(c)' = Stream(c) /\ (Open(c)' => Open(c))
    BY <1>2, <2>1 DEF Stream, Open
  <2> QED
    BY <1>1, <1>2, <2>1, <2>2, StreamSame
<1> QED
  BY <1>3, <1>4

\* The reap timer, and the end of the daemon.
LEMMA EndStreams == ASSUME IpcInv, IpcInv', StreamInv, OnReap \/ Close PROVE StreamInv'
<1>0. queue \in [Client -> Queue]
  BY DEF IpcInv, OutputType
<1>1. ASSUME NEW c \in Client, UNCHANGED got, queue'[c] = [queue[c] EXCEPT !.out = <<>>] \/ queue'[c] = queue[c]
      PROVE  /\ Stream(c)' \in Seq(Msg) /\ Len(Stream(c)') <= Len(Stream(c))
             /\ \A i \in 1..Len(Stream(c)') : Stream(c)'[i] = Stream(c)[i]
  <2>1. /\ got[c] \in Seq(Msg) /\ queue[c].kernel \in Seq(Msg) /\ queue[c].out \in Seq(Msg)
        /\ Stream(c) \in Seq(Msg) /\ Len(Stream(c)) \in Nat
    BY StreamTyped, LenProperties
  <2>2. CASE queue'[c] = queue[c]
    BY <1>1, <2>1, <2>2 DEF Stream
  <2>3. CASE queue'[c] = [queue[c] EXCEPT !.out = <<>>]
    <3> DEFINE e == queue'[c].out
    <3>1. queue'[c].kernel = queue[c].kernel /\ e = <<>> /\ e \in Seq(Msg)
      BY <1>0, <2>3 DEF Queue
    <3>2. Stream(c)' = got[c] \o queue[c].kernel \o e /\ Stream(c) = got[c] \o queue[c].kernel \o queue[c].out
      BY <1>1, <3>1 DEF Stream
    <3> DEFINE g == got[c]
               k == queue[c].kernel
               o == queue[c].out
    <3>3. g \in Seq(Msg) /\ k \in Seq(Msg) /\ o \in Seq(Msg) /\ e \in Seq(Msg) /\ e = <<>>
      BY <2>1, <3>1
    <3> HIDE DEF e, g, k, o
    <3>4. /\ g \o k \o e \in Seq(Msg) /\ Len(g \o k \o e) <= Len(g \o k \o o)
          /\ \A i \in 1..Len(g \o k \o e) : (g \o k \o e)[i] = (g \o k \o o)[i]
      BY <3>3, CutOff
    <3>5. Stream(c)' = g \o k \o e /\ Stream(c) = g \o k \o o
      BY <3>2 DEF e, g, k, o
    <3> QED
      BY <3>4, <3>5
  <2> QED
    BY <1>1, <2>2, <2>3
<1>2. CASE OnReap
  <2> DEFINE gone == {c \in Live : queue[c].closing}
  <2>1. /\ Free(gone, "freed") /\ UNCHANGED <<got, emitted, handled>>
        /\ queue' = [c \in Client |-> IF c \in Live /\ queue[c].closing
                                      THEN [queue[c] EXCEPT !.out = <<>>] ELSE queue[c]]
    BY <1>2 DEF OnReap
  <2>2. \A c \in Client : c \notin gone => queue'[c] = queue[c]
    BY <2>1
  <2>3. \A c \in Client : c \notin gone => Stream(c)' = Stream(c) /\ queue'[c].closing = queue[c].closing
    BY <2>1, <2>2 DEF Stream
  <2>4. \A c \in Client : queue'[c] = [queue[c] EXCEPT !.out = <<>>] \/ queue'[c] = queue[c]
    BY <2>1
  <2>5. gone \in SUBSET Client /\ "freed" \in Ended
    BY DEF Live, Ended
  <2> HIDE DEF gone
  <2> QED
    BY <1>1, <2>1, <2>3, <2>4, <2>5, FreeStreams
<1>3. CASE Close
  <2>1. /\ Free(Client, "barred") /\ UNCHANGED <<got, emitted, handled>>
        /\ queue' = [c \in Client |-> [queue[c] EXCEPT !.out = <<>>]]
    BY <1>3 DEF Close
  <2>2. "barred" \in Ended /\ \A c \in Client : queue'[c] = [queue[c] EXCEPT !.out = <<>>]
    BY <2>1 DEF Ended
  <2> QED
    BY <1>1, <2>1, <2>2, FreeStreams
<1> QED
  BY <1>2, <1>3

\* What is there is read; a refusal is the last that is said.
LEMMA OnReadableStreams ==
  ASSUME IpcInv, IpcInv', StreamInv, NEW c \in Client, OnReadable(c) PROVE StreamInv'
<1> DEFINE over == Len(in[c] \o wire[c]) > MaxLine
           q == IF over THEN Post(queue[c], c, Refusal) ELSE queue[c]
<1>1. /\ queue' = [queue EXCEPT ![c] = [q EXCEPT !.closing = @ \/ over \/ up[c] # "open"]]
      /\ UNCHANGED <<conn, got, since, emitted, handled>>
  BY DEF OnReadable, client
<1>2. /\ Fits(queue[c]) /\ got[c] \in Seq(Msg) /\ Stream(c) \in Seq(Msg)
      /\ queue \in [Client -> Queue] /\ got \in [Client -> Seq(Msg)]
  BY StreamTyped DEF IpcInv, OutputType, StreamInv
<1>3. Refusal \in Msg /\ Refusal.what = "too_large"
  BY DEF Refusal, Msg
<1>4. q \in Queue /\ (queue[c].closing => q.closing)
  BY <1>2, <1>3, PostFits DEF Fits
<1>5. \/ got[c] \o q.kernel \o q.out = Stream(c)
      \/ over /\ got[c] \o q.kernel \o q.out = Append(Stream(c), Refusal)
  <2>1. CASE over
    <3>1. q = Post(queue[c], c, Refusal)
      BY <2>1
    <3>2. \/ got[c] \o q.kernel \o q.out = got[c] \o queue[c].kernel \o queue[c].out
          \/ got[c] \o q.kernel \o q.out = Append(got[c] \o queue[c].kernel \o queue[c].out, Refusal)
      BY <1>2, <1>3, <3>1, PostStream
    <3> QED
      BY <2>1, <3>2 DEF Stream
  <2>2. CASE ~over
    BY <2>2 DEF Stream
  <2> QED
    BY <2>1, <2>2
<1> HIDE DEF over, q
<1>6. /\ queue'[c].kernel = q.kernel /\ queue'[c].out = q.out
      /\ (queue[c].closing \/ over => queue'[c].closing)
      /\ \A d \in Client : d # c => queue'[d] = queue[d]
  BY <1>1, <1>2, <1>4 DEF Queue
<1>7. CASE got[c] \o q.kernel \o q.out = Stream(c)
  <2>1. \A d \in Client : Stream(d)' = Stream(d) /\ (Open(d)' => Open(d))
    BY <1>1, <1>6, <1>7 DEF Stream, Open
  <2> QED
    BY <1>1, <1>2, <2>1, StreamSame
<1>8. CASE over /\ got[c] \o q.kernel \o q.out = Append(Stream(c), Refusal)
  <2>1. ~Open(c)' /\ Stream(c)' = Append(Stream(c), Refusal)
    BY <1>1, <1>6, <1>8 DEF Stream, Open
  <2>2. RepliesSo(Stream(c), handled[c]) /\ EventsSo(Stream(c), emitted)
    BY DEF StreamInv
  <2>3. RepliesSo(Append(Stream(c), Refusal), handled[c]) /\ EventsSo(Append(Stream(c), Refusal), emitted)
    BY <1>2, <1>3, <2>2, RepliesApart, EventsApart
  <2>4. RepliesSo(Stream(c)', handled'[c]) /\ EventsSo(Stream(c)', emitted')
    BY <1>1, <2>1, <2>3
  <2>5. \A d \in Client : d # c => Stream(d)' = Stream(d) /\ (Open(d)' => Open(d))
    BY <1>1, <1>6 DEF Stream, Open
  <2>6. ASSUME NEW d \in Client
        PROVE  /\ RepliesSo(Stream(d)', handled'[d]) /\ EventsSo(Stream(d)', emitted')
               /\ Open(d)' => /\ AllReplied(Stream(d)', handled'[d])
                              /\ since'[d] >= 0 => AllTold(Stream(d)', since'[d], emitted')
    <3>1. CASE d = c
      BY <2>1, <2>4, <3>1
    <3>2. CASE d # c
      BY <1>1, <2>5, <3>2 DEF StreamInv
    <3> QED
      BY <3>1, <3>2
  <2> QED
    BY <1>1, <1>2, <2>6, StreamsAfter DEF StreamInv
<1> QED
  BY <1>5, <1>7, <1>8

\* What a client's stream is once the events of a request are out, before its reply.
Midway(told, e, c) ==
  LET t == got[c] \o told[c].kernel \o told[c].out IN
  /\ t \in Seq(Msg) /\ RepliesSo(t, handled[c]) /\ EventsSo(t, e)
  /\ queue[c].closing => told[c].closing
  /\ Open(c) => AllReplied(t, handled[c])
  /\ conn[c] \notin Ended /\ ~told[c].closing /\ since[c] >= 0 => AllTold(t, since[c], e)

\* ipc_broadcast tells each subscriber, or marks it.
LEMMA BroadcastStreams ==
  ASSUME IpcInv, StreamInv, NEW c \in Client
  PROVE  Midway(Broadcast(Event(emitted + 1)), emitted + 1, c)
<1> DEFINE told == Broadcast(Event(emitted + 1))
           s == Stream(c)
           t == got[c] \o told[c].kernel \o told[c].out
<1>1. /\ s \in Seq(Msg) /\ emitted \in Nat /\ Fits(queue[c]) /\ got[c] \in Seq(Msg)
      /\ handled[c] \in Nat /\ since[c] \in Int /\ since[c] <= emitted
  BY StreamTyped
<1>2. /\ RepliesSo(s, handled[c]) /\ EventsSo(s, emitted)
      /\ Open(c) => AllReplied(s, handled[c]) /\ (since[c] >= 0 => AllTold(s, since[c], emitted))
      /\ since[c] >= 0 => conn[c] = "on"
  BY DEF StreamInv
<1>3. Event(emitted + 1) \in Msg /\ Event(emitted + 1).what = "event"
  BY <1>1 DEF Event, Msg
<1>4. OutputType
  BY DEF IpcInv
<1>5. queue[c].closing => told[c].closing
  BY <1>3, <1>4, BroadcastFits
<1>6. EventsSo(s, emitted + 1)
  BY <1>1, <1>2 DEF EventsSo
<1> HIDE DEF told
<1>7. \/ t = s /\ (told[c].closing \/ ~(since[c] >= 0 /\ conn[c] \notin Ended))
      \/ t = Append(s, Event(emitted + 1))
  <2>1. CASE c \in Live /\ since[c] >= 0 /\ ~queue[c].closing
    <3>1. told[c] = Post(queue[c], c, Event(emitted + 1))
      BY <2>1 DEF Broadcast, told
    <3>2. \/ t = got[c] \o queue[c].kernel \o queue[c].out /\ told[c].closing
          \/ t = Append(got[c] \o queue[c].kernel \o queue[c].out, Event(emitted + 1))
      <4> DEFINE m == Event(emitted + 1)
                 p == Post(queue[c], c, m)
      <4>1. m \in Msg
        BY <1>3
      <4> HIDE DEF m
      <4>2. \/ got[c] \o p.kernel \o p.out = got[c] \o queue[c].kernel \o queue[c].out /\ p.closing
            \/ got[c] \o p.kernel \o p.out = Append(got[c] \o queue[c].kernel \o queue[c].out, m)
        BY <1>1, <4>1, PostStream
      <4> QED
        BY <3>1, <4>2 DEF m
    <3> QED
      BY <3>2 DEF Stream, s
  <2>2. CASE ~(c \in Live /\ since[c] >= 0 /\ ~queue[c].closing)
    <3>1. told[c] = queue[c]
      BY <2>2 DEF Broadcast, told
    <3>2. told[c].closing \/ ~(since[c] >= 0 /\ conn[c] \notin Ended)
      BY <1>2, <2>2, <3>1 DEF Live
    <3> QED
      BY <3>1, <3>2 DEF Stream
  <2> QED
    BY <2>1, <2>2
<1> HIDE DEF s
<1>8. CASE t = s /\ (told[c].closing \/ ~(since[c] >= 0 /\ conn[c] \notin Ended))
  <2>1. Midway(told, emitted + 1, c)
    BY <1>1, <1>2, <1>5, <1>6, <1>8 DEF Midway
  <2> QED
    BY <2>1 DEF told
<1>9. CASE t = Append(s, Event(emitted + 1))
  <2>1. t \in Seq(Msg)
    BY <1>1, <1>3, <1>9, AppendProperties
  <2>2. RepliesSo(t, handled[c]) /\ (AllReplied(s, handled[c]) => AllReplied(t, handled[c]))
    BY <1>1, <1>2, <1>3, <1>9, RepliesApart
  <2>3. /\ EventsSo(t, emitted + 1)
        /\ \A f \in Nat : f <= emitted /\ AllTold(s, f, emitted) => AllTold(t, f, emitted + 1)
    BY <1>1, <1>2, <1>9, EventAdded
  <2>4. ASSUME conn[c] \notin Ended, ~told[c].closing, since[c] >= 0
        PROVE  AllTold(t, since[c], emitted + 1)
    <3>1. Open(c) /\ since[c] \in Nat
      BY <1>1, <1>5, <2>4 DEF Open
    <3> QED
      BY <1>1, <1>2, <2>3, <2>4, <3>1
  <2>5. Midway(told, emitted + 1, c)
    BY <1>2, <1>5, <2>1, <2>2, <2>3, <2>4 DEF Midway
  <2> QED
    BY <2>5 DEF told
<1> QED
  BY <1>7, <1>8, <1>9

\* handle_line: the events of the request, then its reply.
LEMMA HandleLineStreams == ASSUME IpcInv, IpcInv', StreamInv, HandleLine PROVE StreamInv'
<1>0. PICK c \in Client : c = at /\ conn[c] = "on" /\ ~queue[c].closing
  BY DEF HandleLine, IpcInv, ServerType
<1>1. handled' = [handled EXCEPT ![c] = @ + 1]
  BY <1>0, HandleLineKeeps
<1>2. PICK told : /\ queue' = [told EXCEPT ![c] = Post(@, c, Reply(handled[c] + 1))]
                  /\ told \in [Client -> Queue] /\ Fits(told[c])
                  /\ \/ told = queue /\ emitted' = emitted
                     \/ told = Broadcast(Event(emitted + 1)) /\ emitted' = emitted + 1
  BY <1>0, HandleLineKeeps
<1>3. UNCHANGED <<conn, got>> /\ got \in [Client -> Seq(Msg)]
  BY DEF HandleLine, StreamInv, client
<1>4. \A d \in Client : Midway(told, emitted', d)
  <2>1. CASE told = queue /\ emitted' = emitted
    <3>1. \A d \in Client : Stream(d) \in Seq(Msg)
      BY StreamTyped
    <3> QED
      BY <2>1, <3>1 DEF Midway, StreamInv, Stream, Open
  <2>2. CASE told = Broadcast(Event(emitted + 1)) /\ emitted' = emitted + 1
    BY <2>2, BroadcastStreams
  <2> QED
    BY <1>2, <2>1, <2>2
<1>5. /\ \A d \in Client \ {c} : since'[d] = since[d]
      /\ since'[c] \in {since[c], -1, emitted'} /\ emitted' \in Nat
      /\ since[c] \in Int
  <2>1. emitted' \in Nat /\ since \in [Client -> -1..emitted] /\ emitted \in Nat
    BY DEF IpcInv, ServerType
  <2> DEFINE k == CHOOSE j \in Complete(c) : \A i \in Complete(c) : j <= i
             kind == in[c][k].kind
  <2>4. kind = "hello" => emitted' = emitted
    BY <1>0 DEF HandleLine
  <2>2. PICK on \in BOOLEAN : since' = IF kind = "hello" THEN Subscribed(c, on) ELSE since
    BY <1>0 DEF HandleLine
  <2> HIDE DEF kind
  <2>3. /\ \A d \in Client \ {c} : Subscribed(c, on)[d] = since[d]
        /\ Subscribed(c, on)[c] \in {since[c], -1, emitted}
    BY <2>1 DEF Subscribed
  <2> QED
    BY <2>1, <2>2, <2>3, <2>4
<1>6. ASSUME NEW d \in Client, d # c
      PROVE  /\ RepliesSo(Stream(d)', handled'[d]) /\ EventsSo(Stream(d)', emitted')
             /\ Open(d)' => /\ AllReplied(Stream(d)', handled'[d])
                            /\ since'[d] >= 0 => AllTold(Stream(d)', since'[d], emitted')
  <2>1. queue'[d] = told[d] /\ handled'[d] = handled[d] /\ since'[d] = since[d] /\ conn'[d] = conn[d]
    BY <1>1, <1>2, <1>3, <1>5, <1>6 DEF IpcInv, ServerType
  <2>2. Stream(d)' = got[d] \o told[d].kernel \o told[d].out
    BY <1>3, <2>1 DEF Stream
  <2>3. Midway(told, emitted', d)
    BY <1>4
  <2> QED
    BY <2>1, <2>2, <2>3 DEF Midway, Open
<1>7. /\ RepliesSo(Stream(c)', handled'[c]) /\ EventsSo(Stream(c)', emitted')
      /\ Open(c)' => /\ AllReplied(Stream(c)', handled'[c])
                     /\ since'[c] >= 0 => AllTold(Stream(c)', since'[c], emitted')
  <2> DEFINE t == got[c] \o told[c].kernel \o told[c].out
             m == Reply(handled[c] + 1)
             s == Stream(c)'
  <2>1. /\ t \in Seq(Msg) /\ RepliesSo(t, handled[c]) /\ EventsSo(t, emitted') /\ AllReplied(t, handled[c])
        /\ ~told[c].closing /\ since[c] >= 0 => AllTold(t, since[c], emitted')
    BY <1>0, <1>4 DEF Midway, Open, Ended
  <2>2. handled[c] \in Nat /\ handled'[c] = handled[c] + 1 /\ got[c] \in Seq(Msg)
    BY <1>1, StreamTyped DEF IpcInv, ServerType
  <2>3. m \in Msg /\ m.what = "reply"
    BY <2>2 DEF Reply, Msg
  <2>4. queue'[c] = Post(told[c], c, m)
    BY <1>2
  <2>5. /\ (s = t /\ queue'[c].closing) \/ s = Append(t, m)
        /\ told[c].closing => queue'[c].closing
    BY <1>2, <1>3, <2>2, <2>3, <2>4, PostStream, PostFits DEF Stream
  <2> HIDE DEF s, t
  <2>6. CASE s = t /\ queue'[c].closing
    <3>1. RepliesSo(t, handled[c] + 1)
      BY <2>1, <2>2 DEF RepliesSo
    <3>2. ~Open(c)'
      BY <2>6 DEF Open
    <3> QED
      BY <2>1, <2>2, <2>6, <3>1, <3>2 DEF s
  <2>7. CASE s = Append(t, m)
    <3>1. RepliesSo(s, handled[c] + 1) /\ AllReplied(s, handled[c] + 1)
      BY <2>1, <2>2, <2>7, ReplyAdded
    <3>2. EventsSo(s, emitted') /\ \A f : AllTold(t, f, emitted') => AllTold(s, f, emitted')
      BY <2>1, <2>3, <2>7, EventsApart
    <3>3. ASSUME Open(c)', since'[c] >= 0 PROVE AllTold(s, since'[c], emitted')
      <4>1. ~told[c].closing
        BY <2>5, <3>3 DEF Open
      <4>2. CASE since'[c] = since[c]
        BY <2>1, <3>2, <3>3, <4>1, <4>2
      <4>3. CASE since'[c] = emitted'
        <5>1. \A f \in Nat : AllTold(s, f, f)
          BY DEF AllTold
        <5> QED
          BY <1>5, <4>3, <5>1
      <4> QED
        BY <1>5, <3>3, <4>2, <4>3
    <3> QED
      BY <2>2, <3>1, <3>2, <3>3 DEF s
  <2> QED
    BY <2>5, <2>6, <2>7
<1>8. \A d \in Client : since'[d] >= 0 => conn'[d] = "on"
  <2>1. ASSUME NEW d \in Client, d # c, since'[d] >= 0 PROVE conn'[d] = "on"
    BY <1>3, <1>5, <2>1 DEF StreamInv
  <2> QED
    BY <1>0, <1>3, <2>1
<1> QED
  BY <1>3, <1>6, <1>7, <1>8, StreamsAfter

\* Nothing was said yet.
LEMMA StreamInit == Init => StreamInv
<1> SUFFICES ASSUME Init PROVE StreamInv
  OBVIOUS
<1>1. ASSUME NEW c \in Client PROVE Stream(c) = <<>>
  <2>1. got[c] = <<>> /\ queue[c].kernel = <<>> /\ queue[c].out = <<>>
    BY DEF Init
  <2>2. \A e \in Seq(Msg) : e = <<>> => e \o e \o e = e
    BY ConcatEmptySeq
  <2>3. <<>> \in Seq(Msg)
    OBVIOUS
  <2> QED
    BY <2>1, <2>2, <2>3 DEF Stream
<1>2. \A c \in Client : Len(Stream(c)) = 0 /\ handled[c] = 0 /\ since[c] = -1
  BY <1>1 DEF Init
<1>3. got \in [Client -> Seq(Msg)]
  BY DEF Init
<1>4. \A c \in Client : /\ RepliesSo(Stream(c), handled[c]) /\ EventsSo(Stream(c), emitted)
                        /\ AllReplied(Stream(c), handled[c]) /\ ~(since[c] >= 0)
  BY <1>2 DEF RepliesSo, EventsSo, Rising, AllReplied
<1> QED
  BY <1>3, <1>4 DEF StreamInv

\* A step, by its actions.
LEMMA StreamStep == IpcInv /\ IpcInv' /\ StreamInv /\ [Next]_vars => StreamInv'
<1> SUFFICES ASSUME IpcInv, IpcInv', StreamInv, [Next]_vars PROVE StreamInv'
  OBVIOUS
<1>1. CASE UNCHANGED vars
  <2>1. UNCHANGED <<conn, got, queue, handled, emitted, since>> /\ got \in [Client -> Seq(Msg)]
    BY <1>1 DEF vars, StreamInv
  <2>2. \A c \in Client : Stream(c)' = Stream(c) /\ (Open(c)' => Open(c))
    BY <2>1 DEF Stream, Open
  <2> QED
    BY <2>1, <2>2, StreamSame
<1> QED
  BY <1>1, OuterStreams, OnWritableStreams, OnReadableStreams, HandleLineStreams, FinishStreams,
     EndStreams DEF Next

\* The numbers of a sort of message in a stream.
LEMMA NumbersAre ==
  ASSUME NEW s \in Seq(Msg), NEW what
  PROVE  \A n : n \in Numbers(what, s) <=> \E i \in 1..Len(s) : s[i].what = what /\ s[i].n = n
<1>1. \A x : x \in ToSet(s) <=> \E i \in 1..Len(s) : s[i] = x
  BY LenProperties DEF ToSet
<1> QED
  BY <1>1 DEF Numbers

\* The replies in a stream are those to the first requests.
LEMMA FirstReplies ==
  ASSUME NEW s \in Seq(Msg), NEW h \in Nat, RepliesSo(s, h)
  PROVE  /\ \E k \in 0..h : Numbers("reply", s) = 1..k
         /\ AllReplied(s, h) => Numbers("reply", s) = 1..h
<1> DEFINE N == Numbers("reply", s)
<1>1. \A n : n \in N <=> \E i \in 1..Len(s) : s[i].what = "reply" /\ s[i].n = n
  BY NumbersAre
<1> HIDE DEF N
<1>2. \A n \in Nat : Reply(n).what = "reply" /\ Reply(n).n = n
  BY DEF Reply
<1>3. ASSUME NEW n \in N PROVE n \in 1..h /\ \A m \in 1..n : m \in N
  <2>1. PICK i \in 1..Len(s) : s[i].what = "reply" /\ s[i].n = n
    BY <1>1
  <2>2. n \in 1..h /\ \A m \in 1..n : \E j \in 1..Len(s) : j <= i /\ s[j] = Reply(m)
    BY <2>1 DEF RepliesSo
  <2>3. ASSUME NEW m \in 1..n PROVE m \in N
    <3>1. PICK j \in 1..Len(s) : s[j] = Reply(m)
      BY <2>2
    <3>2. m \in Nat
      BY <2>2
    <3> QED
      BY <1>1, <1>2, <3>1, <3>2
  <2> QED
    BY <2>2, <2>3
<1>4. \E k \in 0..h : N = 1..k
  <2> DEFINE S == {m \in Nat : m >= 1 /\ m \notin N}
  <2>1. h + 1 \in S
    BY <1>3
  <2>2. PICK m \in S : \A i \in S : m <= i
    <3>1. S \in SUBSET Nat /\ S # {}
      BY <2>1
    <3> QED
      BY <3>1, LeastLine
  <2>3. m - 1 \in 0..h
    BY <2>1, <2>2
  <2>4. ASSUME NEW n \in 1..(m - 1) PROVE n \in N
    <3>1. n \in Nat /\ n >= 1 /\ ~(m <= n)
      BY <2>2
    <3>2. n \notin S
      BY <2>2, <3>1
    <3> QED
      BY <3>1, <3>2
  <2>5. ASSUME NEW n \in N PROVE n \in 1..(m - 1)
    <3>1. n \in 1..h /\ (m <= n => m \in N)
      BY <1>3, <2>2
    <3> QED
      BY <2>2, <3>1
  <2> QED
    BY <2>3, <2>4, <2>5
<1>5. ASSUME AllReplied(s, h) PROVE N = 1..h
  <2>1. ASSUME NEW n \in 1..h PROVE n \in N
    <3>1. PICK j \in 1..Len(s) : s[j] = Reply(n)
      BY <1>5 DEF AllReplied
    <3> QED
      BY <1>1, <1>2, <3>1
  <2> QED
    BY <1>3, <2>1
<1> QED
  BY <1>4, <1>5 DEF N

\* The lines on their way are the requests not handled yet.
LEMMA LinesLeft ==
  ASSUME IpcInv, NEW c \in Client, conn[c] \notin Ended,
         NEW rest, rest = in[c] \o wire[c], NEW lines, lines = {i \in 1..Len(rest) : rest[i].last}
  PROVE  /\ {rest[i].n : i \in lines} = (handled[c] + 1)..sent[c]
         /\ \A i, j \in lines : i < j => rest[i].n < rest[j].n
<1>1. in[c] \in Seq(Piece) /\ wire[c] \in Seq(Piece)
  BY DEF IpcInv, InputType
<1>2. rest \in Seq(Piece)
  BY <1>1, Joined
<1>3. Sorted(rest) /\ Between(rest, handled[c], sent[c]) /\ Kept(rest, handled[c], sent[c])
  BY DEF IpcInv, LinesHeld, Lines, NothingLost, Line
<1>4. ASSUME NEW i \in 1..Len(rest) PROVE rest[i].n \in 1..MaxRequests
  <2>1. rest[i] \in Piece
    BY <1>2, ElementOfSeq
  <2> QED
    BY <2>1 DEF Piece
<1>5. handled[c] \in 0..MaxRequests /\ sent[c] \in 0..MaxRequests
  BY DEF IpcInv, ServerType
<1>6. ASSUME NEW i \in lines PROVE rest[i].n \in (handled[c] + 1)..sent[c]
  <2>1. i \in 1..Len(rest) /\ rest[i].last
    OBVIOUS
  <2>2. handled[c] < rest[i].n /\ rest[i].n <= sent[c]
    BY <1>3, <2>1 DEF Between
  <2>3. handled[c] \in Int /\ sent[c] \in Int
    BY <1>5
  <2>4. rest[i].n \in 1..MaxRequests
    BY <1>4, <2>1
  <2> QED
    BY <2>2, <2>3, <2>4
<1>7. \A n \in (handled[c] + 1)..sent[c] : \E i \in lines : rest[i].n = n
  BY <1>3 DEF Kept
<1>8. \A i, j \in lines : i < j => rest[i].n < rest[j].n
  BY <1>3 DEF Sorted
<1>9. {rest[i].n : i \in lines} \subseteq (handled[c] + 1)..sent[c]
  BY <1>6
<1>10. (handled[c] + 1)..sent[c] \subseteq {rest[i].n : i \in lines}
  BY <1>7
<1> QED
  BY <1>8, <1>9, <1>10

\* The streams are as they should be.
LEMMA StreamsOrdered == IpcInv /\ StreamInv => RepliesInOrder /\ NoGaps
<1> SUFFICES ASSUME IpcInv, StreamInv PROVE RepliesInOrder /\ NoGaps
  OBVIOUS
<1>1. ASSUME NEW c \in Client
      PROVE  /\ Stream(c) \in Seq(Msg) /\ handled[c] \in Nat /\ emitted \in Nat
             /\ RepliesSo(Stream(c), handled[c]) /\ EventsSo(Stream(c), emitted)
             /\ InService(c) => /\ AllReplied(Stream(c), handled[c]) /\ conn[c] \notin Ended
                                /\ since[c] >= 0 => AllTold(Stream(c), since[c], emitted)
  BY StreamTyped DEF StreamInv, InService, Live, Open, Ended
<1>2. ASSUME NEW c \in Client
      PROVE  /\ Rising("reply", Stream(c))
             /\ \E k \in 0..handled[c] : Numbers("reply", Stream(c)) = 1..k
             /\ InService(c) => Numbers("reply", Stream(c)) = 1..handled[c]
  <2>1. Rising("reply", Stream(c))
    BY <1>1 DEF RepliesSo
  <2> QED
    BY <1>1, <2>1, FirstReplies
<1>3. RepliesInOrder
  BY <1>1, <1>2, LinesLeft DEF RepliesInOrder
<1>4. ASSUME NEW c \in Client
      PROVE  /\ Rising("event", Stream(c)) /\ Numbers("event", Stream(c)) \subseteq 1..emitted
             /\ InService(c) /\ since[c] >= 0 =>
                  (since[c] + 1)..emitted \subseteq Numbers("event", Stream(c))
  <2>1. \A n : n \in Numbers("event", Stream(c)) <=>
                 \E i \in 1..Len(Stream(c)) : Stream(c)[i].what = "event" /\ Stream(c)[i].n = n
    BY <1>1, NumbersAre
  <2>2. Rising("event", Stream(c)) /\ Numbers("event", Stream(c)) \subseteq 1..emitted
    BY <1>1, <2>1 DEF EventsSo
  <2>3. ASSUME InService(c), since[c] >= 0, NEW n \in (since[c] + 1)..emitted
        PROVE  n \in Numbers("event", Stream(c))
    <3>1. PICK j \in 1..Len(Stream(c)) : Stream(c)[j] = Event(n)
      BY <1>1, <2>3 DEF AllTold
    <3>2. Event(n).what = "event" /\ Event(n).n = n
      BY DEF Event
    <3> QED
      BY <2>1, <3>1, <3>2
  <2> QED
    BY <2>2, <2>3
<1>5. NoGaps
  BY <1>4 DEF NoGaps
<1> QED
  BY <1>3, <1>5

\* The invariant of the streams.
LEMMA StreamInvariant == Spec => []StreamInv
<1>1. Init => StreamInv
  BY StreamInit
<1>2. IpcInv /\ IpcInv' /\ StreamInv /\ [Next]_vars => StreamInv'
  BY StreamStep
<1> QED
  BY <1>1, <1>2, IpcInvariant, PTL DEF Spec

\* Every request of a client that is served gets exactly one reply, in the order of the
\* requests, and what a client gets otherwise is the beginning of that (send_json).
THEOREM RepliesOrdered == Spec => []RepliesInOrder
<1>1. IpcInv /\ StreamInv => RepliesInOrder
  BY StreamsOrdered
<1> QED
  BY <1>1, IpcInvariant, StreamInvariant, PTL

\* A subscriber that is served has every event since it subscribed, once and in order;
\* one that cannot be told is cut off (ipc_broadcast).
THEOREM EventsComplete == Spec => []NoGaps
<1>1. IpcInv /\ StreamInv => NoGaps
  BY StreamsOrdered
<1> QED
  BY <1>1, IpcInvariant, StreamInvariant, PTL
=============================================================================
