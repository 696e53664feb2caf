----------------------------- MODULE PopupProofs -----------------------------
(***************************************************************************)
(* The popup's line to the daemon, for any groups and any number of things *)
(* that happen: every call has its request or its answer on the way, and   *)
(* just one of them, through deaths of the daemon and new sockets; and     *)
(* nothing the popup has to learn is forgotten.                            *)
(***************************************************************************)
EXTENDS Popup, TLAPS, SequenceTheorems, WellFoundedInduction

Asked == [cb : Callback, at : View, gRows : Version]

\* A call with number n and callback cb waits on the present socket.
Waits(P, n, cb) == \E p \in P : p.rid = n /\ p.cb = cb /\ ~p.gone

\* No two messages of s are of one call.
Once(s) == \A i, j \in 1..Len(s) : s[i].rid = s[j].rid /\ s[i].rid # 0 => i = j

\* Calls differ in their numbers, and these are bounded: there is a next one.
Numbered(P) ==
  /\ P \subseteq Waiting /\ \E b \in Nat : \A p \in P : p.rid <= b
  /\ \A p, q \in P : p.rid = q.rid => p = q

\* Answers and events, each answer with its call.
Answers(P, ui) ==
  /\ ui \in Seq(Message) /\ Once(ui)
  /\ \A i \in 1..Len(ui) : ui[i].rid # 0 => Waits(P, ui[i].rid, ui[i].op)

Requests(P, dm) ==
  /\ dm \in Seq(Request) /\ Once(dm)
  /\ \A j \in 1..Len(dm) : dm[j].rid # 0 /\ Waits(P, dm[j].rid, dm[j].cb)

\* No call is answered and still asked.
Apart(ui, dm) == \A i \in 1..Len(ui), j \in 1..Len(dm) : ui[i].rid # dm[j].rid

\* No call made on the present socket is forgotten.
Carried(P, ui, dm) ==
  \A p \in P : \/ p.gone
               \/ \E i \in 1..Len(ui) : ui[i].rid = p.rid
               \/ \E j \in 1..Len(dm) : dm[j].rid = p.rid

\* The calls P with what is on its way, whole unless the daemon's end is shut.
Sound(P, ui, dm, shut) ==
  /\ Numbered(P) /\ Answers(P, ui) /\ Requests(P, dm) /\ Apart(ui, dm)
  /\ ~shut => Carried(P, ui, dm)

-----------------------------------------------------------------------------
(* Sequences and numbers. *)

LEMMA LeastNat == ASSUME NEW S \in SUBSET Nat, S # {} PROVE \E m \in S : \A n \in S : m <= n
<1>1. PICK m \in S : \A n \in S : <<n, m>> \notin OpToRel(<, Nat)
  BY NatLessThanWellFounded, WFMin
<1>2. \A n \in S : ~(n < m)
  BY <1>1 DEF OpToRel
<1> QED
  BY <1>2

\* What stands where in r when it is s and then t.
Joins(r, s, t) ==
  /\ Len(r) = Len(s) + Len(t) /\ Len(s) \in Nat /\ Len(t) \in Nat
  /\ \A i \in 1..Len(s) : r[i] = s[i]
  /\ \A i \in 1..Len(t) : r[Len(s) + i] = t[i]
  /\ \A i \in 1..Len(r) : i \in 1..Len(s) \/ (i - Len(s) \in 1..Len(t) /\ r[i] = t[i - Len(s)])

LEMMA Joined == \A S : \A s, t \in Seq(S) : s \o t \in Seq(S) /\ Joins(s \o t, s, t)
<1> SUFFICES ASSUME NEW S, NEW s \in Seq(S), NEW t \in Seq(S), NEW r, r = s \o t
             PROVE  r \in Seq(S) /\ Joins(r, s, t)
  OBVIOUS
<1>1. /\ r \in Seq(S) /\ Len(r) = Len(s) + Len(t)
      /\ \A i \in 1..Len(s) + Len(t) : r[i] = IF i <= Len(s) THEN s[i] ELSE t[i - Len(s)]
  BY ConcatProperties
<1>2. Len(s) \in Nat /\ Len(t) \in Nat
  OBVIOUS
<1>3. \A i \in 1..Len(s) : r[i] = s[i]
  BY <1>1, <1>2
<1>4. ASSUME NEW i \in 1..Len(t) PROVE r[Len(s) + i] = t[i]
  <2>1. Len(s) + i \in 1..Len(s) + Len(t) /\ ~(Len(s) + i <= Len(s)) /\ Len(s) + i - Len(s) = i
    BY <1>2
  <2> QED
    BY <1>1, <2>1
<1>5. ASSUME NEW i \in 1..Len(r), i \notin 1..Len(s)
      PROVE  i - Len(s) \in 1..Len(t) /\ r[i] = t[i - Len(s)]
  <2>1. i \in 1..Len(s) + Len(t) /\ ~(i <= Len(s)) /\ i - Len(s) \in 1..Len(t)
    BY <1>1, <1>2, <1>5
  <2> QED
    BY <1>1, <2>1
<1> QED
  BY <1>1, <1>2, <1>3, <1>4, <1>5 DEF Joins

LEMMA AsSequence ==
  ASSUME NEW S, NEW n \in Nat, NEW f \in [1..n -> S]
  PROVE  f \in Seq(S) /\ Len(f) = n
  BY SeqDef

\* The highest number waiting exists.
LEMMA HighestBounds ==
  ASSUME NEW P, Numbered(P)
  PROVE  Highest(P) \in Nat /\ \A p \in P : p.rid <= Highest(P)
<1> DEFINE S == Rids(P) \cup {0}
           U == {u \in Nat : \A j \in S : j <= u}
<1>1. S \in SUBSET Nat /\ 0 \in S
  BY DEF Numbered, Waiting, Rids
<1>2. PICK b \in Nat : \A p \in P : p.rid <= b
  BY DEF Numbered
<1>3. b \in U
  BY <1>2 DEF Rids
<1> HIDE DEF S
<1>4. PICK m \in U : \A n \in U : m <= n
  BY <1>3, LeastNat
<1>5. m \in Nat /\ \A j \in S : j <= m
  BY <1>4
<1>6. m \in S
  <2> SUFFICES ASSUME m \notin S PROVE FALSE
    OBVIOUS
  <2>1. m # 0 /\ \A j \in S : j < m
    BY <1>1, <1>5
  <2>2. m - 1 \in U
    BY <1>1, <1>5, <2>1
  <2> QED
    BY <1>4, <1>5, <2>2
<1>7. \E i \in S : \A j \in Rids(P) : j <= i
  BY <1>5, <1>6 DEF S
<1>8. Highest(P) \in S /\ \A j \in Rids(P) : j <= Highest(P)
  BY <1>7 DEF Highest, S
<1> QED
  BY <1>1, <1>8 DEF Rids

-----------------------------------------------------------------------------
(* What becomes of the calls. *)

\* The calls cs, and their requests.
Made(P, cs) == {[rid |-> Fresh(P, k), cb |-> cs[k].cb, gone |-> FALSE] : k \in DOMAIN cs}
Written(P, cs) == [k \in DOMAIN cs |-> [rid |-> Fresh(P, k), cb |-> cs[k].cb, at |-> cs[k].at, gRows |-> cs[k].gRows]]

\* A new call has a number above those of all calls waiting, and its request is
\* the last on its way (call).
LEMMA NewCalls ==
  ASSUME NEW P, NEW ui, NEW dm, NEW shut, Sound(P, ui, dm, shut), NEW cs \in Seq(Asked),
         NEW Q, Q = P \cup Made(P, cs), NEW d, d = dm \o Written(P, cs)
  PROVE  Sound(Q, ui, d, shut) /\ \A p \in Q : p.gone => p \in P
<1> DEFINE h == Highest(P)
           n == Len(cs)
           call == [k \in 1..n |-> [rid |-> h + k, cb |-> cs[k].cb, gone |-> FALSE]]
           new == [k \in 1..n |-> [rid |-> h + k, cb |-> cs[k].cb, at |-> cs[k].at, gRows |-> cs[k].gRows]]
<1>1. h \in Nat /\ \A p \in P : p.rid <= h
  BY HighestBounds DEF Sound
<1>2. DOMAIN cs = 1..n /\ n \in Nat
  OBVIOUS
<1>3. d = dm \o new
  BY <1>2 DEF Fresh, Written
<1>4. Q = P \cup {call[k] : k \in 1..n}
  BY <1>2 DEF Fresh, Made
<1> HIDE DEF h, n
<1>5. \A k \in 1..n : k \in Nat /\ k >= 1 /\ cs[k] \in Asked
  BY <1>2, ElementOfSeq DEF n
<1>6. \A k \in 1..n : /\ call[k] \in Waiting /\ call[k].rid = h + k /\ call[k].gone = FALSE
                       /\ new[k] \in Request /\ new[k].rid = h + k /\ new[k].cb = call[k].cb
  BY <1>1, <1>5 DEF Asked, Waiting, Request
<1>7. call = [k \in 1..n |-> call[k]] /\ new = [k \in 1..n |-> new[k]]
  OBVIOUS
<1> HIDE DEF call, new
<1>8. call \in [1..n -> Waiting] /\ new \in [1..n -> Request]
  BY <1>6, <1>7
<1>9. new \in Seq(Request) /\ Len(new) = n /\ n \in Nat
  BY <1>2, <1>8, AsSequence
<1>10. dm \in Seq(Request)
  BY DEF Sound, Requests
<1>11. d \in Seq(Request) /\ Joins(d, dm, new)
  BY <1>3, <1>9, <1>10, Joined, Zenon
<1>12. \A k \in 1..n : k \in Nat /\ k >= 1 /\ k <= n /\ n \in Nat
  BY <1>2
<1>13. P \subseteq Waiting /\ \A p \in P : p.rid \in Nat /\ p.rid # 0
  BY DEF Sound, Numbered, Waiting
<1>14. ui \in Seq(Message) /\ dm \in Seq(Request)
  BY DEF Sound, Answers, Requests
<1>15. /\ d \in Seq(Request) /\ Len(d) = Len(dm) + n /\ Len(dm) \in Nat
       /\ \A j \in 1..Len(dm) : d[j] = dm[j]
       /\ \A k \in 1..n : d[Len(dm) + k] = new[k]
       /\ \A j \in 1..Len(d) : j \in 1..Len(dm) \/ (j - Len(dm) \in 1..n /\ d[j] = new[j - Len(dm)])
  BY <1>9, <1>11 DEF Joins
<1>16. \A m, cb : Waits(P, m, cb) => Waits(Q, m, cb) /\ m \in Nat /\ m # 0 /\ m <= h
  BY <1>1, <1>4, <1>13 DEF Waits
<1>17. ASSUME NEW k \in 1..n PROVE Waits(Q, h + k, new[k].cb) /\ h + k \in Nat /\ h + k > h
  <2>1. call[k] \in Q /\ call[k].rid = h + k /\ ~call[k].gone /\ call[k].cb = new[k].cb
    BY <1>4, <1>6
  <2> QED
    BY <1>1, <1>12, <2>1 DEF Waits
<1>18. Numbered(Q)
  <2>1. Q \subseteq Waiting
    BY <1>4, <1>6, <1>13
  <2>2. ASSUME NEW p \in Q PROVE p.rid <= h + n
    <3>1. CASE p \in P
      BY <1>1, <1>9, <1>13, <3>1
    <3>2. CASE p \notin P
      <4>1. PICK k \in 1..n : p = call[k]
        BY <1>4, <3>2
      <4> QED
        BY <1>1, <1>6, <1>12, <4>1
    <3> QED
      BY <3>1, <3>2
  <2>3. ASSUME NEW p \in Q, NEW q \in Q, p.rid = q.rid PROVE p = q
    <3>1. CASE p \in P /\ q \in P
      BY <2>3, <3>1 DEF Sound, Numbered
    <3>2. CASE p \in P /\ q \notin P
      <4>1. PICK k \in 1..n : q = call[k]
        BY <1>4, <3>2
      <4>2. q.rid = h + k /\ p.rid <= h /\ p.rid \in Nat /\ k \in Nat /\ k >= 1
        BY <1>1, <1>6, <1>12, <1>13, <3>2, <4>1
      <4> QED
        BY <1>1, <2>3, <4>2
    <3>3. CASE p \notin P /\ q \in P
      <4>1. PICK k \in 1..n : p = call[k]
        BY <1>4, <3>3
      <4>2. p.rid = h + k /\ q.rid <= h /\ q.rid \in Nat /\ k \in Nat /\ k >= 1
        BY <1>1, <1>12, <1>6, <1>13, <3>3, <4>1
      <4> QED
        BY <1>1, <2>3, <4>2
    <3>4. CASE p \notin P /\ q \notin P
      <4>1. PICK k \in 1..n : p = call[k]
        BY <1>4, <3>4
      <4>2. PICK l \in 1..n : q = call[l]
        BY <1>4, <3>4
      <4>3. k = l
        BY <1>1, <1>12, <1>6, <2>3, <4>1, <4>2
      <4> QED
        BY <4>1, <4>2, <4>3
    <3> QED
      BY <3>1, <3>2, <3>3, <3>4
  <2>4. h + n \in Nat
    BY <1>1, <1>9
  <2> QED
    BY <2>1, <2>2, <2>3, <2>4 DEF Numbered
<1>19. Answers(Q, ui)
  BY <1>16 DEF Sound, Answers
<1>20. \A j \in 1..Len(d) : \/ j \in 1..Len(dm) /\ d[j] = dm[j] /\ d[j].rid # 0 /\ Waits(P, d[j].rid, d[j].cb)
                            \/ j - Len(dm) \in 1..n /\ d[j] = new[j - Len(dm)] /\ d[j].rid = h + (j - Len(dm))
  <2> SUFFICES ASSUME NEW j \in 1..Len(d)
               PROVE  \/ j \in 1..Len(dm) /\ d[j] = dm[j] /\ d[j].rid # 0 /\ Waits(P, d[j].rid, d[j].cb)
                      \/ j - Len(dm) \in 1..n /\ d[j] = new[j - Len(dm)] /\ d[j].rid = h + (j - Len(dm))
    OBVIOUS
  <2>1. CASE j \in 1..Len(dm)
    <3>1. d[j] = dm[j]
      BY <1>15, <2>1
    <3>2. dm[j].rid # 0 /\ Waits(P, dm[j].rid, dm[j].cb)
      BY <2>1 DEF Sound, Requests
    <3> QED
      BY <2>1, <3>1, <3>2
  <2>2. CASE j - Len(dm) \in 1..n /\ d[j] = new[j - Len(dm)]
    BY <1>6, <2>2
  <2> QED
    BY <1>15, <2>1, <2>2
<1>21. \A j \in 1..Len(d) : \/ j \in 1..Len(dm) /\ d[j] = dm[j] /\ d[j].rid \in Nat /\ d[j].rid <= h
                            \/ j \notin 1..Len(dm) /\ d[j].rid = h + (j - Len(dm)) /\ d[j].rid \in Nat /\ d[j].rid > h
  <2> SUFFICES ASSUME NEW j \in 1..Len(d)
               PROVE  \/ j \in 1..Len(dm) /\ d[j] = dm[j] /\ d[j].rid \in Nat /\ d[j].rid <= h
                      \/ j \notin 1..Len(dm) /\ d[j].rid = h + (j - Len(dm)) /\ d[j].rid \in Nat /\ d[j].rid > h
    OBVIOUS
  <2>1. CASE j \in 1..Len(dm)
    <3>1. d[j] = dm[j]
      BY <1>15, <2>1
    <3>2. Waits(P, d[j].rid, d[j].cb)
      BY <2>1, <3>1 DEF Sound, Requests
    <3> QED
      BY <1>16, <2>1, <3>1, <3>2
  <2>2. CASE j \notin 1..Len(dm)
    <3>1. j - Len(dm) \in 1..n /\ d[j].rid = h + (j - Len(dm))
      BY <1>20, <2>2
    <3> QED
      BY <1>1, <1>9, <2>2, <3>1
  <2> QED
    BY <2>1, <2>2
<1>22. Requests(Q, d)
  <2>1. ASSUME NEW j \in 1..Len(d) PROVE d[j].rid # 0 /\ Waits(Q, d[j].rid, d[j].cb)
    <3>1. CASE Waits(P, d[j].rid, d[j].cb)
      BY <1>16, <3>1
    <3>2. CASE j - Len(dm) \in 1..n /\ d[j] = new[j - Len(dm)] /\ d[j].rid = h + (j - Len(dm))
      <4>1. Waits(Q, d[j].rid, d[j].cb) /\ d[j].rid > h
        BY <1>17, <3>2
      <4> QED
        BY <1>1, <4>1
    <3> QED
      BY <1>20, <3>1, <3>2
  <2>2. ASSUME NEW i \in 1..Len(d), NEW j \in 1..Len(d), d[i].rid = d[j].rid PROVE i = j
    <3>1. CASE i \in 1..Len(dm) /\ j \in 1..Len(dm)
      BY <1>15, <1>20, <2>2, <3>1 DEF Sound, Requests, Once
    <3>2. CASE i \notin 1..Len(dm) /\ j \notin 1..Len(dm)
      <4>1. d[i].rid = h + (i - Len(dm)) /\ d[j].rid = h + (j - Len(dm))
        BY <1>21, <3>2
      <4>2. Len(dm) \in Nat /\ i \in Nat /\ j \in Nat
        BY <1>15
      <4> QED
        <5>1. h + (i - Len(dm)) = h + (j - Len(dm))
          BY <2>2, <4>1
        <5> QED
          BY <1>1, <4>2, <5>1
    <3>3. CASE i \in 1..Len(dm) <=> j \notin 1..Len(dm)
      <4>1. \/ d[i].rid <= h /\ d[j].rid > h
            \/ d[j].rid <= h /\ d[i].rid > h
        BY <1>21, <3>3
      <4>2. d[i].rid \in Nat
        BY <1>21
      <4> QED
        BY <1>1, <2>2, <4>1, <4>2
    <3> QED
      BY <3>1, <3>2, <3>3
  <2> QED
    BY <1>15, <2>1, <2>2 DEF Requests, Once
<1>23. Apart(ui, d)
  <2> SUFFICES ASSUME NEW i \in 1..Len(ui), NEW j \in 1..Len(d), ui[i].rid = d[j].rid PROVE FALSE
    BY DEF Apart
  <2>1. ui[i].rid = 0 \/ Waits(P, ui[i].rid, ui[i].op)
    BY DEF Sound, Answers
  <2>2. ui[i].rid \in Nat /\ ui[i].rid <= h
    <3>1. CASE ui[i].rid = 0
      BY <1>1, <3>1
    <3>2. CASE Waits(P, ui[i].rid, ui[i].op)
      BY <1>16, <3>2
    <3> QED
      BY <2>1, <3>1, <3>2
  <2>3. j \in 1..Len(dm) /\ d[j] = dm[j]
    BY <1>1, <1>21, <2>2
  <2> QED
    BY <2>3 DEF Sound, Apart
<1>24. ASSUME ~shut PROVE Carried(Q, ui, d)
  <2>1. \A j \in 1..Len(dm) : j \in 1..Len(d) /\ d[j] = dm[j]
    BY <1>9, <1>15
  <2>2. ASSUME NEW p \in P
        PROVE  p.gone \/ (\E i \in 1..Len(ui) : ui[i].rid = p.rid) \/ (\E j \in 1..Len(d) : d[j].rid = p.rid)
    BY <1>24, <2>1 DEF Sound, Carried
  <2>3. ASSUME NEW k \in 1..n PROVE \E j \in 1..Len(d) : d[j].rid = call[k].rid
    <3>1. Len(dm) + k \in 1..Len(d) /\ d[Len(dm) + k].rid = call[k].rid
      <4>1. Len(dm) + k \in 1..Len(d)
        BY <1>12, <1>15
      <4>2. d[Len(dm) + k] = new[k]
        BY <1>15
      <4>3. new[k].rid = h + k /\ call[k].rid = h + k
        BY <1>6
      <4> QED
        BY <4>1, <4>2, <4>3
    <3> QED
      BY <3>1
  <2> SUFFICES ASSUME NEW p \in Q
               PROVE  p.gone \/ (\E i \in 1..Len(ui) : ui[i].rid = p.rid) \/ (\E j \in 1..Len(d) : d[j].rid = p.rid)
    BY DEF Carried
  <2>4. p \in P \/ \E k \in 1..n : p = call[k]
    BY <1>4
  <2> QED
    BY <2>2, <2>3, <2>4
<1>25. \A p \in Q : p.gone => p \in P
  BY <1>4, <1>6
<1> QED
  BY <1>18, <1>19, <1>22, <1>23, <1>24, <1>25 DEF Sound

\* The calls but the one that m answers.
Less(P, m) == {p \in P : p.rid # m.rid}

\* An answer is read, or an event: its call waits no more (handle).
LEMMA AnswerRead ==
  ASSUME NEW P, NEW ui, NEW dm, NEW shut, Sound(P, ui, dm, shut), ui # <<>>,
         NEW m, m = Head(ui), NEW Q, Q = Less(P, m), NEW u, u = Tail(ui)
  PROVE  Sound(Q, u, dm, shut) /\ m \in Message
<1>1. ui \in Seq(Message)
  BY DEF Sound, Answers
<1>2. /\ m \in Message /\ u \in Seq(Message) /\ Len(u) = Len(ui) - 1 /\ m = ui[1] /\ Len(ui) \in Nat \ {0}
      /\ \A i \in 1..Len(u) : u[i] = ui[i + 1]
  BY <1>1, HeadTailProperties, EmptySeq
<1>3. \A i \in 1..Len(u) : i + 1 \in 1..Len(ui) /\ i + 1 # 1 /\ u[i] = ui[i + 1]
  BY <1>2
<1>4. 1 \in 1..Len(ui) /\ Once(ui)
  BY <1>2 DEF Sound, Answers
<1>5. \A i \in 1..Len(u) : u[i].rid # 0 => u[i].rid # m.rid
  BY <1>2, <1>3, <1>4 DEF Once
<1>6. \A j \in 1..Len(dm) : dm[j].rid # m.rid
  BY <1>2, <1>4 DEF Sound, Apart
<1>7. \A n, cb : Waits(P, n, cb) /\ n # m.rid => Waits(Q, n, cb)
  BY DEF Waits, Less
<1>8. Numbered(Q)
  BY DEF Sound, Numbered, Less
<1>9. Answers(Q, u)
  <2>1. ASSUME NEW i \in 1..Len(u), u[i].rid # 0 PROVE Waits(Q, u[i].rid, u[i].op)
    <3>1. Waits(P, ui[i + 1].rid, ui[i + 1].op)
      BY <1>3, <2>1 DEF Sound, Answers
    <3> QED
      BY <1>3, <1>5, <1>7, <2>1, <3>1
  <2>2. ASSUME NEW i \in 1..Len(u), NEW j \in 1..Len(u), u[i].rid = u[j].rid, u[i].rid # 0 PROVE i = j
    <3>1. i + 1 = j + 1
      BY <1>3, <1>4, <2>2 DEF Once
    <3> QED
      BY <3>1
  <2> QED
    BY <1>2, <2>1, <2>2 DEF Answers, Once
<1>10. Requests(Q, dm)
  BY <1>6, <1>7 DEF Sound, Requests
<1>11. Apart(u, dm)
  BY <1>3 DEF Sound, Apart
<1>12. ASSUME ~shut PROVE Carried(Q, u, dm)
  <2> SUFFICES ASSUME NEW p \in Q, ~p.gone
               PROVE  (\E i \in 1..Len(u) : u[i].rid = p.rid) \/ (\E j \in 1..Len(dm) : dm[j].rid = p.rid)
    BY DEF Carried
  <2>1. CASE \E j \in 1..Len(dm) : dm[j].rid = p.rid
    BY <2>1
  <2>2. CASE \E i \in 1..Len(ui) : ui[i].rid = p.rid
    <3>1. PICK i \in 1..Len(ui) : ui[i].rid = p.rid
      BY <2>2
    <3>2. i # 1
      BY <1>2, <3>1 DEF Less
    <3>3. i - 1 \in 1..Len(u) /\ (i - 1) + 1 = i
      BY <1>2, <3>2
    <3>4. u[i - 1].rid = p.rid
      BY <1>3, <3>1, <3>3
    <3> QED
      BY <3>3, <3>4
  <2> QED
    BY <1>12, <2>1, <2>2 DEF Sound, Carried, Less
<1> QED
  BY <1>2, <1>8, <1>9, <1>10, <1>11, <1>12 DEF Sound

\* An event is sent (ipc_broadcast).
LEMMA EventSent ==
  ASSUME NEW P, NEW ui, NEW dm, NEW shut, Sound(P, ui, dm, shut),
         NEW e \in Message, e.rid = 0, NEW u \in Seq(Message), Joins(u, ui, <<e>>)
  PROVE  Sound(P, u, dm, shut)
<1>1. /\ Len(u) = Len(ui) + 1 /\ Len(ui) \in Nat /\ \A i \in 1..Len(ui) : i \in 1..Len(u) /\ u[i] = ui[i]
      /\ \A i \in 1..Len(u) : i \in 1..Len(ui) \/ u[i].rid = 0
  BY DEF Joins
<1>2. Answers(P, u)
  BY <1>1 DEF Sound, Answers, Once
<1>3. Apart(u, dm)
  <2> SUFFICES ASSUME NEW i \in 1..Len(u), NEW j \in 1..Len(dm) PROVE u[i].rid # dm[j].rid
    BY DEF Apart
  <2>1. dm[j].rid # 0
    BY DEF Sound, Requests
  <2> QED
    BY <1>1, <2>1 DEF Sound, Apart
<1>4. ~shut => Carried(P, u, dm)
  BY <1>1 DEF Sound, Carried
<1> QED
  BY <1>2, <1>3, <1>4 DEF Sound

\* The next request is answered (on_client, send_json).
LEMMA RequestAnswered ==
  ASSUME NEW P, NEW ui, NEW dm, Sound(P, ui, dm, FALSE), dm # <<>>, NEW a \in Message,
         a.rid = Head(dm).rid, a.op = Head(dm).cb, NEW u \in Seq(Message), Joins(u, ui, <<a>>), NEW d, d = Tail(dm)
  PROVE  Sound(P, u, d, FALSE)
<1>1. dm \in Seq(Request)
  BY DEF Sound, Requests
<1>2. /\ d \in Seq(Request) /\ Len(d) = Len(dm) - 1 /\ Head(dm) = dm[1] /\ Len(dm) \in Nat \ {0}
      /\ \A j \in 1..Len(d) : d[j] = dm[j + 1]
  BY <1>1, HeadTailProperties, EmptySeq
<1>3. \A j \in 1..Len(d) : j + 1 \in 1..Len(dm) /\ j + 1 # 1 /\ d[j] = dm[j + 1]
  BY <1>2
<1>4. 1 \in 1..Len(dm) /\ Once(dm) /\ a.rid # 0 /\ a.rid = dm[1].rid /\ Waits(P, a.rid, a.op)
  BY <1>2 DEF Sound, Requests
<1>5. /\ Len(u) = Len(ui) + 1 /\ Len(ui) \in Nat /\ \A i \in 1..Len(ui) : i \in 1..Len(u) /\ u[i] = ui[i]
      /\ u[Len(ui) + 1] = a
      /\ \A i \in 1..Len(u) : i \in 1..Len(ui) \/ (i = Len(ui) + 1 /\ u[i] = a)
  BY DEF Joins
<1>6. \A i \in 1..Len(ui) : ui[i].rid # a.rid
  BY <1>4 DEF Sound, Apart
<1>7. \A j \in 1..Len(d) : d[j].rid # a.rid /\ d[j].rid # 0
  <2> SUFFICES ASSUME NEW j \in 1..Len(d) PROVE d[j].rid # a.rid /\ d[j].rid # 0
    OBVIOUS
  <2>1. dm[j + 1].rid # 0
    BY <1>3 DEF Sound, Requests
  <2> QED
    BY <1>3, <1>4, <2>1 DEF Once
<1>8. Answers(P, u)
  <2>1. \A i \in 1..Len(u) : u[i].rid # 0 => Waits(P, u[i].rid, u[i].op)
    BY <1>4, <1>5 DEF Sound, Answers
  <2>2. ASSUME NEW i \in 1..Len(u), NEW j \in 1..Len(u), u[i].rid = u[j].rid, u[i].rid # 0 PROVE i = j
    <3>1. CASE i \in 1..Len(ui) /\ j \in 1..Len(ui)
      BY <1>5, <2>2, <3>1 DEF Sound, Answers, Once
    <3>2. CASE ~(i \in 1..Len(ui) /\ j \in 1..Len(ui))
      BY <1>5, <1>6, <2>2, <3>2
    <3> QED
      BY <3>1, <3>2
  <2> QED
    BY <2>1, <2>2 DEF Answers, Once
<1>9. Requests(P, d)
  <2>1. \A j \in 1..Len(d) : d[j].rid # 0 /\ Waits(P, d[j].rid, d[j].cb)
    BY <1>3, <1>7 DEF Sound, Requests
  <2>2. ASSUME NEW i \in 1..Len(d), NEW j \in 1..Len(d), d[i].rid = d[j].rid PROVE i = j
    <3>1. i + 1 = j + 1
      BY <1>3, <1>4, <1>7, <2>2 DEF Once
    <3> QED
      BY <3>1
  <2> QED
    BY <1>2, <2>1, <2>2 DEF Requests, Once
<1>10. Apart(u, d)
  BY <1>3, <1>5, <1>7 DEF Sound, Apart
<1>11. Carried(P, u, d)
  <2> SUFFICES ASSUME NEW p \in P, ~p.gone
               PROVE  (\E i \in 1..Len(u) : u[i].rid = p.rid) \/ (\E j \in 1..Len(d) : d[j].rid = p.rid)
    BY DEF Carried
  <2>1. CASE \E i \in 1..Len(ui) : ui[i].rid = p.rid
    BY <1>5, <2>1
  <2>2. CASE \E j \in 1..Len(dm) : dm[j].rid = p.rid
    <3>1. PICK j \in 1..Len(dm) : dm[j].rid = p.rid
      BY <2>2
    <3>2. CASE j = 1
      <4>1. Len(ui) + 1 \in 1..Len(u) /\ u[Len(ui) + 1].rid = p.rid
        BY <1>4, <1>5, <3>1, <3>2
      <4> QED
        BY <4>1
    <3>3. CASE j # 1
      <4>1. j - 1 \in 1..Len(d) /\ (j - 1) + 1 = j
        BY <1>2, <3>3
      <4>2. d[j - 1].rid = p.rid
        BY <1>3, <3>1, <4>1
      <4> QED
        BY <4>1, <4>2
    <3> QED
      BY <3>2, <3>3
  <2> QED
    BY <2>1, <2>2 DEF Sound, Carried
<1> QED
  BY <1>8, <1>9, <1>10, <1>11 DEF Sound

\* The daemon's end is closed: what it had not read is lost, the rest may be read.
LEMMA EndClosed ==
  ASSUME NEW P, NEW ui, NEW dm, NEW shut, Sound(P, ui, dm, shut)
  PROVE  Sound(P, ui, <<>>, TRUE)
<1>1. Requests(P, <<>>) /\ Apart(ui, <<>>)
  BY EmptySeq DEF Requests, Once, Apart
<1> QED
  BY <1>1 DEF Sound

\* A new socket, with none of the calls made on another.
LEMMA NewSocket ==
  ASSUME NEW P, Numbered(P), \A p \in P : p.gone
  PROVE  Sound(P, <<>>, <<>>, FALSE)
<1>1. Answers(P, <<>>) /\ Requests(P, <<>>) /\ Apart(<<>>, <<>>)
  BY EmptySeq DEF Answers, Requests, Once, Apart
<1> QED
  BY <1>1 DEF Sound, Carried

LEMMA GivenUp ==
  ASSUME NEW P, Numbered(P), NEW Q, Q = {[p EXCEPT !.gone = TRUE] : p \in P}
  PROVE  Numbered(Q) /\ \A q \in Q : q.gone
<1>1. \A p \in P : LET q == [p EXCEPT !.gone = TRUE] IN q \in Waiting /\ q.rid = p.rid /\ q.gone
  BY DEF Numbered, Waiting
<1>2. \A p, q \in P : p.rid = q.rid => p = q
  BY DEF Numbered
<1>3. PICK b \in Nat : \A p \in P : p.rid <= b
  BY DEF Numbered
<1>4. Q \subseteq Waiting /\ \A q \in Q : q.rid <= b /\ q.gone
  BY <1>1, <1>3
<1>5. ASSUME NEW x \in Q, NEW y \in Q, x.rid = y.rid PROVE x = y
  <2>1. PICK p \in P : x = [p EXCEPT !.gone = TRUE]
    OBVIOUS
  <2>2. PICK q \in P : y = [q EXCEPT !.gone = TRUE]
    OBVIOUS
  <2>3. p = q
    BY <1>1, <1>2, <1>5, <2>1, <2>2
  <2> QED
    BY <2>1, <2>2, <2>3
<1> QED
  BY <1>3, <1>4, <1>5 DEF Numbered

-----------------------------------------------------------------------------
(* The invariant. *)

\* What the popup shows and knows.
Rows == [at : View, ver : Version, gRows : Version]

Shape ==
  /\ open \in BOOLEAN /\ view \in View /\ offline \in BOOLEAN
  /\ rows \in Rows /\ groups \in Version /\ heard \in Version
  /\ refreshDue \in BOOLEAN /\ searchDue \in BOOLEAN

\* A line with the calls made on it.
LinkInv ==
  /\ LinkType /\ Sound(pending, toUi, toDaemon, cut)
  /\ \A p \in pending : ~p.gone => connected

PopupInv == LinkInv /\ Shape

LEMMA Starts == Init => PopupInv
<1> SUFFICES ASSUME Init PROVE PopupInv
  OBVIOUS
<1> USE UiLinkAssumption DEF Init, LinkInit
<1>1. Anywhere \in View
  BY DEF Anywhere, View
<1>2. LinkType
  <2>1. toDaemon \in Seq(Request) /\ toUi \in Seq(Message)
    BY EmptySeq
  <2>2. data \in [Kind -> Nat] /\ copy \in Nat \cup {Mixed} /\ budget \in 0..MaxHappen
    BY DEF Mixed
  <2>3. told \in 0..data["groups"]
    BY DEF Kind
  <2> QED
    BY <2>1, <2>2, <2>3 DEF LinkType
<1>3. Numbered(pending)
  BY DEF Numbered
<1>4. Sound(pending, toUi, toDaemon, FALSE)
  BY <1>3, NewSocket
<1>5. Shape
  BY <1>1 DEF Shape, NoRows, Rows, Version
<1> QED
  BY <1>2, <1>4, <1>5 DEF PopupInv, LinkInv

\* What is asked, and of which view.
LEMMA Questions ==
  /\ Anywhere \in View
  /\ \A v \in View : groups \in Version => Lists(v) \in Seq(Asked)
  /\ \A cb \in Callback : <<Ask(cb)>> \in Seq(Asked)
  /\ <<>> \in Seq(Asked)
<1>1. Anywhere \in View
  BY UiLinkAssumption DEF Anywhere, View
<1>2. \A cb \in Callback : Ask(cb) \in Asked
  BY <1>1 DEF Ask, Asked, Version
<1>3. \A v \in View : groups \in Version => [cb |-> "list", at |-> v, gRows |-> Above(v)] \in Asked
  BY DEF Asked, Callback, Above, Version
<1>4. \A x \in Asked : <<x>> \in Seq(Asked)
  OBVIOUS
<1>5. <<>> \in Seq(Asked)
  BY EmptySeq
<1> QED
  BY <1>1, <1>2, <1>3, <1>4, <1>5 DEF Lists

\* The calls of a step.
LEMMA CallsMade ==
  ASSUME NEW P, NEW ui, NEW dm, NEW shut, Sound(P, ui, dm, shut), NEW cs \in Seq(Asked), Calls(P, dm, cs)
  PROVE  Sound(pending', ui, toDaemon', shut) /\ \A p \in pending' : p.gone => p \in P
<1>1. pending' = P \cup Made(P, cs) /\ toDaemon' = dm \o Written(P, cs)
  BY DEF Calls, Made, Written
<1>2. \A Q, d : Q = P \cup Made(P, cs) /\ d = dm \o Written(P, cs) =>
        Sound(Q, ui, d, shut) /\ \A p \in Q : p.gone => p \in P
  BY NewCalls
<1> QED
  BY <1>1, <1>2

\* Calls of the popup, on a line or without one.
LEMMA CallingKeeps ==
  ASSUME LinkInv, NEW cs \in Seq(Asked), Calling(cs), Local, budget' \in 0..MaxHappen
  PROVE  LinkInv'
<1>1. /\ UNCHANGED <<up, data, told, sub, toUi, cut, connected, ready, late, copy>>
  BY DEF Local, daemon, side
<1>2. Sound(pending', toUi, toDaemon', cut) /\ \A p \in pending' : ~p.gone => connected
  <2>1. CASE ~connected
    BY <2>1 DEF Calling, LinkInv
  <2>2. CASE connected
    <3>1. Calls(pending, toDaemon, cs)
      BY <2>2 DEF Calling
    <3>2. Sound(pending, toUi, toDaemon, cut)
      BY DEF LinkInv, LinkType
    <3>3. Sound(pending', toUi, toDaemon', cut)
      BY <3>1, <3>2, CallsMade
    <3> QED
      BY <2>2, <3>3
  <2> QED
    BY <2>1, <2>2
<1>3. pending' \subseteq Waiting /\ toDaemon' \in Seq(Request)
  BY <1>2 DEF Sound, Numbered, Requests
<1>4. LinkType'
  BY <1>1, <1>3 DEF LinkInv, LinkType
<1> QED
  BY <1>1, <1>2, <1>4 DEF LinkInv

\* A message is read, and its callback calls (handle).
LEMMA ReadingKeeps ==
  ASSUME LinkInv, NEW m, NEW cs \in Seq(Asked), Reading(m, cs),
         copy' \in Nat \cup {Mixed}, ready' \in BOOLEAN
  PROVE  LinkInv' /\ m \in Message
<1>1. /\ UNCHANGED <<up, data, told, sub, cut, connected, budget>>
      /\ connected /\ toUi # <<>> /\ m = Head(toUi) /\ toUi' = Tail(toUi)
      /\ Calls(Taken(m), toDaemon, cs) /\ late' = (late /\ m.op # "hello")
  BY DEF Reading, daemon
<1>2. Sound(pending, toUi, toDaemon, cut)
  BY DEF LinkInv, LinkType
<1>3. Sound(Taken(m), toUi', toDaemon, cut) /\ m \in Message
  <2>1. Taken(m) = Less(pending, m)
    BY DEF Taken, Less
  <2>2. \A Q, u : Q = Less(pending, m) /\ u = Tail(toUi) => Sound(Q, u, toDaemon, cut) /\ m \in Message
    BY <1>1, <1>2, AnswerRead
  <2> QED
    BY <1>1, <2>1, <2>2
<1>4. Sound(pending', toUi', toDaemon', cut)
  <2> DEFINE Q == Taken(m)
             u == toUi'
  <2> HIDE DEF Q, u
  <2>1. Sound(Q, u, toDaemon, cut) /\ Calls(Q, toDaemon, cs)
    BY <1>1, <1>3 DEF Q, u
  <2>2. Sound(pending', u, toDaemon', cut)
    BY <2>1, CallsMade
  <2> QED
    BY <2>2 DEF u
<1>5. pending' \subseteq Waiting /\ toDaemon' \in Seq(Request) /\ toUi' \in Seq(Message)
  BY <1>4 DEF Sound, Numbered, Requests, Answers
<1>6. late' \in BOOLEAN
  BY <1>1
<1>7. LinkType'
  BY <1>1, <1>5, <1>6 DEF LinkInv, LinkType
<1> QED
  BY <1>1, <1>3, <1>4, <1>7 DEF LinkInv

-----------------------------------------------------------------------------
(* The daemon and the line. *)

\* The daemon says a message: an event, or the answer to the next request.
LEMMA DaemonSays ==
  ASSUME NEW P, NEW ui, NEW dm, NEW shut, Sound(P, ui, dm, shut), NEW e \in Message,
         NEW u, u = ui \o <<e>>
  PROVE  /\ u \in Seq(Message)
         /\ e.rid = 0 => Sound(P, u, dm, shut)
         /\ shut = FALSE /\ dm # <<>> /\ e.rid = Head(dm).rid /\ e.op = Head(dm).cb => Sound(P, u, Tail(dm), shut)
<1>1. ui \in Seq(Message) /\ <<e>> \in Seq(Message)
  BY DEF Sound, Answers
<1>2. u \in Seq(Message) /\ Joins(u, ui, <<e>>)
  BY <1>1, Joined, Zenon
<1>3. e.rid = 0 => Sound(P, u, dm, shut)
  BY <1>2, EventSent
<1>4. ASSUME shut = FALSE, dm # <<>>, e.rid = Head(dm).rid, e.op = Head(dm).cb PROVE Sound(P, u, Tail(dm), shut)
  BY <1>2, <1>4, RequestAnswered
<1> QED
  BY <1>2, <1>3, <1>4

\* Messages in two parts may be said one after the other.
LEMMA InParts == \A x, y, z \in Seq(Message) : x \o (y \o z) = (x \o y) \o z
<1> TAKE x, y, z \in Seq(Message)
<1> QED
  BY ConcatAssociative

LEMMA NothingSaid == \A x \in Seq(Message) : x \o <<>> = x
  BY ConcatEmptySeq

\* An event, if anyone listens.
LEMMA Told ==
  ASSUME LinkInv, NEW k \in Kind, NEW u, u = toUi \o Event(k)
  PROVE  u \in Seq(Message) /\ Sound(pending, u, toDaemon, cut)
<1>1. toUi \in Seq(Message) /\ Sound(pending, toUi, toDaemon, cut)
  BY DEF LinkInv, LinkType
<1>2. CASE ~sub
  BY <1>1, <1>2, NothingSaid DEF Event
<1>3. CASE sub
  <2> DEFINE e == [rid |-> 0, op |-> k, at |-> Anywhere, gRows |-> -1, ver |-> data[k] + 1]
  <2>1. e \in Message /\ e.rid = 0
    BY Questions DEF LinkInv, LinkType, Message, Version
  <2>2. u = toUi \o <<e>>
    BY <1>3 DEF Event
  <2> HIDE DEF e
  <2> QED
    BY <1>1, <2>1, <2>2, DaemonSays
<1> QED
  BY <1>2, <1>3

\* What changes is counted.
LEMMA Counted ==
  ASSUME LinkInv, NEW S, Changed(S)
  PROVE  /\ data' \in [Kind -> Nat] /\ budget' \in 0..MaxHappen /\ told \in 0..data'["groups"]
         /\ \A k \in Kind : data'[k] = IF k \in S THEN data[k] + 1 ELSE data[k]
<1>1. data \in [Kind -> Nat] /\ budget \in 0..MaxHappen /\ told \in 0..data["groups"]
  BY DEF LinkInv, LinkType
<1>2. data' \in [Kind -> Nat] /\ \A k \in Kind : data'[k] = IF k \in S THEN data[k] + 1 ELSE data[k]
  BY <1>1 DEF Changed
<1>3. data["groups"] \in Nat /\ (data'["groups"] = data["groups"] \/ data'["groups"] = data["groups"] + 1)
  BY <1>1, <1>2 DEF Kind
<1>4. budget' \in 0..MaxHappen
  BY <1>1, UiLinkAssumption DEF Changed, Happen
<1> QED
  BY <1>1, <1>2, <1>3, <1>4

LEMMA ChangeKeeps ==
  ASSUME LinkInv, NEW k \in Kind, Change(k)
  PROVE  LinkInv'
<1>1. /\ UNCHANGED <<up, sub, toDaemon, cut, connected, ready, late, pending, copy>>
      /\ toUi' = IF connected /\ ~cut THEN toUi \o Event(k) ELSE toUi
      /\ told' = IF k = "groups" THEN data["groups"] + 1 ELSE told
  BY DEF Change, Say, side
<1>2. PICK S \in IF k = "clips" THEN WithClips ELSE {{k}} : Changed(S)
  BY DEF Change
<1>3. toUi' \in Seq(Message) /\ Sound(pending, toUi', toDaemon, cut)
  <2>1. CASE connected /\ ~cut
    BY <1>1, <2>1, Told
  <2>2. CASE ~(connected /\ ~cut)
    BY <1>1, <2>2 DEF LinkInv, LinkType
  <2> QED
    BY <2>1, <2>2
<1>4. /\ data' \in [Kind -> Nat] /\ budget' \in 0..MaxHappen /\ told \in 0..data'["groups"]
      /\ \A x \in Kind : data'[x] = IF x \in S THEN data[x] + 1 ELSE data[x]
  BY <1>2, Counted
<1>5. told' \in 0..data'["groups"]
  <2>1. CASE k = "groups"
    <3>1. "groups" \in S /\ "groups" \in Kind
      BY <1>2, <2>1 DEF Kind
    <3>2. data'["groups"] \in Nat /\ told' = data'["groups"]
      BY <1>1, <1>4, <2>1, <3>1
    <3> QED
      BY <3>2
  <2>2. CASE k # "groups"
    BY <1>1, <1>4, <2>2
  <2> QED
    BY <2>1, <2>2
<1>6. LinkType'
  BY <1>1, <1>3, <1>4, <1>5 DEF LinkInv, LinkType
<1> QED
  BY <1>1, <1>3, <1>6 DEF LinkInv

LEMMA UnsaidKeeps == ASSUME LinkInv, Unsaid PROVE LinkInv'
<1>1. /\ UNCHANGED <<up, told, sub, toDaemon, toUi, cut, connected, ready, late, pending, copy>>
      /\ Changed({"groups"})
  BY DEF Unsaid, wires, side
<1>2. data' \in [Kind -> Nat] /\ budget' \in 0..MaxHappen /\ told \in 0..data'["groups"]
  BY <1>1, Counted
<1> QED
  BY <1>1, <1>2 DEF LinkInv, LinkType

LEMMA ServeKeeps == ASSUME LinkInv, Serve PROVE LinkInv'
<1> DEFINE q == Head(toDaemon)
           a == [rid |-> q.rid, op |-> q.cb, at |-> q.at, gRows |-> q.gRows, ver |-> Answered(q.cb)]
<1>1. /\ UNCHANGED <<up, told, cut, connected, ready, late, pending, copy>>
      /\ connected /\ ~cut /\ toDaemon # <<>> /\ toDaemon' = Tail(toDaemon)
      /\ sub' = (sub \/ q.cb = "hello")
      /\ \/ (\E S \in WithClips : Changed(S)) /\ toUi' = toUi \o (Event("clips") \o <<a>>)
         \/ UNCHANGED <<data, budget>> /\ toUi' = toUi \o <<a>>
  BY DEF Serve, Say, side
<1>2. toDaemon \in Seq(Request) /\ toUi \in Seq(Message) /\ cut = FALSE /\ data \in [Kind -> Nat]
  BY <1>1 DEF LinkInv, LinkType
<1>3. q \in Request
  BY <1>1, <1>2, HeadTailProperties
<1>4. a \in Message /\ a.rid = Head(toDaemon).rid /\ a.op = Head(toDaemon).cb
  <2>1. Answered(q.cb) \in Nat
    BY <1>2 DEF Answered, Kind
  <2> QED
    BY <1>3, <2>1 DEF Request, Message
<1> HIDE DEF a
<1>5. Sound(pending, toUi', toDaemon', cut)
  <2>1. CASE toUi' = toUi \o <<a>>
    <3>1. \A u : u = toUi \o <<a>> => Sound(pending, u, Tail(toDaemon), cut)
      BY <1>1, <1>2, <1>4, DaemonSays DEF LinkInv
    <3> QED
      BY <1>1, <2>1, <3>1
  <2>2. CASE toUi' = toUi \o (Event("clips") \o <<a>>)
    <3> DEFINE e == Event("clips")
               u == toUi \o e
               w == <<a>>
    <3>1. u \in Seq(Message) /\ Sound(pending, u, toDaemon, cut)
      BY Told DEF Kind
    <3>2. e \in Seq(Message) /\ w \in Seq(Message)
      <4>1. [rid |-> 0, op |-> "clips", at |-> Anywhere, gRows |-> -1, ver |-> data["clips"] + 1] \in Message
        BY <1>2, Questions DEF Message, Kind, Version
      <4>2. \A x \in Message : <<x>> \in Seq(Message)
        OBVIOUS
      <4> QED
        BY <1>4, <4>1, <4>2, EmptySeq DEF Event
    <3>3. toUi' = toUi \o (e \o w)
      BY <2>2
    <3> HIDE DEF e, w
    <3>4. toUi' = u \o w
      BY <1>2, <3>2, <3>3, InParts
    <3> HIDE DEF u
    <3>5. \A v : v = u \o <<a>> => Sound(pending, v, Tail(toDaemon), cut)
      BY <1>1, <1>2, <1>4, <3>1, DaemonSays
    <3> QED
      BY <1>1, <3>4, <3>5 DEF w
  <2> QED
    BY <1>1, <2>1, <2>2
<1>6. toDaemon' \in Seq(Request) /\ toUi' \in Seq(Message)
  BY <1>5 DEF Sound, Requests, Answers
<1>7. data' \in [Kind -> Nat] /\ budget' \in 0..MaxHappen /\ told' \in 0..data'["groups"]
  <2>1. CASE \E S \in WithClips : Changed(S)
    BY <1>1, <2>1, Counted
  <2>2. CASE UNCHANGED <<data, budget>>
    BY <1>1, <2>2 DEF LinkInv, LinkType
  <2> QED
    BY <1>1, <2>1, <2>2
<1>8. sub' \in BOOLEAN
  BY <1>1
<1>9. LinkType'
  BY <1>1, <1>6, <1>7, <1>8 DEF LinkInv, LinkType
<1> QED
  BY <1>1, <1>5, <1>9 DEF LinkInv

LEMMA DaemonKeeps == ASSUME LinkInv, Die \/ Begin \/ Late PROVE LinkInv'
<1>1. CASE Die
  <2>1. /\ UNCHANGED <<data, told, toUi, connected, ready, late, pending, copy>> /\ budget' = budget - 1 /\ budget > 0
        /\ up' = FALSE /\ cut' = connected /\ sub' = FALSE /\ toDaemon' = <<>>
    BY <1>1 DEF Die, Happen
  <2>2. Sound(pending, toUi, <<>>, cut')
    <3>1. Sound(pending, toUi, <<>>, TRUE)
      BY EndClosed DEF LinkInv
    <3>2. ~connected => Carried(pending, toUi, <<>>)
      BY DEF LinkInv, Carried
    <3> QED
      BY <2>1, <3>1, <3>2 DEF Sound
  <2>3. budget' \in 0..MaxHappen
    BY <2>1, UiLinkAssumption DEF LinkInv, LinkType
  <2>4. LinkType'
    BY <2>1, <2>3, EmptySeq DEF LinkInv, LinkType
  <2> QED
    BY <2>1, <2>2, <2>4 DEF LinkInv
<1>2. CASE Begin
  <2>1. up' = TRUE /\ UNCHANGED <<data, told, sub, toDaemon, toUi, cut, connected, ready, late, pending, copy, budget>>
    BY <1>2 DEF Begin, wires, side
  <2> QED
    BY <2>1 DEF LinkInv, LinkType
<1>3. CASE Late
  <2>1. /\ late' = TRUE /\ budget' = budget - 1 /\ budget > 0
        /\ UNCHANGED <<up, data, told, sub, toDaemon, toUi, cut, connected, ready, pending, copy>>
    BY <1>3 DEF Late, Happen, wires, daemon
  <2>2. budget' \in 0..MaxHappen
    BY <2>1, UiLinkAssumption DEF LinkInv, LinkType
  <2> QED
    BY <2>1, <2>2 DEF LinkInv, LinkType
<1> QED
  BY <1>1, <1>2, <1>3

\* A new socket: the calls made on the old one stay, and hello is the only one on
\* the new (reconnect).
LEMMA RetryKeeps == ASSUME LinkInv, Retry PROVE LinkInv'
<1> DEFINE left == {[p EXCEPT !.gone = TRUE] : p \in pending}
<1>1. /\ UNCHANGED <<up, data, told, ready, copy, budget>> /\ ~ready
      /\ connected' = up /\ toUi' = <<>> /\ cut' = FALSE /\ late' = FALSE /\ sub' = FALSE
      /\ IF up THEN Calls(left, <<>>, <<Ask("hello")>>) ELSE pending' = left /\ toDaemon' = <<>>
  BY DEF Retry
<1>2. Numbered(left) /\ \A p \in left : p.gone
  <2>1. \A Q : Q = left => Numbered(Q) /\ \A q \in Q : q.gone
    BY GivenUp DEF LinkInv, Sound
  <2> QED
    BY <2>1
<1> HIDE DEF left
<1>3. Sound(left, <<>>, <<>>, FALSE)
  BY <1>2, NewSocket
<1>4. Sound(pending', <<>>, toDaemon', FALSE) /\ \A p \in pending' : ~p.gone => up
  <2>1. CASE up
    <3>1. <<Ask("hello")>> \in Seq(Asked)
      BY Questions DEF Callback
    <3> QED
      BY <1>1, <1>3, <2>1, <3>1, CallsMade
  <2>2. CASE ~up
    BY <1>1, <1>2, <1>3, <2>2
  <2> QED
    BY <2>1, <2>2
<1>5. pending' \subseteq Waiting /\ toDaemon' \in Seq(Request) /\ <<>> \in Seq(Message)
  BY <1>4, EmptySeq DEF Sound, Numbered, Requests
<1>6. LinkType'
  BY <1>1, <1>5 DEF LinkInv, LinkType
<1> QED
  BY <1>1, <1>4, <1>6 DEF LinkInv

\* The line is down, and no call is left waiting (failPending).
LEMMA DownKeeps == ASSUME LinkInv, LineDown PROVE LinkInv'
<1>1. /\ UNCHANGED <<up, data, told, sub, copy, budget>>
      /\ connected' = FALSE /\ cut' = FALSE /\ ready' = FALSE /\ late' = FALSE
      /\ toUi' = <<>> /\ toDaemon' = <<>> /\ pending' = {}
  BY DEF LineDown, Down, Failed, daemon
<1>2. Numbered({})
  BY DEF Numbered
<1>3. Sound({}, <<>>, <<>>, FALSE)
  BY <1>2, NewSocket
<1>4. LinkType'
  BY <1>1, EmptySeq DEF LinkInv, LinkType
<1> QED
  BY <1>1, <1>3, <1>4 DEF LinkInv

-----------------------------------------------------------------------------
(* The popup. *)

LEMMA RefreshedShape ==
  ASSUME NEW v \in View, NEW online, NEW keep, rows \in Rows, groups \in Version, Refreshed(v, online, keep)
  PROVE  rows' \in Rows /\ offline' \in BOOLEAN
<1>1. NoRows \in Rows
  BY Questions DEF NoRows, Rows, Version
<1>2. [at |-> v, ver |-> -1, gRows |-> Above(v)] \in Rows
  BY DEF Rows, Above, Version
<1>3. offline' \in BOOLEAN
  BY DEF Refreshed
<1> QED
  BY <1>1, <1>2, <1>3 DEF Refreshed

LEMMA Spent == ASSUME LinkInv, Happen PROVE budget' \in 0..MaxHappen
  BY UiLinkAssumption DEF LinkInv, LinkType, Happen

\* What the user does.
LEMMA UserKeeps ==
  ASSUME PopupInv, NEW place \in Place, Show \/ Hide \/ Type \/ Delete \/ Go(place)
  PROVE  PopupInv'
<1> USE DEF PopupInv
<1>1. CASE Show
  <2>1. LinkInv'
    <3>1. Calling(<<Ask("context")>>) /\ Local /\ budget' \in 0..MaxHappen
      BY <1>1, Spent DEF Show
    <3>2. <<Ask("context")>> \in Seq(Asked)
      BY Questions DEF Callback
    <3> QED
      BY <3>1, <3>2, CallingKeeps
  <2>2. CASE connected
    BY <1>1, <2>1, <2>2 DEF Show, Shape
  <2>3. CASE ~connected
    <3>1. Opened(FALSE) /\ UNCHANGED <<groups, heard, refreshDue>>
      BY <1>1, <2>3 DEF Show
    <3>2. rows' \in Rows /\ offline' \in BOOLEAN
      BY <3>1, Questions, RefreshedShape DEF Opened, Shape
    <3> QED
      BY <2>1, <3>1, <3>2, Questions DEF Opened, Shape
  <2> QED
    BY <2>2, <2>3
<1>2. CASE Hide
  <2>1. UNCHANGED <<up, data, told, sub, toDaemon, toUi, cut, connected, ready, late, pending, copy>> /\ budget' \in 0..MaxHappen
    BY <1>2, Spent DEF Hide, daemon, wires, side
  <2>2. LinkInv'
    BY <2>1 DEF LinkInv, LinkType
  <2> QED
    BY <1>2, <2>2 DEF Hide, Shape
<1>3. CASE Type
  <2>1. UNCHANGED <<up, data, told, sub, toDaemon, toUi, cut, connected, ready, late, pending, copy>> /\ budget' \in 0..MaxHappen
    BY <1>3, Spent DEF Type, daemon, wires, side
  <2>2. LinkInv'
    BY <2>1 DEF LinkInv, LinkType
  <2>3. view' \in View
    BY <1>3 DEF Type, Shape, View
  <2> QED
    BY <1>3, <2>2, <2>3 DEF Type, Shape
<1>4. CASE Delete
  <2>1. LinkInv'
    <3>1. Calling(<<Ask("delete")>>) /\ Local /\ budget' \in 0..MaxHappen
      BY <1>4, Spent DEF Delete
    <3>2. <<Ask("delete")>> \in Seq(Asked)
      BY Questions DEF Callback
    <3> QED
      BY <3>1, <3>2, CallingKeeps
  <2>2. CASE connected
    BY <1>4, <2>1, <2>2 DEF Delete, Shape, Shown
  <2>3. CASE ~connected
    <3>1. Refreshed(view, FALSE, offline) /\ UNCHANGED <<open, view, groups, heard, refreshDue, searchDue>>
      BY <1>4, <2>3 DEF Delete
    <3>2. rows' \in Rows /\ offline' \in BOOLEAN
      BY <3>1, RefreshedShape DEF Shape
    <3> QED
      BY <2>1, <3>1, <3>2 DEF Shape
  <2> QED
    BY <2>2, <2>3
<1>5. CASE Go(place)
  <2> DEFINE v == [place |-> place, query |-> FALSE]
  <2>1. v \in View
    BY DEF View
  <2>2. /\ view' = v /\ Calling(Lists(v)) /\ Refreshed(v, connected, offline) /\ Local
        /\ searchDue' = (searchDue \/ view.query) /\ UNCHANGED <<open, groups, heard, refreshDue>>
    BY <1>5 DEF Go
  <2> HIDE DEF v
  <2>3. budget' \in 0..MaxHappen
    BY <1>5, Spent DEF Go
  <2>4. LinkInv'
    BY <2>1, <2>2, <2>3, Questions, CallingKeeps DEF Shape
  <2>5. rows' \in Rows /\ offline' \in BOOLEAN
    BY <2>1, <2>2, RefreshedShape DEF Shape
  <2> QED
    BY <2>1, <2>2, <2>4, <2>5 DEF Shape
<1> QED
  BY <1>1, <1>2, <1>3, <1>4, <1>5

\* The timers.
LEMMA TimersKeep == ASSUME PopupInv, EventRefresh \/ SearchDebounce PROVE PopupInv'
<1> USE DEF PopupInv
<1>1. Again /\ refreshDue' \in BOOLEAN /\ searchDue' \in BOOLEAN
  BY DEF EventRefresh, SearchDebounce, Shape
<1>2. view \in View /\ groups \in Version /\ budget' \in 0..MaxHappen
  BY <1>1 DEF Again, Shape, LinkInv, LinkType
<1>3. LinkInv'
  BY <1>1, <1>2, Questions, CallingKeeps DEF Again
<1>4. rows' \in Rows /\ offline' \in BOOLEAN
  BY <1>1, RefreshedShape DEF Again, Shape
<1> QED
  BY <1>1, <1>3, <1>4 DEF Again, Shape

\* What the daemon says: what a message does by itself, and what its callback does.
LEMMA ReadKeeps == ASSUME PopupInv, Read PROVE PopupInv'
<1> DEFINE m == Head(toUi)
<1> USE DEF PopupInv
<1>1. copy \in Nat \cup {Mixed} /\ ready \in BOOLEAN
  BY DEF LinkInv, LinkType
<1>2. m \in Message
  <2>1. toUi # <<>> /\ toUi \in Seq(Message)
    BY DEF Read, LinkInv, LinkType
  <2> QED
    BY <2>1, HeadTailProperties
<1>3. /\ ConnectedAgain(m) \/ Hear(m) \/ Listed(m) \/ Fetched(m) \/ Copied(m) \/ Placed(m) \/ Deleted(m)
  BY DEF Read
<1> HIDE DEF m
<1>4. m.ver \in Nat /\ m.at \in View /\ m.gRows \in Version
  BY <1>2 DEF Message
<1>5. \A cs \in Seq(Asked) :
        Reading(m, cs) /\ copy' \in Nat \cup {Mixed} /\ ready' \in BOOLEAN => LinkInv'
  BY ReadingKeeps
<1>6. <<>> \in Seq(Asked) /\ Anywhere \in View
  BY Questions
<1>7. \A x, y \in Asked : <<x, y>> \in Seq(Asked)
  OBVIOUS
<1>8. \A cb \in Callback : Ask(cb) \in Asked
  BY <1>6 DEF Ask, Asked, Version
<1>9. CASE ConnectedAgain(m)
  <2>1. <<Ask("settings"), Ask("groups")>> \in Seq(Asked)
    BY <1>7, <1>8 DEF Callback
  <2>2. LinkInv'
    BY <1>1, <1>5, <1>9, <2>1 DEF ConnectedAgain
  <2> QED
    BY <1>9, <2>2 DEF ConnectedAgain, Shape, Rows, Version
<1>10. CASE Hear(m)
  <2>1. <<Ask("follow")>> \in Seq(Asked)
    BY Questions DEF Callback
  <2>2. copy' \in Nat \cup {Mixed}
    BY <1>1, <1>4, <1>10 DEF Hear, Patched
  <2>3. LinkInv'
    <3>1. PICK cs \in Seq(Asked) : Reading(m, cs)
      BY <1>6, <1>10, <2>1 DEF Hear
    <3> QED
      BY <1>1, <1>5, <1>10, <2>2, <3>1 DEF Hear
  <2>4. refreshDue' \in BOOLEAN
    BY <1>10 DEF Hear
  <2> QED
    BY <1>4, <1>10, <2>3, <2>4 DEF Hear, Shape, Rows, Version, Shown
<1>11. CASE Listed(m)
  <2>1. LinkInv'
    BY <1>1, <1>5, <1>6, <1>11 DEF Listed
  <2> QED
    BY <1>4, <1>11, <2>1 DEF Listed, Shape, Rows, Version
<1>12. CASE Fetched(m)
  <2>1. LinkInv'
    BY <1>1, <1>5, <1>6, <1>12 DEF Fetched
  <2>2. refreshDue' \in BOOLEAN
    BY <1>12 DEF Fetched
  <2> QED
    BY <1>4, <1>12, <2>1, <2>2 DEF Fetched, Shape, Rows, Version, Shown
<1>13. CASE Copied(m)
  <2>1. LinkInv'
    BY <1>1, <1>4, <1>5, <1>6, <1>13 DEF Copied
  <2> QED
    BY <1>13, <2>1 DEF Copied, Shape, Shown
<1>14. CASE Placed(m)
  <2>1. Lists(Anywhere) \o <<Ask("groups")>> \in Seq(Asked)
    <3>1. Lists(Anywhere) \in Seq(Asked) /\ <<Ask("groups")>> \in Seq(Asked)
      BY Questions DEF Callback, Shape
    <3> QED
      BY <3>1, Joined, Zenon
  <2>2. LinkInv'
    BY <1>1, <1>5, <1>14, <2>1 DEF Placed
  <2>3. rows' \in Rows /\ offline' \in BOOLEAN
    BY <1>6, <1>14, RefreshedShape DEF Placed, Opened, Shape
  <2>4. open' = TRUE /\ view' = Anywhere /\ searchDue' \in BOOLEAN /\ UNCHANGED <<groups, heard, refreshDue>>
    BY <1>14 DEF Placed, Opened
  <2> QED
    BY <1>6, <2>2, <2>3, <2>4 DEF Shape
<1>15. CASE Deleted(m)
  <2>1. Lists(view) \in Seq(Asked)
    BY Questions DEF Shape
  <2>2. LinkInv'
    BY <1>1, <1>5, <1>15, <2>1 DEF Deleted
  <2>3. rows' \in Rows /\ offline' \in BOOLEAN
    BY <1>15, RefreshedShape DEF Deleted, Shape
  <2> QED
    BY <1>15, <2>2, <2>3 DEF Deleted, Shape
<1> QED
  BY <1>3, <1>9, <1>10, <1>11, <1>12, <1>13, <1>14, <1>15

\* The line is down: every callback runs with an error.
LEMMA LineDownKeeps == ASSUME PopupInv, LineDown PROVE PopupInv'
<1> USE DEF PopupInv
<1> DEFINE failed == {p.cb : p \in pending}
<1>1. LinkInv'
  BY DownKeeps
<1>2. /\ \/ Opened(FALSE)
         \/ /\ UNCHANGED <<open, view, searchDue>>
            /\ \/ rows' = NoRows /\ offline' = TRUE
               \/ Refreshed(view, FALSE, offline \/ "list" \in failed)
               \/ Shown
      /\ \E seen \in {open, open'} : refreshDue' = (refreshDue \/ ("follow" \in failed /\ seen))
      /\ UNCHANGED <<groups, heard>>
  BY DEF LineDown
<1> HIDE DEF failed
<1>3. refreshDue' \in BOOLEAN /\ groups' \in Version /\ heard' \in Version
  BY <1>2 DEF Shape
<1>4. CASE Opened(FALSE)
  <2>1. rows' \in Rows /\ offline' \in BOOLEAN
    BY <1>4, Questions, RefreshedShape DEF Opened, Shape
  <2> QED
    BY <1>1, <1>3, <1>4, <2>1, Questions DEF Opened, Shape
<1>5. CASE /\ UNCHANGED <<open, view, searchDue>>
           /\ \/ rows' = NoRows /\ offline' = TRUE
              \/ Refreshed(view, FALSE, offline \/ "list" \in failed)
              \/ Shown
  <2>1. rows' \in Rows /\ offline' \in BOOLEAN
    <3>1. CASE rows' = NoRows /\ offline' = TRUE
      BY <3>1, Questions DEF NoRows, Rows, Version
    <3>2. CASE Refreshed(view, FALSE, offline \/ "list" \in failed)
      BY <3>2, RefreshedShape DEF Shape
    <3>3. CASE Shown
      BY <3>3 DEF Shown, Shape
    <3> QED
      BY <1>5, <3>1, <3>2, <3>3
  <2> QED
    BY <1>1, <1>3, <1>5, <2>1 DEF Shape
<1> QED
  BY <1>2, <1>4, <1>5

LEMMA StepKeeps == PopupInv /\ [Next]_vars => PopupInv'
<1> SUFFICES ASSUME PopupInv, [Next]_vars PROVE PopupInv'
  OBVIOUS
<1>1. \A place \in Place : Show \/ Hide \/ Type \/ Delete \/ Go(place) => PopupInv'
  BY UserKeeps
<1>2. CASE Show \/ Hide \/ Type \/ Delete \/ \E place \in Place : Go(place)
  <2>1. "history" \in Place
    BY UiLinkAssumption
  <2> QED
    BY <1>1, <1>2, <2>1
<1>3. CASE Read
  BY <1>3, ReadKeeps
<1>4. CASE LineDown
  BY <1>4, LineDownKeeps
<1>5. CASE EventRefresh \/ SearchDebounce
  BY <1>5, TimersKeep
<1>6. ASSUME Still, LinkInv' PROVE PopupInv'
  BY <1>6 DEF Still, popup, PopupInv, Shape
<1>7. CASE Retry /\ Still
  BY <1>6, <1>7, RetryKeeps DEF PopupInv
<1>8. CASE ((\E k \in Kind : Change(k)) \/ Unsaid) /\ Still
  BY <1>6, <1>8, ChangeKeeps, UnsaidKeeps DEF PopupInv
<1>9. CASE (Serve \/ Die \/ Begin \/ Late) /\ Still
  BY <1>6, <1>9, ServeKeeps, DaemonKeeps DEF PopupInv
<1>10. CASE UNCHANGED vars
  BY <1>10 DEF vars, link, popup, daemon, wires, side, PopupInv, LinkInv, LinkType, Shape
<1> QED
  BY <1>2, <1>3, <1>4, <1>5, <1>7, <1>8, <1>9, <1>10 DEF Next, Ui

\* The invariant.
LEMMA PopupInvariant == Spec => []PopupInv
  BY Starts, StepKeeps, PTL DEF Spec

\* Rids in a sequence.
LEMMA RidsOf ==
  ASSUME NEW T, NEW s \in Seq(T)
  PROVE  \A n : n \in RidsIn(s) <=> n # 0 /\ \E i \in 1..Len(s) : s[i].rid = n
<1>1. DOMAIN s = 1..Len(s)
  OBVIOUS
<1> QED
  BY <1>1 DEF RidsIn

\* The popup and its line are as their types say.
THEOREM PopupTyped == Spec => []TypeOK
<1>1. PopupInv => TypeOK
  BY DEF PopupInv, LinkInv, Shape, Rows, TypeOK
<1> QED
  BY <1>1, PopupInvariant, PTL

\* Every call waiting on the present socket has its request or its answer on the
\* way, one of them only, and every answer on the way has its call (call, handle,
\* failPending, reconnect).
THEOREM CallsCarried == Spec => []CallsInFlight
<1>1. ASSUME PopupInv PROVE CallsInFlight
  <2>1. /\ Sound(pending, toUi, toDaemon, cut) /\ \A p \in pending : ~p.gone => connected
        /\ toUi \in Seq(Message) /\ toDaemon \in Seq(Request)
    BY <1>1 DEF PopupInv, LinkInv, LinkType
  <2>2. \A n : n \in RidsIn(toUi) <=> n # 0 /\ \E i \in 1..Len(toUi) : toUi[i].rid = n
    BY <2>1, RidsOf
  <2>3. \A n : n \in RidsIn(toDaemon) <=> n # 0 /\ \E i \in 1..Len(toDaemon) : toDaemon[i].rid = n
    BY <2>1, RidsOf
  <2>4. \A n, cb : Waits(pending, n, cb) => n \in Rids({p \in pending : ~p.gone})
    BY DEF Rids, Waits
  <2>5. \A p, q \in pending : p.rid = q.rid => p = q
    BY <2>1 DEF Sound, Numbered
  <2>6. RidsIn(toUi) \subseteq Rids({p \in pending : ~p.gone})
    BY <2>1, <2>2, <2>4 DEF Sound, Answers
  <2>7. RidsIn(toDaemon) \subseteq Rids({p \in pending : ~p.gone})
    BY <2>1, <2>3, <2>4 DEF Sound, Requests
  <2>8. RidsIn(toUi) \cap RidsIn(toDaemon) = {}
    BY <2>1, <2>2, <2>3 DEF Sound, Apart
  <2>9. DOMAIN toUi = 1..Len(toUi)
    BY <2>1
  <2>10. \A i \in DOMAIN toUi : toUi[i].rid # 0 =>
            \E p \in pending : p.rid = toUi[i].rid /\ p.cb = toUi[i].op /\ ~p.gone
    BY <2>1, <2>9 DEF Sound, Answers, Waits
  <2>11. \A i, j \in DOMAIN toUi : toUi[i].rid = toUi[j].rid /\ toUi[i].rid # 0 => i = j
    BY <2>1, <2>9 DEF Sound, Answers, Once
  <2>12. ASSUME ~cut, NEW p \in pending, ~p.gone PROVE p.rid \in RidsIn(toUi) \cup RidsIn(toDaemon)
    <3>1. p.rid # 0
      BY <2>1 DEF Sound, Numbered, Waiting
    <3>2. (\E i \in 1..Len(toUi) : toUi[i].rid = p.rid) \/ (\E j \in 1..Len(toDaemon) : toDaemon[j].rid = p.rid)
      BY <2>1, <2>12 DEF Sound, Carried
    <3> QED
      BY <2>2, <2>3, <3>1, <3>2
  <2>13. ~cut => Rids({p \in pending : ~p.gone}) \subseteq RidsIn(toUi) \cup RidsIn(toDaemon)
    BY <2>12 DEF Rids
  <2> QED
    BY <2>1, <2>5, <2>6, <2>7, <2>8, <2>10, <2>11, <2>13 DEF CallsInFlight
<1> QED
  BY <1>1, PopupInvariant, PTL
-----------------------------------------------------------------------------
(* Nothing is forgotten. *)

\* No element of s is in A.
None(s, A) == \A i \in 1..Len(s) : s[i] \notin A

\* The last element of s that is in A is in W.
LastIn(s, A, W) == \E i \in 1..Len(s) : s[i] \in W /\ \A l \in 1..Len(s) : l > i => s[l] \notin A

LEMMA NoneJoined ==
  ASSUME NEW r, NEW s, NEW t, Joins(r, s, t), NEW A
  PROVE  None(r, A) <=> None(s, A) /\ None(t, A)
<1>1. \A i \in 1..Len(t) : Len(s) + i \in 1..Len(r)
  BY DEF Joins
<1>2. \A i \in 1..Len(s) : i \in 1..Len(r)
  BY DEF Joins
<1> QED
  BY <1>1, <1>2 DEF Joins, None

LEMMA LastJoined ==
  ASSUME NEW r, NEW s, NEW t, Joins(r, s, t), NEW A, NEW W
  PROVE  /\ LastIn(s, A, W) /\ None(t, A) => LastIn(r, A, W)
         /\ LastIn(t, A, W) => LastIn(r, A, W)
<1>1. Len(s) \in Nat /\ Len(t) \in Nat /\ Len(r) = Len(s) + Len(t)
  BY DEF Joins
<1>2. ASSUME LastIn(s, A, W), None(t, A) PROVE LastIn(r, A, W)
  <2>1. PICK i \in 1..Len(s) : s[i] \in W /\ \A l \in 1..Len(s) : l > i => s[l] \notin A
    BY <1>2 DEF LastIn
  <2>2. i \in 1..Len(r) /\ r[i] = s[i]
    BY <1>1 DEF Joins
  <2>3. ASSUME NEW l \in 1..Len(r), l > i PROVE r[l] \notin A
    <3>1. CASE l \in 1..Len(s)
      <4>1. r[l] = s[l]
        BY <3>1 DEF Joins
      <4> QED
        BY <2>1, <2>3, <3>1, <4>1
    <3>2. CASE l \notin 1..Len(s)
      <4>1. l - Len(s) \in 1..Len(t) /\ r[l] = t[l - Len(s)]
        BY <3>2 DEF Joins
      <4> QED
        BY <1>2, <4>1 DEF None
    <3> QED
      BY <3>1, <3>2
  <2> QED
    BY <2>1, <2>2, <2>3 DEF LastIn
<1>3. ASSUME LastIn(t, A, W) PROVE LastIn(r, A, W)
  <2>1. PICK i \in 1..Len(t) : t[i] \in W /\ \A l \in 1..Len(t) : l > i => t[l] \notin A
    BY <1>3 DEF LastIn
  <2>2. Len(s) + i \in 1..Len(r) /\ r[Len(s) + i] = t[i]
    BY <1>1 DEF Joins
  <2>3. ASSUME NEW l \in 1..Len(r), l > Len(s) + i PROVE r[l] \notin A
    <3>1. l \notin 1..Len(s)
      BY <1>1, <2>3
    <3>2. l - Len(s) \in 1..Len(t) /\ r[l] = t[l - Len(s)]
      BY <3>1 DEF Joins
    <3>3. l - Len(s) > i
      BY <1>1, <2>3
    <3> QED
      BY <2>1, <3>2, <3>3
  <2> QED
    BY <2>1, <2>2, <2>3 DEF LastIn
<1> QED
  BY <1>2, <1>3

LEMMA OneOnly ==
  ASSUME NEW x, NEW A, NEW W
  PROVE  /\ None(<<>>, A) /\ ~LastIn(<<>>, A, W)
         /\ None(<<x>>, A) <=> x \notin A
         /\ x \in W => LastIn(<<x>>, A, W)
  BY DEF None, LastIn

\* What is left when the first has been read.
LEMMA Rest ==
  ASSUME NEW S, NEW s \in Seq(S), s # <<>>, NEW A, NEW W, NEW x, x = Head(s), NEW t, t = Tail(s)
  PROVE  /\ None(s, A) <=> None(t, A) /\ x \notin A
         /\ LastIn(s, A, W) => LastIn(t, A, W) \/ (None(t, A) /\ x \in W)
<1>1. /\ Len(t) = Len(s) - 1 /\ x = s[1] /\ Len(s) \in Nat \ {0}
      /\ \A i \in 1..Len(t) : t[i] = s[i + 1]
  BY HeadTailProperties, EmptySeq
<1>2. \A i \in 1..Len(t) : i + 1 \in 1..Len(s) /\ i + 1 # 1 /\ t[i] = s[i + 1]
  BY <1>1
<1>3. \A i \in 1..Len(s) : i = 1 \/ (i - 1 \in 1..Len(t) /\ t[i - 1] = s[i])
  <2> SUFFICES ASSUME NEW i \in 1..Len(s), i # 1 PROVE i - 1 \in 1..Len(t) /\ t[i - 1] = s[i]
    OBVIOUS
  <2>1. i - 1 \in 1..Len(t) /\ i - 1 + 1 = i
    BY <1>1
  <2> QED
    BY <1>1, <2>1
<1>4. 1 \in 1..Len(s)
  BY <1>1
<1>5. None(s, A) <=> None(t, A) /\ x \notin A
  BY <1>1, <1>2, <1>3, <1>4 DEF None
<1>6. ASSUME LastIn(s, A, W) PROVE LastIn(t, A, W) \/ (None(t, A) /\ x \in W)
  <2>1. PICK i \in 1..Len(s) : s[i] \in W /\ \A l \in 1..Len(s) : l > i => s[l] \notin A
    BY <1>6 DEF LastIn
  <2>2. CASE i = 1
    <3>1. \A l \in 1..Len(t) : l + 1 > 1
      OBVIOUS
    <3> QED
      BY <1>1, <1>2, <2>1, <2>2, <3>1 DEF None
  <2>3. CASE i # 1
    <3>1. i - 1 \in 1..Len(t) /\ t[i - 1] \in W
      BY <1>3, <2>1, <2>3
    <3>2. ASSUME NEW l \in 1..Len(t), l > i - 1 PROVE t[l] \notin A
      <4>1. l + 1 > i
        BY <1>1, <2>1, <3>2
      <4> QED
        BY <1>2, <2>1, <4>1
    <3> QED
      BY <3>1, <3>2 DEF LastIn
  <2> QED
    BY <2>2, <2>3
<1> QED
  BY <1>5, <1>6

-----------------------------------------------------------------------------
(* What is on its way, by what it says. *)

Asks(C) == {r \in Request : r.cb \in C}
AsksFor(v) == {r \in Request : r.cb = "list" /\ r.at = v}
AsksAbove(h) == {r \in Request : r.cb = "list" /\ r.gRows >= h}
Replies(C) == {m \in Message : m.rid # 0 /\ m.op \in C}
News(k) == {m \in Message : m.rid = 0 /\ m.op = k}
RowsAbove(h) == {m \in Message : m.rid # 0 /\ m.op = "list" /\ m.gRows >= h}
RowsOf(v, n) == {m \in Message : m.rid # 0 /\ m.op = "list" /\ m.at = v /\ m.ver = n}
GroupsOf(n) == {m \in Message : m.rid # 0 /\ m.op \in {"groups", "follow"} /\ m.ver >= n}

\* Calls cs: one is of C, none is a list's, the last list's is of the view v, and has
\* groups above the clips not older than h.
CallsOne(cs, C) == \E k \in 1..Len(cs) : cs[k].cb \in C
NoList(cs) == \A k \in 1..Len(cs) : cs[k].cb # "list"
ListsLast(cs, v) == \E k \in 1..Len(cs) : /\ cs[k].cb = "list" /\ cs[k].at = v
                                         /\ \A l \in 1..Len(cs) : l > k => cs[l].cb # "list"
ListsAbove(cs, h) == \E k \in 1..Len(cs) : /\ cs[k].cb = "list" /\ cs[k].gRows >= h
                                          /\ \A l \in 1..Len(cs) : l > k => cs[l].cb # "list"

\* The requests of calls.
LEMMA Requested ==
  ASSUME NEW P, Numbered(P), NEW cs \in Seq(Asked)
  PROVE  /\ Written(P, cs) \in Seq(Request)
         /\ NoList(cs) => None(Written(P, cs), Asks({"list"}))
         /\ \A C : CallsOne(cs, C) => ~None(Written(P, cs), Asks(C))
         /\ \A v : ListsLast(cs, v) => LastIn(Written(P, cs), Asks({"list"}), AsksFor(v))
         /\ \A h : ListsAbove(cs, h) => LastIn(Written(P, cs), Asks({"list"}), AsksAbove(h))
<1> DEFINE n == Len(cs)
           w == Written(P, cs)
<1>1. Highest(P) \in Nat
  BY HighestBounds
<1>2. DOMAIN cs = 1..n /\ n \in Nat
  OBVIOUS
<1>3. \A k \in 1..n : cs[k] \in Asked
  BY <1>2, ElementOfSeq
<1>4. w = [k \in 1..n |-> [rid |-> Fresh(P, k), cb |-> cs[k].cb, at |-> cs[k].at, gRows |-> cs[k].gRows]]
  BY <1>2 DEF Written
<1>5. \A k \in 1..n : Fresh(P, k) \in Nat
  BY <1>1 DEF Fresh
<1>6. \A k \in 1..n : w[k] \in Request /\ w[k].cb = cs[k].cb /\ w[k].at = cs[k].at /\ w[k].gRows = cs[k].gRows
  BY <1>3, <1>4, <1>5 DEF Asked, Request
<1>7. w = [k \in 1..n |-> w[k]]
  BY <1>4
<1> HIDE DEF w, n
<1>8. w \in [1..n -> Request]
  BY <1>6, <1>7
<1>9. w \in Seq(Request) /\ Len(w) = n
  BY <1>2, <1>8, AsSequence
<1>10. (\A k \in 1..n : cs[k].cb # "list") => None(w, Asks({"list"}))
  BY <1>6, <1>9 DEF None, Asks
<1>11. \A C : (\E k \in 1..n : cs[k].cb \in C) => ~None(w, Asks(C))
  BY <1>6, <1>9 DEF None, Asks
<1>12. ASSUME NEW v, NEW k \in 1..n, cs[k].cb = "list", cs[k].at = v, \A l \in 1..n : l > k => cs[l].cb # "list"
       PROVE  LastIn(w, Asks({"list"}), AsksFor(v))
  <2>1. w[k] \in AsksFor(v)
    BY <1>6, <1>12 DEF AsksFor
  <2>2. \A l \in 1..n : l > k => w[l] \notin Asks({"list"})
    BY <1>6, <1>12 DEF Asks
  <2> QED
    BY <1>9, <2>1, <2>2 DEF LastIn
<1>13. ASSUME NEW h, NEW k \in 1..n, cs[k].cb = "list", cs[k].gRows >= h, \A l \in 1..n : l > k => cs[l].cb # "list"
       PROVE  LastIn(w, Asks({"list"}), AsksAbove(h))
  <2>1. w[k] \in AsksAbove(h)
    BY <1>6, <1>13 DEF AsksAbove
  <2>2. \A l \in 1..n : l > k => w[l] \notin Asks({"list"})
    BY <1>6, <1>13 DEF Asks
  <2> QED
    BY <1>9, <2>1, <2>2 DEF LastIn
<1> QED
  BY <1>9, <1>10, <1>11, <1>12, <1>13 DEF w, n, NoList, CallsOne, ListsLast, ListsAbove

\* The groups are known, not older than n, or are asked for, or an event will have them
\* asked for.
GroupsKnown(ui, dm, g, n) ==
  \/ ~None(dm, Asks({"groups", "follow"})) \/ ~None(ui, News("groups"))
  \/ LastIn(ui, Replies({"groups", "follow"}), GroupsOf(n))
  \/ None(ui, Replies({"groups", "follow"})) /\ g >= n

\* The rows r are those of the view v, of version n, or the last that were asked for
\* are, or an event will have them asked for.
RowsKnown(ui, dm, r, v, n) ==
  \/ ~None(ui, News("clips"))
  \/ LastIn(dm, Asks({"list"}), AsksFor(v))
  \/ /\ None(dm, Asks({"list"}))
     /\ \/ LastIn(ui, Replies({"list"}), RowsOf(v, n))
        \/ None(ui, Replies({"list"})) /\ r.at = v /\ r.ver = n

\* The settings as the UI knows them, c, after one message and after all of them.
Learnt(m, c) == IF m.op # "settings" THEN c
                ELSE IF m.rid # 0 THEN m.ver
                ELSE IF c = m.ver - 1 THEN m.ver ELSE Mixed

Tells(ui, c, d) ==
  \E f \in [0..Len(ui) -> Int] :
    f[0] = c /\ f[Len(ui)] = d /\ \A i \in 1..Len(ui) : f[i] = Learnt(ui[i], f[i - 1])

LEMMA TellsNothing == ASSUME NEW c \in Int, NEW u, u = <<>> PROVE Tells(u, c, c)
<1> DEFINE f == [i \in 0..0 |-> c]
<1>1. Len(u) = 0 /\ 0..0 = {0} /\ 1..0 = {}
  BY EmptySeq
<1>2. f \in [0..0 -> Int] /\ f[0] = c
  OBVIOUS
<1> HIDE DEF f
<1>3. f \in [0..Len(u) -> Int] /\ f[0] = c /\ f[Len(u)] = c /\ \A i \in 1..Len(u) : f[i] = Learnt(u[i], f[i - 1])
  BY <1>1, <1>2
<1> QED
  BY <1>3 DEF Tells

LEMMA LearntInt == ASSUME NEW m \in Message, NEW c \in Int PROVE Learnt(m, c) \in Int
  BY DEF Learnt, Message, Mixed

LEMMA TellsOneMore ==
  ASSUME NEW ui \in Seq(Message), NEW c, NEW d, Tells(ui, c, d), NEW m \in Message, NEW u, Joins(u, ui, <<m>>)
  PROVE  Tells(u, c, Learnt(m, d)) /\ d \in Int
<1> DEFINE n == Len(ui)
<1>1. PICK f \in [0..n -> Int] : f[0] = c /\ f[n] = d /\ \A i \in 1..n : f[i] = Learnt(ui[i], f[i - 1])
  BY DEF Tells
<1>2. /\ n \in Nat /\ Len(u) = n + 1 /\ u[n + 1] = m
      /\ \A i \in 1..n : u[i] = ui[i]
  BY DEF Joins
<1> HIDE DEF n
<1>3. d \in Int
  BY <1>1, <1>2
<1> DEFINE g == [i \in 0..n + 1 |-> IF i = n + 1 THEN Learnt(m, d) ELSE f[i]]
<1>4. Learnt(m, d) \in Int
  BY <1>3, LearntInt
<1>5. \A i \in 0..n + 1 : i = n + 1 \/ i \in 0..n
  BY <1>2
<1>6. g \in [0..n + 1 -> Int]
  BY <1>1, <1>4, <1>5
<1>7. g[0] = c /\ g[n] = d /\ g[n + 1] = Learnt(m, d)
  BY <1>1, <1>2
<1>8. \A i \in 0..n : g[i] = f[i]
  BY <1>2
<1> HIDE DEF g
<1>9. ASSUME NEW i \in 1..n + 1 PROVE g[i] = Learnt(u[i], g[i - 1])
  <2>1. CASE i = n + 1
    <3>1. i - 1 = n
      BY <1>2, <2>1
    <3> QED
      BY <1>2, <1>7, <2>1, <3>1
  <2>2. CASE i # n + 1
    <3>1. i \in 1..n /\ i \in 0..n /\ i - 1 \in 0..n
      BY <1>2, <2>2
    <3> QED
      BY <1>1, <1>2, <1>8, <3>1
  <2> QED
    BY <2>1, <2>2
<1> QED
  BY <1>2, <1>3, <1>6, <1>7, <1>9 DEF Tells

LEMMA TellsRest ==
  ASSUME NEW ui \in Seq(Message), ui # <<>>, NEW c, NEW d, Tells(ui, c, d),
         NEW m, m = Head(ui), NEW u, u = Tail(ui)
  PROVE  Tells(u, Learnt(m, c), d)
<1> DEFINE n == Len(u)
<1>1. /\ n \in Nat /\ Len(ui) = n + 1 /\ m = ui[1]
      /\ \A i \in 1..n : u[i] = ui[i + 1]
  BY HeadTailProperties, EmptySeq
<1>2. PICK f \in [0..n + 1 -> Int] : f[0] = c /\ f[n + 1] = d /\ \A i \in 1..n + 1 : f[i] = Learnt(ui[i], f[i - 1])
  BY <1>1 DEF Tells
<1> HIDE DEF n
<1> DEFINE g == [i \in 0..n |-> f[i + 1]]
<1>3. \A i \in 0..n : i + 1 \in 0..n + 1
  BY <1>1
<1>4. g \in [0..n -> Int]
  BY <1>2, <1>3
<1>5. g[n] = d /\ g[0] = f[1]
  BY <1>1, <1>2
<1>6. f[1] = Learnt(m, c)
  <2>1. 1 \in 1..n + 1 /\ 1 - 1 = 0
    BY <1>1
  <2> QED
    BY <1>1, <1>2, <2>1
<1>7. \A i \in 0..n : g[i] = f[i + 1]
  OBVIOUS
<1> HIDE DEF g
<1>8. ASSUME NEW i \in 1..n PROVE g[i] = Learnt(u[i], g[i - 1])
  <2>1. i \in 0..n /\ i - 1 \in 0..n /\ i + 1 \in 1..n + 1 /\ (i - 1) + 1 = i /\ (i + 1) - 1 = i
    BY <1>1
  <2>2. g[i] = f[i + 1] /\ g[i - 1] = f[i]
    BY <1>7, <2>1
  <2>3. f[i + 1] = Learnt(ui[i + 1], f[i])
    BY <1>2, <2>1
  <2> QED
    BY <1>1, <2>2, <2>3
<1>9. n = Len(u)
  BY DEF n
<1> QED
  BY <1>4, <1>5, <1>6, <1>8, <1>9 DEF Tells

\* The daemon says x.
LEMMA SaidMore ==
  ASSUME NEW ui \in Seq(Message), NEW x \in Message, NEW u, u = ui \o <<x>>
  PROVE  /\ u \in Seq(Message) /\ \A A : None(u, A) <=> None(ui, A) /\ x \notin A
         /\ \A dm, g, n : x \notin Replies({"groups", "follow"}) /\ GroupsKnown(ui, dm, g, n) => GroupsKnown(u, dm, g, n)
         /\ \A dm, g, n : x \in News("groups") \/ x \in GroupsOf(n) => GroupsKnown(u, dm, g, n)
         /\ \A dm, r, v, n : x \notin Replies({"list"}) /\ RowsKnown(ui, dm, r, v, n) => RowsKnown(u, dm, r, v, n)
         /\ \A dm, r, v, n : x \in News("clips") => RowsKnown(u, dm, r, v, n)
         /\ \A dm, r, v, n : x \in RowsOf(v, n) /\ None(dm, Asks({"list"})) => RowsKnown(u, dm, r, v, n)
         /\ \A c, d : Tells(ui, c, d) => Tells(u, c, Learnt(x, d)) /\ d \in Int
<1>1. <<x>> \in Seq(Message)
  OBVIOUS
<1>2. u \in Seq(Message) /\ Joins(u, ui, <<x>>)
  BY <1>1, Joined, Zenon
<1>3. \A A : None(u, A) <=> None(ui, A) /\ x \notin A
  BY <1>2, NoneJoined, OneOnly
<1>4. \A A, W : /\ LastIn(ui, A, W) /\ x \notin A => LastIn(u, A, W)
                /\ x \in W => LastIn(u, A, W)
  <2> TAKE A, W
  <2>1. LastIn(ui, A, W) /\ None(<<x>>, A) => LastIn(u, A, W)
    BY <1>2, LastJoined
  <2>2. LastIn(<<x>>, A, W) => LastIn(u, A, W)
    BY <1>2, LastJoined
  <2> QED
    BY <2>1, <2>2, OneOnly
<1>5. \A c, d : Tells(ui, c, d) => Tells(u, c, Learnt(x, d)) /\ d \in Int
  BY <1>2, TellsOneMore
<1>6. \A dm, g, n : x \notin Replies({"groups", "follow"}) /\ GroupsKnown(ui, dm, g, n) => GroupsKnown(u, dm, g, n)
  BY <1>3, <1>4 DEF GroupsKnown
<1>7. \A dm, g, n : x \in News("groups") \/ x \in GroupsOf(n) => GroupsKnown(u, dm, g, n)
  BY <1>3, <1>4 DEF GroupsKnown
<1>8. \A dm, r, v, n : x \notin Replies({"list"}) /\ RowsKnown(ui, dm, r, v, n) => RowsKnown(u, dm, r, v, n)
  BY <1>3, <1>4 DEF RowsKnown
<1>9. \A dm, r, v, n : x \in News("clips") => RowsKnown(u, dm, r, v, n)
  BY <1>3, <1>4 DEF RowsKnown
<1>10. \A dm, r, v, n : x \in RowsOf(v, n) /\ None(dm, Asks({"list"})) => RowsKnown(u, dm, r, v, n)
  BY <1>3, <1>4 DEF RowsKnown
<1> QED
  BY <1>2, <1>3, <1>5, <1>6, <1>7, <1>8, <1>9, <1>10

\* The UI calls cs.
LEMMA AskedMore ==
  ASSUME NEW P, Numbered(P), NEW cs \in Seq(Asked), NEW dm \in Seq(Request), NEW d, d = dm \o Written(P, cs)
  PROVE  /\ \A C : ~None(dm, Asks(C)) \/ CallsOne(cs, C) => ~None(d, Asks(C))
         /\ \A ui, g, n : GroupsKnown(ui, dm, g, n) => GroupsKnown(ui, d, g, n)
         /\ \A ui, r, v, n : NoList(cs) /\ RowsKnown(ui, dm, r, v, n) => RowsKnown(ui, d, r, v, n)
         /\ \A ui, r, v, n : ListsLast(cs, v) => RowsKnown(ui, d, r, v, n)
<1> DEFINE w == Written(P, cs)
<1>1. /\ w \in Seq(Request)
      /\ NoList(cs) => None(w, Asks({"list"}))
      /\ \A C : CallsOne(cs, C) => ~None(w, Asks(C))
      /\ \A v : ListsLast(cs, v) => LastIn(w, Asks({"list"}), AsksFor(v))
  BY Requested
<1> HIDE DEF w
<1>2. Joins(d, dm, w)
  BY <1>1, Joined, Zenon DEF w
<1>3. \A A : None(d, A) <=> None(dm, A) /\ None(w, A)
  BY <1>2, NoneJoined
<1>4. \A A, W : /\ LastIn(dm, A, W) /\ None(w, A) => LastIn(d, A, W)
                /\ LastIn(w, A, W) => LastIn(d, A, W)
  BY <1>2, LastJoined
<1>5. \A C : ~None(dm, Asks(C)) \/ CallsOne(cs, C) => ~None(d, Asks(C))
  BY <1>1, <1>3
<1>6. \A ui, g, n : GroupsKnown(ui, dm, g, n) => GroupsKnown(ui, d, g, n)
  BY <1>3 DEF GroupsKnown
<1>7. \A ui, r, v, n : NoList(cs) /\ RowsKnown(ui, dm, r, v, n) => RowsKnown(ui, d, r, v, n)
  BY <1>1, <1>3, <1>4 DEF RowsKnown
<1>8. \A ui, r, v, n : ListsLast(cs, v) => RowsKnown(ui, d, r, v, n)
  BY <1>1, <1>4 DEF RowsKnown
<1> QED
  BY <1>5, <1>6, <1>7, <1>8

\* The daemon takes the next request.
LEMMA TakenUp ==
  ASSUME NEW dm \in Seq(Request), dm # <<>>, NEW q, q = Head(dm), NEW d, d = Tail(dm)
  PROVE  /\ \A C : ~None(dm, Asks(C)) /\ q \notin Asks(C) => ~None(d, Asks(C))
         /\ \A ui, g, n : q \notin Asks({"groups", "follow"}) /\ GroupsKnown(ui, dm, g, n) => GroupsKnown(ui, d, g, n)
         /\ \A ui, r, v, n : q \notin Asks({"list"}) /\ RowsKnown(ui, dm, r, v, n) => RowsKnown(ui, d, r, v, n)
<1>1. \A A : None(dm, A) <=> None(d, A) /\ q \notin A
  BY Rest
<1>2. \A A, W : LastIn(dm, A, W) => LastIn(d, A, W) \/ (None(d, A) /\ q \in W)
  BY Rest
<1>3. \A v : AsksFor(v) \subseteq Asks({"list"})
  BY DEF AsksFor, Asks
<1>4. \A ui, g, n : q \notin Asks({"groups", "follow"}) /\ GroupsKnown(ui, dm, g, n) => GroupsKnown(ui, d, g, n)
  BY <1>1 DEF GroupsKnown
<1>5. \A ui, r, v, n : q \notin Asks({"list"}) /\ RowsKnown(ui, dm, r, v, n) => RowsKnown(ui, d, r, v, n)
  BY <1>1, <1>2, <1>3 DEF RowsKnown
<1> QED
  BY <1>1, <1>4, <1>5

\* The UI reads m.
LEMMA ReadOne ==
  ASSUME NEW ui \in Seq(Message), ui # <<>>, NEW m, m = Head(ui), NEW u, u = Tail(ui)
  PROVE  /\ u \in Seq(Message) /\ m \in Message
         /\ \A A : None(ui, A) => None(u, A) /\ m \notin A
         /\ \A dm, g, n : GroupsKnown(ui, dm, g, n) /\ m \notin News("groups") =>
              IF m \in Replies({"groups", "follow"}) THEN GroupsKnown(u, dm, m.ver, n) ELSE GroupsKnown(u, dm, g, n)
         /\ \A dm, r, v, n : RowsKnown(ui, dm, r, v, n) /\ m \notin News("clips") =>
              IF m \in Replies({"list"}) THEN RowsKnown(u, dm, [at |-> m.at, ver |-> m.ver, gRows |-> m.gRows], v, n)
                                         ELSE RowsKnown(u, dm, r, v, n)
         /\ \A c, d : Tells(ui, c, d) => Tells(u, Learnt(m, c), d)
<1>1. u \in Seq(Message) /\ m \in Message
  BY HeadTailProperties
<1>2. \A A : None(ui, A) <=> None(u, A) /\ m \notin A
  BY Rest
<1>3. \A A, W : LastIn(ui, A, W) => LastIn(u, A, W) \/ (None(u, A) /\ m \in W)
  BY Rest
<1>4. \A n : m \in GroupsOf(n) => m \in Replies({"groups", "follow"}) /\ m.ver >= n
  BY DEF GroupsOf, Replies
<1>5. \A v, n : m \in RowsOf(v, n) => m \in Replies({"list"}) /\ m.at = v /\ m.ver = n
  BY DEF RowsOf, Replies
<1>6. \A dm, g, n : GroupsKnown(ui, dm, g, n) /\ m \notin News("groups") =>
        IF m \in Replies({"groups", "follow"}) THEN GroupsKnown(u, dm, m.ver, n) ELSE GroupsKnown(u, dm, g, n)
  BY <1>2, <1>3, <1>4 DEF GroupsKnown
<1>7. \A dm, r, v, n : RowsKnown(ui, dm, r, v, n) /\ m \notin News("clips") =>
        IF m \in Replies({"list"}) THEN RowsKnown(u, dm, [at |-> m.at, ver |-> m.ver, gRows |-> m.gRows], v, n)
                                   ELSE RowsKnown(u, dm, r, v, n)
  BY <1>2, <1>3, <1>5 DEF RowsKnown
<1>8. \A c, d : Tells(ui, c, d) => Tells(u, Learnt(m, c), d)
  BY TellsRest
<1> QED
  BY <1>1, <1>2, <1>6, <1>7, <1>8

\* The settings are known, version n, or asked for.
CopyKnown(ui, dm, c, n) == Tells(ui, c, n) \/ ~None(dm, Asks({"settings"}))

Heard(ui, c) == \E d : Tells(ui, c, d)

\* Neither an answer nor an event.
Odd == {m \in Message : m.rid = 0 /\ m.op \notin Kind}

\* Known as before, of the data n.
Kept(ui, dm, now, u, d, then) ==
  /\ \A c : Heard(ui, c) => Heard(u, c)
  /\ \A c : Heard(ui, c) /\ CopyKnown(ui, dm, c, now["settings"]) => CopyKnown(u, d, c, then["settings"])
  /\ \A g : GroupsKnown(ui, dm, g, now["groups"]) => GroupsKnown(u, d, g, then["groups"])
  /\ \A r, v : RowsKnown(ui, dm, r, v, now["clips"]) => RowsKnown(u, d, r, v, then["clips"])
  /\ None(ui, Odd) => None(u, Odd)

\* What the daemon has said of its data changes with an event about k.
Follows(now, k, then) ==
  /\ then \in [Kind -> Nat] /\ \A x \in Kind \ {k} : then[x] = now[x]
  /\ k = "settings" => then[k] = now[k] + 1

\* The data k changes, and an event says so.
LEMMA EventKept ==
  ASSUME NEW ui \in Seq(Message), NEW k \in Kind, NEW now \in [Kind -> Nat], NEW then, Follows(now, k, then),
         NEW e \in Message, e.rid = 0, e.op = k, k = "settings" => e.ver = now[k] + 1,
         NEW u, u = ui \o <<e>>
  PROVE  /\ u \in Seq(Message) /\ \A dm : Kept(ui, dm, now, u, dm, then)
         /\ None(u, Replies({"hello"})) <=> None(ui, Replies({"hello"}))
<1>1. e \in Message /\ e.rid = 0 /\ e.op = k /\ (k = "settings" => e.ver = now[k] + 1) /\ now[k] \in Nat
  OBVIOUS
<1>2. /\ u \in Seq(Message)
      /\ \A A : None(u, A) <=> None(ui, A) /\ e \notin A
      /\ \A dm, g, n : e \notin Replies({"groups", "follow"}) /\ GroupsKnown(ui, dm, g, n) => GroupsKnown(u, dm, g, n)
      /\ \A dm, g, n : e \in News("groups") => GroupsKnown(u, dm, g, n)
      /\ \A dm, r, v, n : e \notin Replies({"list"}) /\ RowsKnown(ui, dm, r, v, n) => RowsKnown(u, dm, r, v, n)
      /\ \A dm, r, v, n : e \in News("clips") => RowsKnown(u, dm, r, v, n)
      /\ \A c, d : Tells(ui, c, d) => Tells(u, c, Learnt(e, d)) /\ d \in Int
  BY <1>1, SaidMore
<1>3. \A C : e \notin Replies(C)
  BY <1>1 DEF Replies
<1>4. e \in News(k) /\ e \notin Odd
  BY <1>1 DEF News, Odd
<1>5. \A c : Heard(ui, c) => Heard(u, c)
  BY <1>2 DEF Heard
<1>6. ASSUME NEW dm, NEW c, CopyKnown(ui, dm, c, now["settings"]) PROVE CopyKnown(u, dm, c, then["settings"])
  <2>1. CASE k = "settings"
    <3>1. then["settings"] = now["settings"] + 1 /\ now["settings"] \in Nat
      BY <2>1 DEF Kind, Follows
    <3>2. e.op = "settings" /\ e.rid = 0 /\ e.ver = now["settings"] + 1
      BY <1>1, <2>1, Zenon
    <3>3. now["settings"] = e.ver - 1
      BY <3>1, <3>2
    <3>4. Learnt(e, now["settings"]) = then["settings"]
      BY <3>1, <3>2, <3>3 DEF Learnt
    <3> QED
      BY <1>2, <1>6, <3>4 DEF CopyKnown
  <2>2. CASE k # "settings"
    <3>1. then["settings"] = now["settings"] /\ Learnt(e, now["settings"]) = now["settings"]
      BY <1>1, <2>2 DEF Learnt, Kind, Follows
    <3> QED
      BY <1>2, <1>6, <3>1 DEF CopyKnown
  <2> QED
    BY <2>1, <2>2
<1>7. ASSUME NEW dm, NEW g, GroupsKnown(ui, dm, g, now["groups"]) PROVE GroupsKnown(u, dm, g, then["groups"])
  <2>1. CASE k = "groups"
    BY <1>2, <1>4, <2>1
  <2>2. CASE k # "groups"
    <3>1. then["groups"] = now["groups"]
      BY <2>2 DEF Kind, Follows
    <3> QED
      BY <1>2, <1>3, <1>7, <3>1
  <2> QED
    BY <2>1, <2>2
<1>8. ASSUME NEW dm, NEW r, NEW v, RowsKnown(ui, dm, r, v, now["clips"]) PROVE RowsKnown(u, dm, r, v, then["clips"])
  <2>1. CASE k = "clips"
    BY <1>2, <1>4, <2>1
  <2>2. CASE k # "clips"
    <3>1. then["clips"] = now["clips"]
      BY <2>2 DEF Kind, Follows
    <3> QED
      BY <1>2, <1>3, <1>8, <3>1
  <2> QED
    BY <2>1, <2>2
<1>9. None(ui, Odd) => None(u, Odd)
  BY <1>2, <1>4
<1>10. None(u, Replies({"hello"})) <=> None(ui, Replies({"hello"}))
  BY <1>2, <1>3
<1> QED
  BY <1>2, <1>5, <1>6, <1>7, <1>8, <1>9, <1>10 DEF Kept

\* The next request is answered.
LEMMA AnswerKept ==
  ASSUME NEW ui \in Seq(Message), NEW dm \in Seq(Request), dm # <<>>, NEW q, q = Head(dm), q.rid # 0,
         NEW now, NEW a \in Message, a.rid = q.rid, a.op = q.cb, a.at = q.at,
         q.cb \in {"groups", "follow"} => a.ver >= now["groups"],
         q.cb = "list" => a.ver = now["clips"],
         q.cb = "settings" => a.ver = now["settings"],
         NEW u, u = ui \o <<a>>, NEW d, d = Tail(dm)
  PROVE  /\ u \in Seq(Message) /\ Kept(ui, dm, now, u, d, now)
         /\ ~None(u, Replies({"hello"})) => ~None(ui, Replies({"hello"})) \/ q.cb = "hello"
<1>1. q \in Request
  BY HeadTailProperties
<1>2. /\ u \in Seq(Message)
      /\ \A A : None(u, A) <=> None(ui, A) /\ a \notin A
      /\ \A x, g, n : a \notin Replies({"groups", "follow"}) /\ GroupsKnown(ui, x, g, n) => GroupsKnown(u, x, g, n)
      /\ \A x, g, n : a \in GroupsOf(n) => GroupsKnown(u, x, g, n)
      /\ \A x, r, v, n : a \notin Replies({"list"}) /\ RowsKnown(ui, x, r, v, n) => RowsKnown(u, x, r, v, n)
      /\ \A x, r, v, n : a \in RowsOf(v, n) /\ None(x, Asks({"list"})) => RowsKnown(u, x, r, v, n)
      /\ \A c, n : Tells(ui, c, n) => Tells(u, c, Learnt(a, n)) /\ n \in Int
  BY SaidMore
<1>3. /\ \A C : ~None(dm, Asks(C)) /\ q \notin Asks(C) => ~None(d, Asks(C))
      /\ \A x, g, n : q \notin Asks({"groups", "follow"}) /\ GroupsKnown(x, dm, g, n) => GroupsKnown(x, d, g, n)
      /\ \A x, r, v, n : q \notin Asks({"list"}) /\ RowsKnown(x, dm, r, v, n) => RowsKnown(x, d, r, v, n)
  BY TakenUp
<1>4. \A C : (a \in Replies(C) <=> q.cb \in C) /\ (q \in Asks(C) <=> q.cb \in C)
  BY <1>1 DEF Replies, Asks
<1>5. a \notin Odd
  BY DEF Odd
<1>6. \A c : Heard(ui, c) => Heard(u, c)
  BY <1>2 DEF Heard
<1>7. ASSUME NEW c, Heard(ui, c), CopyKnown(ui, dm, c, now["settings"]) PROVE CopyKnown(u, d, c, now["settings"])
  <2>1. CASE q.cb = "settings"
    <3>1. \A n : Learnt(a, n) = now["settings"]
      BY <2>1 DEF Learnt
    <3> QED
      BY <1>2, <1>7, <3>1 DEF CopyKnown, Heard
  <2>2. CASE q.cb # "settings"
    <3>1. \A n : Learnt(a, n) = n
      BY <2>2 DEF Learnt
    <3>2. q \notin Asks({"settings"})
      BY <1>4, <2>2
    <3> QED
      BY <1>2, <1>3, <1>7, <3>1, <3>2 DEF CopyKnown
  <2> QED
    BY <2>1, <2>2
<1>8. ASSUME NEW g, GroupsKnown(ui, dm, g, now["groups"]) PROVE GroupsKnown(u, d, g, now["groups"])
  <2>1. CASE q.cb \in {"groups", "follow"}
    <3>1. a \in GroupsOf(now["groups"])
      BY <2>1 DEF GroupsOf, Kind
    <3> QED
      BY <1>2, <3>1
  <2>2. CASE q.cb \notin {"groups", "follow"}
    <3>1. a \notin Replies({"groups", "follow"}) /\ q \notin Asks({"groups", "follow"})
      BY <1>4, <2>2
    <3> QED
      BY <1>2, <1>3, <1>8, <3>1
  <2> QED
    BY <2>1, <2>2
<1>9. ASSUME NEW r, NEW v, RowsKnown(ui, dm, r, v, now["clips"]) PROVE RowsKnown(u, d, r, v, now["clips"])
  <2>1. CASE q.cb = "list"
    <3>1. q \in Asks({"list"})
      BY <1>4, <2>1
    <3>2. CASE None(d, Asks({"list"})) /\ q \in AsksFor(v)
      <4>1. a \in RowsOf(v, now["clips"])
        BY <2>1, <3>2 DEF AsksFor, RowsOf
      <4> QED
        BY <1>2, <3>2, <4>1
    <3>3. CASE ~(None(d, Asks({"list"})) /\ q \in AsksFor(v))
      <4>1. \/ ~None(ui, News("clips")) \/ LastIn(d, Asks({"list"}), AsksFor(v))
        <5>1. \A A : None(dm, A) <=> None(d, A) /\ q \notin A
          BY Rest
        <5>2. \A A, W : LastIn(dm, A, W) => LastIn(d, A, W) \/ (None(d, A) /\ q \in W)
          BY Rest
        <5> QED
          BY <1>9, <3>1, <3>3, <5>1, <5>2 DEF RowsKnown
      <4> QED
        BY <1>2, <4>1 DEF RowsKnown
    <3> QED
      BY <3>2, <3>3
  <2>2. CASE q.cb # "list"
    <3>1. a \notin Replies({"list"}) /\ q \notin Asks({"list"})
      BY <1>4, <2>2
    <3> QED
      BY <1>2, <1>3, <1>9, <3>1
  <2> QED
    BY <2>1, <2>2
<1>10. ~None(u, Replies({"hello"})) => ~None(ui, Replies({"hello"})) \/ q.cb = "hello"
  BY <1>2, <1>4
<1>11. None(ui, Odd) => None(u, Odd)
  BY <1>2, <1>5
<1> QED
  BY <1>2, <1>6, <1>7, <1>8, <1>9, <1>10, <1>11 DEF Kept

\* What is known of the line: who greets is told of events, and no line, no rows.
LineInv ==
  /\ connected /\ ~cut => up
  /\ ready => ~offline
  /\ ready /\ ~cut => sub
  /\ ~cut /\ ~None(toUi, Replies({"hello"})) => sub
  /\ ~connected => toUi = <<>>
  /\ None(toUi, Odd) /\ Heard(toUi, copy)

\* With the greeting through, everything is known or will be.
KnownInv == ready /\ ~cut =>
  /\ CopyKnown(toUi, toDaemon, copy, data["settings"])
  /\ GroupsKnown(toUi, toDaemon, groups, told)
  /\ Root(view) \/ refreshDue \/ searchDue \/ RowsKnown(toUi, toDaemon, rows, view, data["clips"])

LEMMA Wires ==
  ASSUME LinkInv
  PROVE  /\ toUi \in Seq(Message) /\ toDaemon \in Seq(Request) /\ Numbered(pending)
         /\ data \in [Kind -> Nat] /\ (ready => connected) /\ (cut => connected)
         /\ toDaemon # <<>> => Head(toDaemon) \in Request /\ Head(toDaemon).rid # 0
<1>1. /\ toUi \in Seq(Message) /\ toDaemon \in Seq(Request) /\ Numbered(pending)
      /\ data \in [Kind -> Nat] /\ (ready => connected) /\ (cut => connected)
  BY DEF LinkInv, LinkType, Sound
<1>2. ASSUME toDaemon # <<>> PROVE Head(toDaemon) \in Request /\ Head(toDaemon).rid # 0
  <2>1. Head(toDaemon) = toDaemon[1] /\ 1 \in 1..Len(toDaemon) /\ Head(toDaemon) \in Request
    BY <1>1, <1>2, HeadTailProperties, EmptySeq
  <2> QED
    BY <2>1 DEF LinkInv, Sound, Requests
<1> QED
  BY <1>1, <1>2

LEMMA Silence == \A u, c : u = <<>> /\ c \in Int => None(u, Odd) /\ Heard(u, c) /\ None(u, Replies({"hello"}))
<1>1. \A u, A : u = <<>> => None(u, A)
  BY OneOnly
<1> QED
  BY <1>1, TellsNothing DEF Heard

LEMMA StartsQuiet == Init => LineInv /\ KnownInv
<1> SUFFICES ASSUME Init PROVE LineInv /\ KnownInv
  OBVIOUS
<1>1. /\ toUi = <<>> /\ copy \in Int /\ ready = FALSE /\ connected = FALSE
  BY DEF Init, LinkInit, Mixed
<1> QED
  BY <1>1, Silence DEF LineInv, KnownInv

\* The daemon dies, starts or is late, and the line goes down and comes back: what
\* the popup shows is not claimed to be current until it has greeted anew.
LEMMA LineQuiet ==
  ASSUME PopupInv, LineInv, KnownInv, LineDown \/ ((Retry \/ Die \/ Begin \/ Late) /\ Still)
  PROVE  LineInv' /\ KnownInv'
<1>1. copy \in Int
  BY DEF PopupInv, LinkInv, LinkType, Mixed
<1>2. CASE LineDown
  <2>1. /\ UNCHANGED <<up, data, told, sub, copy, budget>>
        /\ connected' = FALSE /\ cut' = FALSE /\ ready' = FALSE /\ toUi' = <<>>
    BY <1>2 DEF LineDown, Down, daemon
  <2> QED
    BY <1>1, <2>1, Silence DEF LineInv, KnownInv
<1>3. CASE Retry /\ Still
  <2>1. /\ UNCHANGED <<up, data, told, ready, copy, budget>> /\ ~ready
        /\ connected' = up /\ toUi' = <<>> /\ cut' = FALSE
    BY <1>3 DEF Retry
  <2> QED
    BY <1>1, <2>1, Silence DEF LineInv, KnownInv
<1>4. CASE Die /\ Still
  <2>1. /\ UNCHANGED <<data, told, toUi, connected, ready, late, pending, copy, offline>>
        /\ up' = FALSE /\ cut' = connected /\ sub' = FALSE
    BY <1>4 DEF Die, Still, popup
  <2>2. ready => connected
    BY DEF PopupInv, LinkInv, LinkType
  <2> QED
    BY <1>1, <2>1, <2>2, Silence DEF LineInv, KnownInv
<1>5. CASE Begin /\ Still
  <2>1. /\ up' = TRUE /\ ~up
        /\ UNCHANGED <<data, told, sub, toDaemon, toUi, cut, connected, ready, late, pending, copy, offline, groups, rows, view, refreshDue, searchDue>>
    BY <1>5 DEF Begin, wires, side, Still, popup
  <2> QED
    BY <2>1 DEF LineInv, KnownInv
<1>6. CASE Late /\ Still
  <2>1. UNCHANGED <<up, data, told, sub, toDaemon, toUi, cut, connected, ready, pending, copy, offline, groups, rows, view, refreshDue, searchDue>>
    BY <1>6 DEF Late, wires, daemon, Still, popup
  <2> QED
    BY <2>1 DEF LineInv, KnownInv
<1> QED
  BY <1>2, <1>3, <1>4, <1>5, <1>6

\* What the daemon has said of its data.
Said == [data EXCEPT !["groups"] = told]

LEMMA SaidIs ==
  ASSUME data \in [Kind -> Nat], told \in Nat
  PROVE  /\ Said \in [Kind -> Nat] /\ Said["clips"] = data["clips"] /\ Said["settings"] = data["settings"]
         /\ Said["groups"] = told
  BY DEF Said, Kind

\* Of the changes S there is an event about k, of version ver.
LEMMA ChangeSaid ==
  ASSUME LinkInv, NEW k \in Kind, NEW S \in IF k = "clips" THEN WithClips ELSE {{k}}, Changed(S),
         told' = IF k = "groups" THEN data["groups"] + 1 ELSE told
  PROVE  Said \in [Kind -> Nat] /\ Follows(Said, k, Said') /\ (k = "settings" => data[k] + 1 = Said[k] + 1)
<1>1. data \in [Kind -> Nat] /\ told \in Nat /\ {"clips", "groups", "settings"} = Kind
  BY DEF LinkInv, LinkType, Kind
<1>2. data' \in [Kind -> Nat] /\ \A x \in Kind : data'[x] = IF x \in S THEN data[x] + 1 ELSE data[x]
  BY Counted
<1>3. /\ Said \in [Kind -> Nat] /\ Said["clips"] = data["clips"] /\ Said["settings"] = data["settings"]
      /\ Said["groups"] = told
  BY <1>1, SaidIs
<1>4. told' \in Nat
  BY <1>1
<1>5. /\ Said' \in [Kind -> Nat] /\ Said'["clips"] = data'["clips"] /\ Said'["settings"] = data'["settings"]
      /\ Said'["groups"] = told'
  BY <1>2, <1>4 DEF Said, Kind
<1>6. "settings" \in S <=> k = "settings"
  BY <1>1 DEF WithClips
<1>7. "clips" \in S <=> k = "clips"
  BY <1>1 DEF WithClips
<1>8. ASSUME NEW x \in Kind \ {k} PROVE Said'[x] = Said[x]
  <2>1. CASE x = "clips"
    BY <1>1, <1>2, <1>3, <1>5, <1>7, <1>8, <2>1
  <2>2. CASE x = "settings"
    BY <1>1, <1>2, <1>3, <1>5, <1>6, <1>8, <2>2
  <2>3. CASE x = "groups"
    BY <1>3, <1>5, <1>8, <2>3
  <2> QED
    BY <1>1, <2>1, <2>2, <2>3
<1>9. k = "settings" => Said'[k] = Said[k] + 1 /\ Said[k] = data[k]
  BY <1>1, <1>2, <1>3, <1>5, <1>6
<1> QED
  BY <1>3, <1>5, <1>8, <1>9 DEF Follows

\* What is kept on its way is known as before.
LEMMA KeptKnown ==
  ASSUME LinkInv, LinkInv', LineInv, KnownInv, Kept(toUi, toDaemon, Said, toUi', toDaemon', Said'),
         UNCHANGED <<copy, groups, rows, view, refreshDue, searchDue, ready, cut>>
  PROVE  KnownInv' /\ None(toUi', Odd) /\ Heard(toUi', copy)
<1>1. /\ Said["clips"] = data["clips"] /\ Said["settings"] = data["settings"] /\ Said["groups"] = told
  BY SaidIs DEF LinkInv, LinkType
<1>2. data' \in [Kind -> Nat] /\ told' \in Nat
  BY DEF LinkInv, LinkType
<1>3. /\ Said'["clips"] = data'["clips"] /\ Said'["settings"] = data'["settings"] /\ Said'["groups"] = told'
  BY <1>2 DEF Said, Kind
<1>4. None(toUi, Odd) /\ Heard(toUi, copy)
  BY DEF LineInv
<1> QED
  BY <1>1, <1>3, <1>4 DEF Kept, KnownInv

\* The data k changes, and those who listen are told.
LEMMA EventQuiet ==
  ASSUME PopupInv, LineInv, NEW k \in Kind, NEW then, Follows(Said, k, then), NEW u, u = toUi \o Event(k)
  PROVE  /\ u \in Seq(Message)
         /\ sub => Kept(toUi, toDaemon, Said, u, toDaemon, then)
         /\ ~sub => u = toUi
         /\ None(u, Replies({"hello"})) <=> None(toUi, Replies({"hello"}))
         /\ None(u, Odd) /\ Heard(u, copy)
<1> DEFINE e == [rid |-> 0, op |-> k, at |-> Anywhere, gRows |-> -1, ver |-> data[k] + 1]
<1>1. toUi \in Seq(Message) /\ data \in [Kind -> Nat] /\ told \in Nat
  BY Wires DEF PopupInv, LinkInv, LinkType
<1>2. None(toUi, Odd) /\ Heard(toUi, copy)
  BY DEF LineInv
<1>3. Said \in [Kind -> Nat] /\ Said["settings"] = data["settings"]
  BY <1>1, SaidIs
<1>4. e \in Message /\ e.rid = 0 /\ e.op = k /\ (k = "settings" => e.ver = Said[k] + 1)
  BY <1>1, <1>3, Questions DEF Message, Version
<1>5. Event(k) = IF sub THEN <<e>> ELSE <<>>
  BY DEF Event
<1> HIDE DEF e
<1>6. CASE sub
  <2>1. u = toUi \o <<e>>
    BY <1>5, <1>6
  <2>2. /\ u \in Seq(Message) /\ Kept(toUi, toDaemon, Said, u, toDaemon, then)
        /\ None(u, Replies({"hello"})) <=> None(toUi, Replies({"hello"}))
    BY <1>1, <1>3, <1>4, <2>1, EventKept
  <2> QED
    BY <1>2, <1>6, <2>2 DEF Kept
<1>7. CASE ~sub
  <2>1. u = toUi
    BY <1>1, <1>5, <1>7, NothingSaid
  <2> QED
    BY <1>1, <1>2, <1>7, <2>1
<1> QED
  BY <1>6, <1>7

\* Something changes.
LEMMA ChangeQuiet ==
  ASSUME PopupInv, PopupInv', LineInv, KnownInv, NEW k \in Kind, Change(k), Still
  PROVE  LineInv' /\ KnownInv'
<1>1. /\ UNCHANGED <<up, sub, toDaemon, cut, connected, ready, late, pending, copy>>
      /\ UNCHANGED <<offline, groups, rows, view, refreshDue, searchDue>>
      /\ toUi' = IF connected /\ ~cut THEN toUi \o Event(k) ELSE toUi
      /\ told' = IF k = "groups" THEN data["groups"] + 1 ELSE told
  BY DEF Change, Say, side, Still, popup
<1>2. PICK S \in IF k = "clips" THEN WithClips ELSE {{k}} : Changed(S)
  BY DEF Change
<1>3. Follows(Said, k, Said')
  BY <1>1, <1>2, ChangeSaid DEF PopupInv
<1>4. /\ toUi \in Seq(Message) /\ (ready => connected)
      /\ LinkInv /\ LinkInv'
  BY Wires DEF PopupInv
<1>5. CASE connected /\ ~cut
  <2>1. \A then, u : Follows(Said, k, then) /\ u = toUi \o Event(k) =>
          /\ sub => Kept(toUi, toDaemon, Said, u, toDaemon, then)
          /\ None(u, Replies({"hello"})) <=> None(toUi, Replies({"hello"}))
          /\ None(u, Odd) /\ Heard(u, copy)
    BY EventQuiet
  <2>2. /\ sub => Kept(toUi, toDaemon, Said, toUi', toDaemon', Said')
        /\ None(toUi', Replies({"hello"})) <=> None(toUi, Replies({"hello"}))
        /\ None(toUi', Odd) /\ Heard(toUi', copy)
    BY <1>1, <1>3, <1>5, <2>1
  <2>3. LineInv'
    BY <1>1, <1>5, <2>2 DEF LineInv
  <2>4. CASE sub
    BY <1>1, <1>4, <2>2, <2>3, <2>4, KeptKnown
  <2>5. CASE ~sub
    BY <1>1, <1>5, <2>3, <2>5 DEF LineInv, KnownInv
  <2> QED
    BY <2>4, <2>5
<1>6. CASE ~(connected /\ ~cut)
  BY <1>1, <1>4, <1>6 DEF LineInv, KnownInv
<1> QED
  BY <1>5, <1>6

\* The groups change and nothing is said: of that nothing is claimed.
LEMMA UnsaidQuiet ==
  ASSUME PopupInv, LineInv, KnownInv, Unsaid, Still
  PROVE  LineInv' /\ KnownInv'
<1>1. /\ UNCHANGED <<up, told, sub, toDaemon, toUi, cut, connected, ready, late, pending, copy>>
      /\ UNCHANGED <<offline, groups, rows, view, refreshDue, searchDue>>
      /\ Changed({"groups"})
  BY DEF Unsaid, wires, side, Still, popup
<1>2. data'["settings"] = data["settings"] /\ data'["clips"] = data["clips"]
  <2>1. \A x \in Kind : data'[x] = IF x \in {"groups"} THEN data[x] + 1 ELSE data[x]
    BY <1>1, Counted DEF PopupInv
  <2> QED
    BY <2>1 DEF Kind
<1> QED
  BY <1>1, <1>2 DEF LineInv, KnownInv

\* A request is answered; a delete is followed by its event first.
LEMMA ServeQuiet ==
  ASSUME PopupInv, PopupInv', LineInv, KnownInv, Serve, Still
  PROVE  LineInv' /\ KnownInv'
<1> DEFINE q == Head(toDaemon)
           a == [rid |-> q.rid, op |-> q.cb, at |-> q.at, gRows |-> q.gRows, ver |-> Answered(q.cb)]
           w == Event("clips")
<1>1. /\ UNCHANGED <<up, told, cut, connected, ready, late, pending, copy>>
      /\ UNCHANGED <<offline, groups, rows, view, refreshDue, searchDue>>
      /\ connected /\ ~cut /\ toDaemon # <<>> /\ toDaemon' = Tail(toDaemon)
      /\ sub' = (sub \/ q.cb = "hello")
      /\ \/ q.cb = "delete" /\ (\E S \in WithClips : Changed(S)) /\ toUi' = toUi \o (w \o <<a>>)
         \/ UNCHANGED <<data, budget>> /\ toUi' = toUi \o <<a>>
  BY DEF Serve, Say, side, Still, popup
<1>2. /\ toUi \in Seq(Message) /\ toDaemon \in Seq(Request) /\ data \in [Kind -> Nat] /\ told \in 0..data["groups"]
      /\ ready => connected
      /\ q \in Request /\ q.rid # 0 /\ LinkInv /\ LinkInv'
  BY <1>1, Wires DEF PopupInv, LinkInv, LinkType
<1>3. /\ a \in Message /\ a.rid = q.rid /\ a.op = q.cb /\ a.at = q.at
      /\ q.cb \in {"groups", "follow"} => a.ver = data["groups"]
      /\ q.cb = "list" => a.ver = data["clips"]
      /\ q.cb = "settings" => a.ver = data["settings"]
  <2>1. Answered(q.cb) \in Nat
    BY <1>2 DEF Answered, Kind
  <2> QED
    BY <1>2, <2>1 DEF Request, Message, Answered
<1>4. q = Head(toDaemon)
  OBVIOUS
<1> HIDE DEF a, q, w
<1>5. /\ Said["clips"] = data["clips"] /\ Said["settings"] = data["settings"] /\ Said["groups"] = told
      /\ data["groups"] \in Nat
  BY <1>2, SaidIs DEF Kind
<1>6. /\ q.cb \in {"groups", "follow"} => a.ver >= Said["groups"]
      /\ q.cb = "list" => a.ver = Said["clips"]
      /\ q.cb = "settings" => a.ver = Said["settings"]
  BY <1>2, <1>3, <1>5
<1>7. \A now : /\ q.cb \in {"groups", "follow"} => a.ver >= now["groups"]
               /\ q.cb = "list" => a.ver = now["clips"]
               /\ q.cb = "settings" => a.ver = now["settings"]
               => \A ui \in Seq(Message) : \A u : u = ui \o <<a>> =>
                    /\ Kept(ui, toDaemon, now, u, toDaemon', now)
                    /\ ~None(u, Replies({"hello"})) => ~None(ui, Replies({"hello"})) \/ q.cb = "hello"
  <2> SUFFICES ASSUME NEW now,
                      q.cb \in {"groups", "follow"} => a.ver >= now["groups"],
                      q.cb = "list" => a.ver = now["clips"],
                      q.cb = "settings" => a.ver = now["settings"],
                      NEW ui \in Seq(Message), NEW u, u = ui \o <<a>>
               PROVE  /\ Kept(ui, toDaemon, now, u, toDaemon', now)
                      /\ ~None(u, Replies({"hello"})) => ~None(ui, Replies({"hello"})) \/ q.cb = "hello"
    OBVIOUS
  <2>1. /\ q = Head(toDaemon) /\ q.rid # 0 /\ toDaemon # <<>> /\ toDaemon \in Seq(Request)
        /\ a \in Message /\ a.rid = q.rid /\ a.op = q.cb /\ a.at = q.at
    BY <1>1, <1>2, <1>3, <1>4
  <2>2. \A d : d = Tail(toDaemon) =>
          /\ Kept(ui, toDaemon, now, u, d, now)
          /\ ~None(u, Replies({"hello"})) => ~None(ui, Replies({"hello"})) \/ q.cb = "hello"
    BY <2>1, AnswerKept, Zenon
  <2> QED
    BY <1>1, <2>2
<1>8. CASE UNCHANGED <<data, budget>> /\ toUi' = toUi \o <<a>>
  <2>1. /\ Kept(toUi, toDaemon, Said, toUi', toDaemon', Said)
        /\ ~None(toUi', Replies({"hello"})) => ~None(toUi, Replies({"hello"})) \/ q.cb = "hello"
    BY <1>2, <1>6, <1>7, <1>8
  <2>2. Said' = Said
    BY <1>1, <1>8 DEF Said
  <2>3. KnownInv' /\ None(toUi', Odd) /\ Heard(toUi', copy)
    BY <1>1, <1>2, <2>1, <2>2, KeptKnown
  <2> QED
    BY <1>1, <2>1, <2>3 DEF LineInv
<1>9. CASE q.cb = "delete" /\ (\E S \in WithClips : Changed(S)) /\ toUi' = toUi \o (w \o <<a>>)
  <2> DEFINE u == toUi \o w
             z == <<a>>
  <2>1. PICK S \in WithClips : Changed(S)
    BY <1>9
  <2>2. Follows(Said, "clips", Said')
    <3>1. "clips" \in Kind
      BY DEF Kind
    <3> QED
      BY <1>1, <1>2, <2>1, <3>1, ChangeSaid
  <2>3. \A x \in Message : <<x>> \in Seq(Message)
    OBVIOUS
  <2>4. w \in Seq(Message) /\ z \in Seq(Message)
    <3>1. [rid |-> 0, op |-> "clips", at |-> Anywhere, gRows |-> -1, ver |-> data["clips"] + 1] \in Message
      BY <1>2, Questions DEF Message, Kind, Version
    <3> QED
      BY <1>3, <2>3, <3>1, EmptySeq DEF w, Event
  <2>5. \A then, v : Follows(Said, "clips", then) /\ v = toUi \o w =>
          /\ v \in Seq(Message)
          /\ sub => Kept(toUi, toDaemon, Said, v, toDaemon, then)
          /\ None(v, Replies({"hello"})) <=> None(toUi, Replies({"hello"}))
          /\ None(v, Odd) /\ Heard(v, copy)
    <3>1. "clips" \in Kind
      BY DEF Kind
    <3> QED
      BY <3>1, EventQuiet DEF w
  <2>6. /\ u \in Seq(Message)
        /\ sub => Kept(toUi, toDaemon, Said, u, toDaemon, Said')
        /\ None(u, Replies({"hello"})) <=> None(toUi, Replies({"hello"}))
        /\ None(u, Odd) /\ Heard(u, copy)
    BY <2>2, <2>5
  <2>7. toUi' = toUi \o (w \o z)
    BY <1>9
  <2> HIDE DEF z
  <2>8. toUi' = u \o z
    BY <1>2, <2>4, <2>7, InParts
  <2> HIDE DEF u
  <2>9. /\ Kept(u, toDaemon, Said', toUi', toDaemon', Said')
        /\ ~None(toUi', Replies({"hello"})) => ~None(u, Replies({"hello"})) \/ q.cb = "hello"
    <3>1. q.cb = "delete" /\ toUi' = u \o <<a>>
      BY <1>9, <2>8 DEF z
    <3> QED
      BY <1>7, <2>6, <3>1
  <2>10. LineInv'
    BY <1>1, <2>6, <2>9 DEF LineInv, Kept
  <2>11. CASE sub
    <3>1. Kept(toUi, toDaemon, Said, toUi', toDaemon', Said')
      BY <2>6, <2>9, <2>11 DEF Kept
    <3> QED
      BY <1>1, <1>2, <2>10, <3>1, KeptKnown
  <2>12. CASE ~sub
    BY <1>1, <2>10, <2>12 DEF LineInv, KnownInv
  <2> QED
    BY <2>10, <2>11, <2>12
<1> QED
  BY <1>1, <1>8, <1>9

\* What the popup's calls ask for.
LEMMA WhatIsAsked ==
  /\ NoList(<<>>)
  /\ \A cb : cb # "list" => NoList(<<Ask(cb)>>) /\ CallsOne(<<Ask(cb)>>, {cb})
  /\ \A v : ~Root(v) => ListsLast(Lists(v), v)
  /\ \A v : Root(v) => NoList(Lists(v))
  /\ LET cs == <<Ask("settings"), Ask("groups")>> IN CallsOne(cs, {"settings"}) /\ CallsOne(cs, {"groups", "follow"})
  /\ CallsOne(<<Ask("follow")>>, {"groups", "follow"})
  /\ ListsLast(Lists(Anywhere) \o <<Ask("groups")>>, Anywhere)
<1>1. NoList(<<>>)
  BY DEF NoList
<1>2. \A cb : cb # "list" => NoList(<<Ask(cb)>>) /\ CallsOne(<<Ask(cb)>>, {cb})
  BY DEF NoList, CallsOne, Ask
<1>3. \A x, v : x.cb = "list" /\ x.at = v => ListsLast(<<x>>, v)
  BY DEF ListsLast
<1>4. \A v : ~Root(v) => ListsLast(Lists(v), v)
  <2> TAKE v
  <2> DEFINE x == [cb |-> "list", at |-> v, gRows |-> Above(v)]
  <2>1. x.cb = "list" /\ x.at = v
    OBVIOUS
  <2>2. ~Root(v) => Lists(v) = <<x>>
    BY DEF Lists
  <2> HIDE DEF x
  <2> QED
    BY <1>3, <2>1, <2>2
<1>5. \A v : Root(v) => NoList(Lists(v))
  BY <1>1 DEF Lists
<1>6. \A x, y, C : x.cb \in C \/ y.cb \in C => CallsOne(<<x, y>>, C)
  <2> TAKE x, y, C
  <2>1. Len(<<x, y>>) = 2 /\ 1 \in 1..2 /\ 2 \in 1..2 /\ <<x, y>>[1] = x /\ <<x, y>>[2] = y
    OBVIOUS
  <2> QED
    BY <2>1 DEF CallsOne
<1>7. CallsOne(<<Ask("settings"), Ask("groups")>>, {"settings"})
  <2>1. Ask("settings").cb \in {"settings"}
    BY DEF Ask
  <2> QED
    BY <1>6, <2>1
<1>8. CallsOne(<<Ask("settings"), Ask("groups")>>, {"groups", "follow"})
  <2>1. Ask("groups").cb \in {"groups", "follow"}
    BY DEF Ask
  <2> QED
    BY <1>6, <2>1
<1>9. CallsOne(<<Ask("follow")>>, {"groups", "follow"})
  BY DEF CallsOne, Ask
<1>10. ListsLast(Lists(Anywhere) \o <<Ask("groups")>>, Anywhere)
  <2> DEFINE x == [cb |-> "list", at |-> Anywhere, gRows |-> Above(Anywhere)]
             y == Ask("groups")
  <2>1. x \in Asked /\ y \in Asked /\ x.cb = "list" /\ x.at = Anywhere /\ y.cb = "groups"
    BY Questions DEF Asked, Callback, Ask, Above, Anywhere, Version
  <2>2. Lists(Anywhere) = <<x>>
    BY DEF Lists, Root, Anywhere
  <2> HIDE DEF x, y
  <2>3. <<x>> \in Seq(Asked) /\ <<y>> \in Seq(Asked) /\ Len(<<x>>) = 1 /\ Len(<<y>>) = 1 /\ <<x>>[1] = x /\ <<y>>[1] = y
    BY <2>1
  <2> DEFINE r == <<x>> \o <<y>>
  <2>4. Joins(r, <<x>>, <<y>>)
    BY <2>3, Joined, Zenon
  <2> HIDE DEF r
  <2>5. Len(r) = 2 /\ r[1] = x /\ r[2] = y
    <3>1. /\ Len(r) = Len(<<x>>) + Len(<<y>>)
          /\ \A i \in 1..Len(<<x>>) : r[i] = <<x>>[i]
          /\ \A i \in 1..Len(<<y>>) : r[Len(<<x>>) + i] = <<y>>[i]
      BY <2>4 DEF Joins
    <3>2. /\ Len(r) = 1 + 1 /\ \A i \in 1..1 : r[i] = <<x>>[i]
          /\ \A i \in 1..1 : r[1 + i] = <<y>>[i]
      BY <2>3, <3>1
    <3>3. 1 \in 1..1 /\ 1 + 1 = 2
      OBVIOUS
    <3> QED
      BY <2>3, <3>2, <3>3
  <2>6. 1 \in 1..2 /\ \A l \in 1..2 : l > 1 => l = 2
    OBVIOUS
  <2>7. ListsLast(r, Anywhere)
    BY <2>1, <2>5, <2>6 DEF ListsLast
  <2> QED
    BY <2>2, <2>7 DEF r, y
<1> QED
  BY <1>1, <1>2, <1>4, <1>5, <1>7, <1>8, <1>9, <1>10

\* Calls of the popup: nothing known is forgotten, and the rows last asked for are
\* those of the view that was asked for.
LEMMA CallingQuiet ==
  ASSUME PopupInv, LineInv, KnownInv, NEW cs \in Seq(Asked), Calling(cs), Local,
         ready => ~offline', groups' = groups
  PROVE  /\ LineInv' /\ UNCHANGED <<ready, cut, data, told>>
         /\ ready /\ ~cut => /\ CopyKnown(toUi', toDaemon', copy', data'["settings"])
                             /\ GroupsKnown(toUi', toDaemon', groups', told')
         /\ \A r, v, n : NoList(cs) /\ RowsKnown(toUi, toDaemon, r, v, n) => RowsKnown(toUi', toDaemon', r, v, n)
         /\ \A r, v, n : ready /\ ListsLast(cs, v) => RowsKnown(toUi', toDaemon', r, v, n)
<1>1. UNCHANGED <<up, data, told, sub, toUi, cut, connected, ready, late, copy>>
  BY DEF Local, daemon, side
<1>2. toDaemon \in Seq(Request) /\ Numbered(pending) /\ (ready => connected)
  BY Wires DEF PopupInv
<1>3. LineInv'
  BY <1>1 DEF LineInv
<1>4. CASE connected
  <2>1. toDaemon' = toDaemon \o Written(pending, cs)
    BY <1>4 DEF Calling, Calls, Written
  <2>2. \A d : d = toDaemon \o Written(pending, cs) =>
          /\ \A C : ~None(toDaemon, Asks(C)) => ~None(d, Asks(C))
          /\ \A ui, g, n : GroupsKnown(ui, toDaemon, g, n) => GroupsKnown(ui, d, g, n)
          /\ \A ui, r, v, n : NoList(cs) /\ RowsKnown(ui, toDaemon, r, v, n) => RowsKnown(ui, d, r, v, n)
          /\ \A ui, r, v, n : ListsLast(cs, v) => RowsKnown(ui, d, r, v, n)
    BY <1>2, AskedMore
  <2>3. /\ ~None(toDaemon, Asks({"settings"})) => ~None(toDaemon', Asks({"settings"}))
        /\ \A ui, g, n : GroupsKnown(ui, toDaemon, g, n) => GroupsKnown(ui, toDaemon', g, n)
        /\ \A ui, r, v, n : NoList(cs) /\ RowsKnown(ui, toDaemon, r, v, n) => RowsKnown(ui, toDaemon', r, v, n)
        /\ \A ui, r, v, n : ListsLast(cs, v) => RowsKnown(ui, toDaemon', r, v, n)
    BY <2>1, <2>2
  <2> QED
    BY <1>1, <1>3, <2>3 DEF KnownInv, CopyKnown
<1>5. CASE ~connected
  <2>1. toDaemon' = toDaemon
    BY <1>5 DEF Calling
  <2> QED
    BY <1>1, <1>2, <1>3, <1>5, <2>1
<1> QED
  BY <1>4, <1>5

\* Rows asked for by a refresh at once.
LEMMA RefreshedQuiet ==
  ASSUME PopupInv, LineInv, NEW v, Refreshed(v, connected, offline), ready
  PROVE  ~offline' /\ (~Root(v) => rows' = rows)
<1>1. connected /\ ~offline
  BY Wires DEF PopupInv, LineInv
<1> QED
  BY <1>1 DEF Refreshed

\* What the user does.
LEMMA UserQuiet ==
  ASSUME PopupInv, LineInv, KnownInv, NEW place \in Place, Show \/ Hide \/ Type \/ Delete \/ Go(place)
  PROVE  LineInv' /\ KnownInv'
<1>1. ready => connected /\ ~offline
  BY Wires DEF PopupInv, LineInv
<1>2. CASE Show
  <2>1. Calling(<<Ask("context")>>) /\ Local /\ groups' = groups /\ refreshDue' = refreshDue
    BY <1>2 DEF Show
  <2>2. ready => UNCHANGED <<open, view, searchDue, rows, offline>>
    BY <1>1, <1>2 DEF Show
  <2>3. <<Ask("context")>> \in Seq(Asked) /\ NoList(<<Ask("context")>>) /\ (ready => ~offline')
    <3>1. <<Ask("context")>> \in Seq(Asked)
      BY Questions DEF Callback
    <3>2. NoList(<<Ask("context")>>)
      BY WhatIsAsked, Zenon
    <3>3. ready => ~offline'
      BY <1>1, <2>2
    <3> QED
      BY <3>1, <3>2, <3>3
  <2>4. /\ LineInv' /\ UNCHANGED <<ready, cut, data, told>>
        /\ ready /\ ~cut => /\ CopyKnown(toUi', toDaemon', copy', data'["settings"])
                            /\ GroupsKnown(toUi', toDaemon', groups', told')
        /\ \A r, v, n : RowsKnown(toUi, toDaemon, r, v, n) => RowsKnown(toUi', toDaemon', r, v, n)
    BY <2>1, <2>3, CallingQuiet
  <2> QED
    BY <2>1, <2>2, <2>4 DEF KnownInv
<1>3. CASE Hide
  <2>1. UNCHANGED <<up, data, told, sub, toDaemon, toUi, cut, connected, ready, late, pending, copy,
                    view, rows, offline, groups, refreshDue, searchDue>>
    BY <1>3 DEF Hide, daemon, wires, side
  <2> QED
    BY <2>1 DEF LineInv, KnownInv
<1>4. CASE Type
  <2>1. /\ UNCHANGED <<up, data, told, sub, toDaemon, toUi, cut, connected, ready, late, pending, copy,
                       rows, offline, groups, refreshDue>>
        /\ searchDue' = TRUE
    BY <1>4 DEF Type, daemon, wires, side
  <2> QED
    BY <2>1 DEF LineInv, KnownInv
<1>5. CASE Delete
  <2>1. Calling(<<Ask("delete")>>) /\ Local /\ UNCHANGED <<view, groups, refreshDue, searchDue>>
    BY <1>5 DEF Delete
  <2>2. ready => UNCHANGED <<rows, offline>>
    BY <1>1, <1>5 DEF Delete, Shown
  <2>3. <<Ask("delete")>> \in Seq(Asked) /\ NoList(<<Ask("delete")>>) /\ (ready => ~offline')
    <3>1. <<Ask("delete")>> \in Seq(Asked)
      BY Questions DEF Callback
    <3>2. NoList(<<Ask("delete")>>)
      BY WhatIsAsked, Zenon
    <3>3. ready => ~offline'
      BY <1>1, <2>2
    <3> QED
      BY <3>1, <3>2, <3>3
  <2>4. /\ LineInv' /\ UNCHANGED <<ready, cut, data, told>>
        /\ ready /\ ~cut => /\ CopyKnown(toUi', toDaemon', copy', data'["settings"])
                            /\ GroupsKnown(toUi', toDaemon', groups', told')
        /\ \A r, v, n : RowsKnown(toUi, toDaemon, r, v, n) => RowsKnown(toUi', toDaemon', r, v, n)
    BY <2>1, <2>3, CallingQuiet
  <2> QED
    BY <2>1, <2>2, <2>4 DEF KnownInv
<1>6. CASE Go(place)
  <2> DEFINE v == [place |-> place, query |-> FALSE]
  <2>1. v \in View
    BY DEF View
  <2>2. /\ view' = v /\ Calling(Lists(v)) /\ Refreshed(v, connected, offline) /\ Local /\ groups' = groups
    BY <1>6 DEF Go
  <2> HIDE DEF v
  <2>3. ready => ~offline'
    BY <2>2, RefreshedQuiet
  <2>4. Lists(v) \in Seq(Asked) /\ (~Root(v) => ListsLast(Lists(v), v))
    BY <2>1, Questions, WhatIsAsked DEF PopupInv, Shape
  <2>5. /\ LineInv' /\ UNCHANGED <<ready, cut, data, told>>
        /\ ready /\ ~cut => /\ CopyKnown(toUi', toDaemon', copy', data'["settings"])
                            /\ GroupsKnown(toUi', toDaemon', groups', told')
        /\ \A r, n : ready /\ ~Root(v) => RowsKnown(toUi', toDaemon', r, v, n)
    BY <2>2, <2>3, <2>4, CallingQuiet
  <2> QED
    BY <2>2, <2>5 DEF KnownInv
<1> QED
  BY <1>2, <1>3, <1>4, <1>5, <1>6

\* The timers: the rows they stood for are asked for.
LEMMA TimersQuiet ==
  ASSUME PopupInv, LineInv, KnownInv, EventRefresh \/ SearchDebounce
  PROVE  LineInv' /\ KnownInv'
<1>1. /\ Calling(Lists(view)) /\ Refreshed(view, connected, offline) /\ Local /\ groups' = groups /\ view' = view
  BY DEF EventRefresh, SearchDebounce, Again
<1>2. ready => ~offline'
  BY <1>1, RefreshedQuiet
<1>3. Lists(view) \in Seq(Asked) /\ (~Root(view) => ListsLast(Lists(view), view))
  BY Questions, WhatIsAsked DEF PopupInv, Shape
<1>4. /\ LineInv' /\ UNCHANGED <<ready, cut, data, told>>
      /\ ready /\ ~cut => /\ CopyKnown(toUi', toDaemon', copy', data'["settings"])
                          /\ GroupsKnown(toUi', toDaemon', groups', told')
      /\ \A r, n : ready /\ ~Root(view) => RowsKnown(toUi', toDaemon', r, view, n)
  BY <1>1, <1>2, <1>3, CallingQuiet
<1> QED
  BY <1>1, <1>4 DEF KnownInv

\* A message is read and its callback calls: what it brings is known, and the rest
\* is on its way as before.
LEMMA ReadingQuiet ==
  ASSUME PopupInv, LineInv, KnownInv, NEW m, NEW cs \in Seq(Asked), Reading(m, cs)
  PROVE  /\ m \in Message /\ (m.rid = 0 => m.op \in Kind)
         /\ UNCHANGED <<up, data, told, sub, cut, connected>> /\ connected
         /\ None(toUi', Odd) /\ Heard(toUi', Learnt(m, copy))
         /\ ~cut /\ (m.op = "hello" \/ ~None(toUi', Replies({"hello"}))) => sub
         /\ ready /\ ~cut => CopyKnown(toUi', toDaemon', Learnt(m, copy), data["settings"])
         /\ \A C : CallsOne(cs, C) => ~None(toDaemon', Asks(C))
         /\ ready /\ ~cut /\ m \notin News("groups") =>
              IF m \in Replies({"groups", "follow"}) THEN GroupsKnown(toUi', toDaemon', m.ver, told)
                                                     ELSE GroupsKnown(toUi', toDaemon', groups, told)
         /\ \A r, v, n : RowsKnown(toUi, toDaemon, r, v, n) /\ m \notin News("clips") /\ NoList(cs) =>
              IF m \in Replies({"list"}) THEN RowsKnown(toUi', toDaemon', [at |-> m.at, ver |-> m.ver, gRows |-> m.gRows], v, n)
                                         ELSE RowsKnown(toUi', toDaemon', r, v, n)
         /\ \A r, v, n : ListsLast(cs, v) => RowsKnown(toUi', toDaemon', r, v, n)
<1>1. /\ UNCHANGED <<up, data, told, sub, cut, connected>> /\ connected
      /\ toUi # <<>> /\ m = Head(toUi) /\ toUi' = Tail(toUi)
      /\ toDaemon' = toDaemon \o Written(Taken(m), cs)
  BY DEF Reading, Calls, Written, daemon
<1>2. toUi \in Seq(Message) /\ toDaemon \in Seq(Request) /\ Numbered(pending)
  BY Wires DEF PopupInv
<1>3. Numbered(Taken(m))
  BY <1>2 DEF Numbered, Taken
<1>4. \A u : u = Tail(toUi) =>
        /\ u \in Seq(Message) /\ m \in Message
        /\ \A A : None(toUi, A) => None(u, A) /\ m \notin A
        /\ \A dm, g, n : GroupsKnown(toUi, dm, g, n) /\ m \notin News("groups") =>
             IF m \in Replies({"groups", "follow"}) THEN GroupsKnown(u, dm, m.ver, n) ELSE GroupsKnown(u, dm, g, n)
        /\ \A dm, r, v, n : RowsKnown(toUi, dm, r, v, n) /\ m \notin News("clips") =>
             IF m \in Replies({"list"}) THEN RowsKnown(u, dm, [at |-> m.at, ver |-> m.ver, gRows |-> m.gRows], v, n)
                                        ELSE RowsKnown(u, dm, r, v, n)
        /\ \A c, d : Tells(toUi, c, d) => Tells(u, Learnt(m, c), d)
  BY <1>1, <1>2, ReadOne
<1>5. \A d : d = toDaemon \o Written(Taken(m), cs) =>
        /\ \A C : ~None(toDaemon, Asks(C)) \/ CallsOne(cs, C) => ~None(d, Asks(C))
        /\ \A ui, g, n : GroupsKnown(ui, toDaemon, g, n) => GroupsKnown(ui, d, g, n)
        /\ \A ui, r, v, n : NoList(cs) /\ RowsKnown(ui, toDaemon, r, v, n) => RowsKnown(ui, d, r, v, n)
        /\ \A ui, r, v, n : ListsLast(cs, v) => RowsKnown(ui, d, r, v, n)
  BY <1>2, <1>3, AskedMore
<1>6. /\ m \in Message
      /\ \A A : None(toUi, A) => None(toUi', A) /\ m \notin A
      /\ \A dm, g, n : GroupsKnown(toUi, dm, g, n) /\ m \notin News("groups") =>
           IF m \in Replies({"groups", "follow"}) THEN GroupsKnown(toUi', dm, m.ver, n) ELSE GroupsKnown(toUi', dm, g, n)
      /\ \A dm, r, v, n : RowsKnown(toUi, dm, r, v, n) /\ m \notin News("clips") =>
           IF m \in Replies({"list"}) THEN RowsKnown(toUi', dm, [at |-> m.at, ver |-> m.ver, gRows |-> m.gRows], v, n)
                                      ELSE RowsKnown(toUi', dm, r, v, n)
      /\ \A c, d : Tells(toUi, c, d) => Tells(toUi', Learnt(m, c), d)
  BY <1>1, <1>4
<1>7. /\ \A C : ~None(toDaemon, Asks(C)) \/ CallsOne(cs, C) => ~None(toDaemon', Asks(C))
      /\ \A ui, g, n : GroupsKnown(ui, toDaemon, g, n) => GroupsKnown(ui, toDaemon', g, n)
      /\ \A ui, r, v, n : NoList(cs) /\ RowsKnown(ui, toDaemon, r, v, n) => RowsKnown(ui, toDaemon', r, v, n)
      /\ \A ui, r, v, n : ListsLast(cs, v) => RowsKnown(ui, toDaemon', r, v, n)
  BY <1>1, <1>5
<1>8. None(toUi, Odd) /\ Heard(toUi, copy)
  BY DEF LineInv
<1>9. None(toUi', Odd) /\ m \notin Odd
  BY <1>6, <1>8
<1>10. m.rid = 0 => m.op \in Kind
  BY <1>6, <1>9 DEF Odd
<1>11. Heard(toUi', Learnt(m, copy))
  BY <1>6, <1>8 DEF Heard
<1>12. ASSUME ~cut, m.op = "hello" \/ ~None(toUi', Replies({"hello"})) PROVE sub
  <2>1. m.op = "hello" => m \in Replies({"hello"})
    BY <1>6, <1>10 DEF Replies, Kind
  <2>2. ~None(toUi, Replies({"hello"}))
    BY <1>6, <1>12, <2>1
  <2> QED
    BY <1>12, <2>2 DEF LineInv
<1>13. ready /\ ~cut => CopyKnown(toUi', toDaemon', Learnt(m, copy), data["settings"])
  BY <1>6, <1>7 DEF KnownInv, CopyKnown
<1>14. ASSUME ready, ~cut, m \notin News("groups")
       PROVE  IF m \in Replies({"groups", "follow"}) THEN GroupsKnown(toUi', toDaemon', m.ver, told)
                                                     ELSE GroupsKnown(toUi', toDaemon', groups, told)
  BY <1>6, <1>7, <1>14 DEF KnownInv
<1>15. ASSUME NEW r, NEW v, NEW n, RowsKnown(toUi, toDaemon, r, v, n), m \notin News("clips"), NoList(cs)
       PROVE  IF m \in Replies({"list"}) THEN RowsKnown(toUi', toDaemon', [at |-> m.at, ver |-> m.ver, gRows |-> m.gRows], v, n)
                                         ELSE RowsKnown(toUi', toDaemon', r, v, n)
  BY <1>6, <1>7, <1>15
<1>16. \A r, v, n : ListsLast(cs, v) => RowsKnown(toUi', toDaemon', r, v, n)
  BY <1>7
<1> QED
  BY <1>1, <1>6, <1>7, <1>9, <1>10, <1>11, <1>12, <1>13, <1>14, <1>15, <1>16

\* What the daemon says.
LEMMA ReadQuiet == ASSUME PopupInv, LineInv, KnownInv, Read PROVE LineInv' /\ KnownInv'
<1> DEFINE m == Head(toUi)
<1>1. ConnectedAgain(m) \/ Hear(m) \/ Listed(m) \/ Fetched(m) \/ Copied(m) \/ Placed(m) \/ Deleted(m)
  BY DEF Read
<1> HIDE DEF m
<1> DEFINE Brought(cs) ==
      /\ m \in Message /\ (m.rid = 0 => m.op \in Kind)
      /\ UNCHANGED <<up, data, told, sub, cut, connected>> /\ connected
      /\ None(toUi', Odd) /\ Heard(toUi', Learnt(m, copy))
      /\ ~cut /\ (m.op = "hello" \/ ~None(toUi', Replies({"hello"}))) => sub
      /\ ready /\ ~cut => CopyKnown(toUi', toDaemon', Learnt(m, copy), data["settings"])
      /\ \A C : CallsOne(cs, C) => ~None(toDaemon', Asks(C))
      /\ ready /\ ~cut /\ m \notin News("groups") =>
           IF m \in Replies({"groups", "follow"}) THEN GroupsKnown(toUi', toDaemon', m.ver, told)
                                                  ELSE GroupsKnown(toUi', toDaemon', groups, told)
      /\ \A r, v, n : RowsKnown(toUi, toDaemon, r, v, n) /\ m \notin News("clips") /\ NoList(cs) =>
           IF m \in Replies({"list"}) THEN RowsKnown(toUi', toDaemon', [at |-> m.at, ver |-> m.ver, gRows |-> m.gRows], v, n)
                                      ELSE RowsKnown(toUi', toDaemon', r, v, n)
      /\ \A r, v, n : ListsLast(cs, v) => RowsKnown(toUi', toDaemon', r, v, n)
<1>2. \A cs \in Seq(Asked) : Reading(m, cs) => Brought(cs)
  BY ReadingQuiet
<1>3. view \in View /\ <<>> \in Seq(Asked) /\ NoList(<<>>)
  BY Questions, WhatIsAsked DEF PopupInv, Shape
<1>4. ready => ~offline
  BY DEF LineInv
<1>5. ASSUME NEW cs \in Seq(Asked), Brought(cs), ready' = ready, copy' = Learnt(m, copy), ready => ~offline'
      PROVE  /\ LineInv'
             /\ ready' /\ ~cut' => CopyKnown(toUi', toDaemon', copy', data'["settings"])
  BY <1>5 DEF LineInv
<1>6. ASSUME ~Root(view), ready, ~cut
      PROVE  refreshDue \/ searchDue \/ RowsKnown(toUi, toDaemon, rows, view, data["clips"])
  BY <1>6 DEF KnownInv
<1>7. CASE ConnectedAgain(m)
  <2> DEFINE cs == <<Ask("settings"), Ask("groups")>>
  <2>1. cs \in Seq(Asked)
    <3>1. Ask("settings") \in Asked /\ Ask("groups") \in Asked
      BY Questions DEF Ask, Asked, Callback
    <3> QED
      BY <3>1
  <2>2. CallsOne(cs, {"settings"}) /\ CallsOne(cs, {"groups", "follow"})
    BY WhatIsAsked
  <2>3. /\ m.op = "hello" /\ Reading(m, cs) /\ offline' = FALSE /\ refreshDue' = TRUE
        /\ UNCHANGED <<rows, copy, view, searchDue, groups>>
    BY <1>7 DEF ConnectedAgain
  <2> HIDE DEF cs
  <2>4. Brought(cs)
    BY <1>2, <2>1, <2>3
  <2>5. copy = Learnt(m, copy)
    BY <2>3 DEF Learnt
  <2>6. LineInv'
    BY <2>3, <2>4, <2>5 DEF LineInv
  <2>7. CopyKnown(toUi', toDaemon', copy', data'["settings"]) /\ GroupsKnown(toUi', toDaemon', groups', told')
    BY <2>2, <2>4 DEF CopyKnown, GroupsKnown
  <2> QED
    BY <2>3, <2>6, <2>7 DEF KnownInv
<1>8. CASE Hear(m)
  <2> DEFINE cs == IF m.op = "groups" THEN <<Ask("follow")>> ELSE <<>>
  <2>1. /\ m.rid = 0 /\ Reading(m, cs) /\ UNCHANGED <<ready, rows, offline, view, searchDue, groups>>
        /\ refreshDue' = (refreshDue \/ m.op = "clips")
        /\ copy' = IF m.op = "settings" THEN Patched(m.ver) ELSE copy
    BY <1>8 DEF Hear, Shown
  <2>2. /\ cs \in Seq(Asked) /\ NoList(cs)
        /\ m.op = "groups" => CallsOne(cs, {"groups", "follow"})
    <3>1. <<Ask("follow")>> \in Seq(Asked) /\ CallsOne(<<Ask("follow")>>, {"groups", "follow"})
      BY Questions, WhatIsAsked DEF Callback
    <3>2. NoList(<<Ask("follow")>>)
      BY WhatIsAsked, Zenon
    <3> QED
      BY <1>3, <3>1, <3>2
  <2> HIDE DEF cs
  <2>3. Brought(cs)
    BY <1>2, <2>1, <2>2
  <2>4. copy' = Learnt(m, copy)
    BY <2>1 DEF Learnt, Patched
  <2>5. LineInv' /\ (ready' /\ ~cut' => CopyKnown(toUi', toDaemon', copy', data'["settings"]))
    BY <1>4, <1>5, <2>1, <2>2, <2>3, <2>4
  <2>6. \A C : m \notin Replies(C)
    BY <2>1 DEF Replies
  <2>7. \A k : m \in News(k) <=> m.op = k
    BY <2>1, <2>3 DEF News
  <2>8. ready /\ ~cut => GroupsKnown(toUi', toDaemon', groups', told')
    <3>1. CASE m.op = "groups"
      BY <2>2, <2>3, <3>1 DEF GroupsKnown
    <3>2. CASE m.op # "groups"
      BY <2>1, <2>3, <2>6, <2>7, <3>2
    <3> QED
      BY <3>1, <3>2
  <2>9. ASSUME ~Root(view), ready, ~cut
        PROVE  refreshDue' \/ searchDue' \/ RowsKnown(toUi', toDaemon', rows', view', data'["clips"])
    BY <1>6, <2>1, <2>2, <2>3, <2>6, <2>7, <2>9
  <2> QED
    BY <2>1, <2>3, <2>5, <2>8, <2>9 DEF KnownInv
<1>9. CASE Listed(m)
  <2>1. /\ m.op = "list" /\ Reading(m, <<>>) /\ rows' = [at |-> m.at, ver |-> m.ver, gRows |-> m.gRows] /\ offline' = FALSE
        /\ UNCHANGED <<ready, copy, view, searchDue, groups, refreshDue>>
    BY <1>9 DEF Listed
  <2>2. Brought(<<>>)
    BY <1>2, <1>3, <2>1
  <2>3. copy' = Learnt(m, copy)
    BY <2>1 DEF Learnt
  <2>4. m \in Replies({"list"}) /\ m \notin Replies({"groups", "follow"}) /\ m \notin News("groups") /\ m \notin News("clips")
    BY <2>1, <2>2 DEF Replies, News, Kind
  <2>5. LineInv' /\ (ready' /\ ~cut' => CopyKnown(toUi', toDaemon', copy', data'["settings"]))
    BY <1>3, <1>4, <1>5, <2>1, <2>2, <2>3
  <2>6. ready /\ ~cut => GroupsKnown(toUi', toDaemon', groups', told')
    BY <2>1, <2>2, <2>4
  <2>7. ASSUME ~Root(view), ready, ~cut
        PROVE  refreshDue' \/ searchDue' \/ RowsKnown(toUi', toDaemon', rows', view', data'["clips"])
    BY <1>3, <1>6, <2>1, <2>2, <2>4, <2>7
  <2> QED
    BY <2>1, <2>2, <2>5, <2>6, <2>7 DEF KnownInv
<1>10. CASE Fetched(m)
  <2>1. /\ m.rid # 0 /\ m.op \in {"groups", "follow"} /\ Reading(m, <<>>) /\ groups' = m.ver
        /\ refreshDue' = (refreshDue \/ (m.op = "follow" /\ open))
        /\ UNCHANGED <<rows, offline, ready, copy, view, searchDue>>
    BY <1>10 DEF Fetched, Shown
  <2>2. Brought(<<>>)
    BY <1>2, <1>3, <2>1
  <2>3. copy' = Learnt(m, copy)
    BY <2>1 DEF Learnt
  <2>4. m \notin Replies({"list"}) /\ m \in Replies({"groups", "follow"}) /\ m \notin News("groups") /\ m \notin News("clips")
    BY <2>1, <2>2 DEF Replies, News
  <2>5. LineInv' /\ (ready' /\ ~cut' => CopyKnown(toUi', toDaemon', copy', data'["settings"]))
    BY <1>3, <1>4, <1>5, <2>1, <2>2, <2>3
  <2>6. ready /\ ~cut => GroupsKnown(toUi', toDaemon', groups', told')
    BY <2>1, <2>2, <2>4
  <2>7. ASSUME ~Root(view), ready, ~cut
        PROVE  refreshDue' \/ searchDue' \/ RowsKnown(toUi', toDaemon', rows', view', data'["clips"])
    BY <1>3, <1>6, <2>1, <2>2, <2>4, <2>7
  <2> QED
    BY <2>1, <2>2, <2>5, <2>6, <2>7 DEF KnownInv
<1>11. CASE Copied(m)
  <2>1. /\ m.rid # 0 /\ m.op = "settings" /\ Reading(m, <<>>) /\ copy' = m.ver
        /\ UNCHANGED <<rows, offline, ready, view, searchDue, groups, refreshDue>>
    BY <1>11 DEF Copied, Shown
  <2>2. Brought(<<>>)
    BY <1>2, <1>3, <2>1
  <2>3. copy' = Learnt(m, copy)
    BY <2>1 DEF Learnt
  <2>4. m \notin Replies({"list"}) /\ m \notin Replies({"groups", "follow"}) /\ m \notin News("groups") /\ m \notin News("clips")
    BY <2>1, <2>2 DEF Replies, News
  <2>5. LineInv' /\ (ready' /\ ~cut' => CopyKnown(toUi', toDaemon', copy', data'["settings"]))
    BY <1>3, <1>4, <1>5, <2>1, <2>2, <2>3
  <2>6. ready /\ ~cut => GroupsKnown(toUi', toDaemon', groups', told')
    BY <2>1, <2>2, <2>4
  <2>7. ASSUME ~Root(view), ready, ~cut
        PROVE  refreshDue' \/ searchDue' \/ RowsKnown(toUi', toDaemon', rows', view', data'["clips"])
    BY <1>3, <1>6, <2>1, <2>2, <2>4, <2>7
  <2> QED
    BY <2>1, <2>2, <2>5, <2>6, <2>7 DEF KnownInv
<1>12. CASE Placed(m)
  <2> DEFINE cs == Lists(Anywhere) \o <<Ask("groups")>>
  <2>1. /\ m.op = "context" /\ Reading(m, cs) /\ view' = Anywhere
        /\ UNCHANGED <<ready, copy, groups, refreshDue>>
        /\ offline' = (FALSE \/ ~(Root(Anywhere) \/ TRUE))
    BY <1>12 DEF Placed, Opened, Refreshed
  <2>2. cs \in Seq(Asked)
    <3>1. Lists(Anywhere) \in Seq(Asked) /\ <<Ask("groups")>> \in Seq(Asked)
      BY Questions DEF Callback, PopupInv, Shape
    <3> QED
      BY <3>1, Joined, Zenon
  <2>3. ListsLast(cs, Anywhere)
    BY WhatIsAsked
  <2> HIDE DEF cs
  <2>4. Brought(cs)
    BY <1>2, <2>1, <2>2
  <2>5. copy' = Learnt(m, copy)
    BY <2>1 DEF Learnt
  <2>6. m \notin Replies({"groups", "follow"}) /\ m \notin News("groups")
    BY <2>1 DEF Replies, News
  <2>7. LineInv' /\ (ready' /\ ~cut' => CopyKnown(toUi', toDaemon', copy', data'["settings"]))
    BY <1>5, <2>1, <2>2, <2>4, <2>5
  <2>8. ready /\ ~cut => GroupsKnown(toUi', toDaemon', groups', told')
    BY <2>1, <2>4, <2>6
  <2>9. RowsKnown(toUi', toDaemon', rows', view', data'["clips"])
    BY <2>1, <2>3, <2>4
  <2> QED
    BY <2>1, <2>4, <2>7, <2>8, <2>9 DEF KnownInv
<1>13. CASE Deleted(m)
  <2> DEFINE cs == Lists(view)
  <2>1. /\ m.op = "delete" /\ Reading(m, cs) /\ UNCHANGED <<ready, copy, view, searchDue, groups, refreshDue>>
        /\ offline' = (offline \/ ~(Root(view) \/ TRUE))
    BY <1>13 DEF Deleted, Refreshed
  <2>2. cs \in Seq(Asked) /\ (~Root(view) => ListsLast(cs, view))
    BY <1>3, Questions, WhatIsAsked DEF PopupInv, Shape
  <2> HIDE DEF cs
  <2>3. Brought(cs)
    BY <1>2, <2>1, <2>2
  <2>4. copy' = Learnt(m, copy)
    BY <2>1 DEF Learnt
  <2>5. m \notin Replies({"groups", "follow"}) /\ m \notin News("groups")
    BY <2>1 DEF Replies, News
  <2>6. LineInv' /\ (ready' /\ ~cut' => CopyKnown(toUi', toDaemon', copy', data'["settings"]))
    BY <1>4, <1>5, <2>1, <2>2, <2>3, <2>4
  <2>7. ready /\ ~cut => GroupsKnown(toUi', toDaemon', groups', told')
    BY <2>1, <2>3, <2>5
  <2>8. ~Root(view) => RowsKnown(toUi', toDaemon', rows', view', data'["clips"])
    BY <2>1, <2>2, <2>3
  <2> QED
    BY <2>1, <2>3, <2>6, <2>7, <2>8 DEF KnownInv
<1> QED
  BY <1>1, <1>7, <1>8, <1>9, <1>10, <1>11, <1>12, <1>13

LEMMA StepQuiet == PopupInv /\ PopupInv' /\ LineInv /\ KnownInv /\ [Next]_vars => LineInv' /\ KnownInv'
<1> SUFFICES ASSUME PopupInv, PopupInv', LineInv, KnownInv, [Next]_vars PROVE LineInv' /\ KnownInv'
  OBVIOUS
<1>1. CASE Show \/ Hide \/ Type \/ Delete \/ \E place \in Place : Go(place)
  <2>1. "history" \in Place
    BY UiLinkAssumption
  <2>2. \A place \in Place : Show \/ Hide \/ Type \/ Delete \/ Go(place) => LineInv' /\ KnownInv'
    BY UserQuiet
  <2> QED
    BY <1>1, <2>1, <2>2
<1>2. CASE Read
  BY <1>2, ReadQuiet
<1>3. CASE EventRefresh \/ SearchDebounce
  BY <1>3, TimersQuiet
<1>4. CASE LineDown \/ ((Retry \/ Die \/ Begin \/ Late) /\ Still)
  BY <1>4, LineQuiet
<1>5. CASE ((\E k \in Kind : Change(k)) \/ Unsaid) /\ Still
  BY <1>5, ChangeQuiet, UnsaidQuiet
<1>6. CASE Serve /\ Still
  BY <1>6, ServeQuiet
<1>7. CASE UNCHANGED vars
  BY <1>7 DEF vars, link, popup, daemon, wires, side, LineInv, KnownInv
<1> QED
  BY <1>1, <1>2, <1>3, <1>4, <1>5, <1>6, <1>7 DEF Next, Ui

-----------------------------------------------------------------------------
(* The groups above the clips. *)

\* Groups asked for after an event are to come, and the timer will restart.
FollowDue(ui, dm) == ~None(dm, Asks({"follow"})) \/ ~None(ui, Replies({"follow"}))

\* The groups in the rows r are not older than h, or those of the last rows asked
\* for are not, or groups that an event had asked for are to come.
AboveKnown(ui, dm, r, h) ==
  \/ FollowDue(ui, dm)
  \/ LastIn(dm, Asks({"list"}), AsksAbove(h))
  \/ /\ None(dm, Asks({"list"}))
     /\ \/ LastIn(ui, Replies({"list"}), RowsAbove(h))
        \/ None(ui, Replies({"list"})) /\ r.gRows >= h

\* Groups that come are not older than h, nor than the events before them say; and no
\* event is of groups newer than n.
Orderly(ui, h, n) ==
  /\ \A j \in 1..Len(ui) : ui[j] \in News("groups") => ui[j].ver <= n
  /\ \A j \in 1..Len(ui) : ui[j] \in Replies({"groups", "follow"}) =>
       ui[j].ver >= h /\ \A i \in 1..Len(ui) : i < j /\ ui[i] \in News("groups") => ui[i].ver <= ui[j].ver

LEMMA OrderlyNothing == \A u, h, n : u = <<>> => Orderly(u, h, n)
<1>1. \A u : u = <<>> => 1..Len(u) = {}
  BY EmptySeq
<1> QED
  BY <1>1 DEF Orderly

\* The daemon says x.
LEMMA OrderlyMore ==
  ASSUME NEW ui \in Seq(Message), NEW h \in Int, NEW n \in Nat, Orderly(ui, h, n), h <= n,
         NEW x \in Message, NEW u, u = ui \o <<x>>
  PROVE  /\ x \notin News("groups") /\ x \notin Replies({"groups", "follow"}) => Orderly(u, h, n)
         /\ \A p \in Nat : x \in News("groups") /\ x.ver <= p /\ n <= p => Orderly(u, h, p)
         /\ x \in Replies({"groups", "follow"}) /\ x.ver >= n => Orderly(u, h, n)
<1> DEFINE R == Replies({"groups", "follow"})
           N == News("groups")
<1>1. <<x>> \in Seq(Message) /\ Len(<<x>>) = 1 /\ <<x>>[1] = x
  OBVIOUS
<1>2. Joins(u, ui, <<x>>)
  BY <1>1, Joined, Zenon
<1>3. /\ Len(u) = Len(ui) + 1 /\ Len(ui) \in Nat
      /\ \A i \in 1..Len(ui) : u[i] = ui[i]
      /\ \A i \in 1..Len(u) : i \in 1..Len(ui) \/ (i = Len(ui) + 1 /\ u[i] = x)
  BY <1>1, <1>2 DEF Joins
<1>4. \A i \in 1..Len(ui) : ui[i] \in Message /\ ui[i].ver \in Nat
  <2>1. \A i \in 1..Len(ui) : ui[i] \in Message
    BY ElementOfSeq
  <2> QED
    BY <2>1 DEF Message
<1>5. x.ver \in Nat
  BY DEF Message
<1>6. /\ \A j \in 1..Len(ui) : ui[j] \in N => ui[j].ver <= n
      /\ \A j \in 1..Len(ui) : ui[j] \in R =>
           ui[j].ver >= h /\ \A i \in 1..Len(ui) : i < j /\ ui[i] \in N => ui[i].ver <= ui[j].ver
  BY DEF Orderly
<1>7. ~(x \in N /\ x \in R)
  BY DEF News, Replies
<1> HIDE DEF N, R
<1>8. ASSUME NEW p \in Nat, n <= p, x \in N => x.ver <= p, x \in R => x.ver >= n
      PROVE  /\ \A j \in 1..Len(u) : u[j] \in N => u[j].ver <= p
             /\ \A j \in 1..Len(u) : u[j] \in R =>
                  u[j].ver >= h /\ \A i \in 1..Len(u) : i < j /\ u[i] \in N => u[i].ver <= u[j].ver
  <2>1. ASSUME NEW j \in 1..Len(u), u[j] \in N PROVE u[j].ver <= p
    <3>1. CASE j \in 1..Len(ui)
      <4>1. ui[j].ver <= n /\ ui[j].ver \in Nat /\ u[j] = ui[j]
        BY <1>3, <1>4, <1>6, <2>1, <3>1
      <4> QED
        BY <1>8, <4>1
    <3>2. CASE u[j] = x
      BY <1>8, <2>1, <3>2
    <3> QED
      BY <1>3, <3>1, <3>2
  <2>2. ASSUME NEW j \in 1..Len(u), u[j] \in R
        PROVE  u[j].ver >= h /\ \A i \in 1..Len(u) : i < j /\ u[i] \in N => u[i].ver <= u[j].ver
    <3>1. CASE j \in 1..Len(ui)
      <4>1. u[j] = ui[j] /\ ui[j].ver >= h
        BY <1>3, <1>6, <2>2, <3>1
      <4>2. ASSUME NEW i \in 1..Len(u), i < j, u[i] \in N PROVE u[i].ver <= u[j].ver
        <5>1. i \in 1..Len(ui)
          BY <1>3, <3>1, <4>2
        <5> QED
          BY <1>3, <1>6, <2>2, <3>1, <4>1, <4>2, <5>1
      <4> QED
        BY <4>1, <4>2
    <3>2. CASE j \notin 1..Len(ui)
      <4>1. j = Len(ui) + 1 /\ u[j] = x /\ x.ver >= n
        BY <1>3, <1>8, <2>2, <3>2
      <4>2. ASSUME NEW i \in 1..Len(u), i < j, u[i] \in N PROVE u[i].ver <= x.ver
        <5>1. i \in 1..Len(ui)
          BY <1>3, <4>1, <4>2
        <5>2. ui[i].ver <= n /\ ui[i].ver \in Nat /\ u[i] = ui[i]
          BY <1>3, <1>4, <1>6, <4>2, <5>1
        <5> QED
          BY <1>5, <4>1, <5>2
      <4>3. x.ver >= h
        BY <1>5, <4>1
      <4> QED
        BY <4>1, <4>2, <4>3
    <3> QED
      BY <3>1, <3>2
  <2> QED
    BY <2>1, <2>2
<1>9. ASSUME NEW p \in Nat, n <= p, x \in N => x.ver <= p, x \in R => x.ver >= n PROVE Orderly(u, h, p)
  BY <1>8, <1>9 DEF Orderly, N, R
<1>10. n <= n
  OBVIOUS
<1> QED
  BY <1>7, <1>9, <1>10 DEF N, R

\* The UI reads m.
LEMMA OrderlyRest ==
  ASSUME NEW ui \in Seq(Message), ui # <<>>, NEW h, NEW n, Orderly(ui, h, n),
         NEW m, m = Head(ui), NEW u, u = Tail(ui)
  PROVE  /\ Orderly(u, h, n) /\ Orderly(u, -1, n)
         /\ m \in News("groups") => m.ver <= n /\ Orderly(u, m.ver, n)
         /\ m \in Replies({"groups", "follow"}) => m.ver >= h
<1> DEFINE R == Replies({"groups", "follow"})
           N == News("groups")
<1>1. /\ Len(u) = Len(ui) - 1 /\ m = ui[1] /\ Len(ui) \in Nat \ {0}
      /\ \A i \in 1..Len(u) : u[i] = ui[i + 1]
  BY HeadTailProperties, EmptySeq
<1>2. \A i \in 1..Len(u) : i + 1 \in 1..Len(ui) /\ u[i] = ui[i + 1] /\ 1 < i + 1
  BY <1>1
<1>3. \A i, j \in 1..Len(u) : i < j => i + 1 < j + 1
  OBVIOUS
<1>4. 1 \in 1..Len(ui)
  BY <1>1
<1>5. \A i \in 1..Len(ui) : ui[i].ver \in Nat
  <2>1. \A i \in 1..Len(ui) : ui[i] \in Message
    BY ElementOfSeq
  <2> QED
    BY <2>1 DEF Message
<1>6. \A i \in 1..Len(ui) : ui[i].ver >= -1
  BY <1>5
<1>7. /\ \A j \in 1..Len(ui) : ui[j] \in N => ui[j].ver <= n
      /\ \A j \in 1..Len(ui) : ui[j] \in R =>
           ui[j].ver >= h /\ \A i \in 1..Len(ui) : i < j /\ ui[i] \in N => ui[i].ver <= ui[j].ver
  BY DEF Orderly
<1> HIDE DEF N, R
<1>8. \A j \in 1..Len(u) : u[j] \in N => u[j].ver <= n
  BY <1>2, <1>7
<1>9. ASSUME NEW j \in 1..Len(u), u[j] \in R
      PROVE  /\ u[j].ver >= h /\ u[j].ver >= -1 /\ (m \in N => u[j].ver >= m.ver)
             /\ \A i \in 1..Len(u) : i < j /\ u[i] \in N => u[i].ver <= u[j].ver
  <2>1. j + 1 \in 1..Len(ui) /\ u[j] = ui[j + 1] /\ 1 < j + 1
    BY <1>2
  <2>2. ui[j + 1].ver >= h /\ \A i \in 1..Len(ui) : i < j + 1 /\ ui[i] \in N => ui[i].ver <= ui[j + 1].ver
    BY <1>7, <1>9, <2>1
  <2>3. m \in N => m.ver <= u[j].ver
    BY <1>1, <1>4, <2>1, <2>2
  <2>4. m.ver \in Nat /\ u[j].ver \in Nat
    BY <1>1, <1>4, <1>5, <2>1
  <2>5. \A i \in 1..Len(u) : i < j /\ u[i] \in N => u[i].ver <= u[j].ver
    BY <1>2, <1>3, <2>1, <2>2
  <2> QED
    BY <2>1, <2>2, <2>3, <2>4, <2>5
<1>10. Orderly(u, h, n) /\ Orderly(u, -1, n)
  BY <1>8, <1>9 DEF Orderly, N, R
<1>11. m \in N => m.ver <= n /\ Orderly(u, m.ver, n)
  <2>1. m \in N => m.ver <= n
    BY <1>1, <1>4, <1>7
  <2>2. m \in N => Orderly(u, m.ver, n)
    BY <1>8, <1>9 DEF Orderly, N, R
  <2> QED
    BY <2>1, <2>2
<1>12. m \in R => m.ver >= h
  BY <1>1, <1>4, <1>7
<1> QED
  BY <1>10, <1>11, <1>12 DEF N, R

\* The daemon says an event e.
LEMMA EventAbove ==
  ASSUME NEW ui \in Seq(Message), NEW e \in Message, e.rid = 0, NEW u, u = ui \o <<e>>
  PROVE  \A dm : /\ FollowDue(ui, dm) => FollowDue(u, dm)
                 /\ \A r, h : AboveKnown(ui, dm, r, h) => AboveKnown(u, dm, r, h)
<1>1. Joins(u, ui, <<e>>)
  <2>1. <<e>> \in Seq(Message)
    OBVIOUS
  <2> QED
    BY <2>1, Joined, Zenon
<1>2. \A C : e \notin Replies(C)
  BY DEF Replies
<1>3. \A C : None(<<e>>, Replies(C))
  BY <1>2, OneOnly
<1>4. \A C : None(u, Replies(C)) <=> None(ui, Replies(C))
  BY <1>1, <1>3, NoneJoined
<1>5. \A C, W : LastIn(ui, Replies(C), W) => LastIn(u, Replies(C), W)
  BY <1>1, <1>3, LastJoined
<1> QED
  BY <1>4, <1>5 DEF AboveKnown, FollowDue

\* The daemon answers the next request.
LEMMA AnswerAbove ==
  ASSUME NEW ui \in Seq(Message), NEW dm \in Seq(Request), dm # <<>>, NEW q, q = Head(dm), q.rid # 0,
         NEW a \in Message, a.rid = q.rid, a.op = q.cb, a.gRows = q.gRows,
         NEW u, u = ui \o <<a>>, NEW d, d = Tail(dm)
  PROVE  /\ FollowDue(ui, dm) => FollowDue(u, d)
         /\ \A r, h : AboveKnown(ui, dm, r, h) => AboveKnown(u, d, r, h)
<1>1. q \in Request
  BY HeadTailProperties
<1>2. Joins(u, ui, <<a>>)
  <2>1. <<a>> \in Seq(Message)
    OBVIOUS
  <2> QED
    BY <2>1, Joined, Zenon
<1>3. \A A : None(u, A) <=> None(ui, A) /\ a \notin A
  BY <1>2, NoneJoined, OneOnly
<1>4. \A A, W : /\ LastIn(ui, A, W) /\ a \notin A => LastIn(u, A, W)
                /\ a \in W => LastIn(u, A, W)
  <2> TAKE A, W
  <2>1. LastIn(ui, A, W) /\ None(<<a>>, A) => LastIn(u, A, W)
    BY <1>2, LastJoined
  <2>2. LastIn(<<a>>, A, W) => LastIn(u, A, W)
    BY <1>2, LastJoined
  <2> QED
    BY <2>1, <2>2, OneOnly
<1>5. \A A : None(dm, A) <=> None(d, A) /\ q \notin A
  BY Rest
<1>6. \A A, W : LastIn(dm, A, W) => LastIn(d, A, W) \/ (None(d, A) /\ q \in W)
  BY Rest
<1>7. \A C : (a \in Replies(C) <=> q.cb \in C) /\ (q \in Asks(C) <=> q.cb \in C)
  BY <1>1 DEF Replies, Asks
<1>8. \A h : q \in AsksAbove(h) => a \in RowsAbove(h)
  BY DEF AsksAbove, RowsAbove
<1>9. FollowDue(ui, dm) => FollowDue(u, d)
  BY <1>3, <1>5, <1>7 DEF FollowDue
<1>10. ASSUME NEW r, NEW h, AboveKnown(ui, dm, r, h) PROVE AboveKnown(u, d, r, h)
  <2>1. CASE FollowDue(ui, dm)
    BY <1>9, <2>1 DEF AboveKnown
  <2>2. CASE LastIn(dm, Asks({"list"}), AsksAbove(h))
    BY <1>4, <1>6, <1>8, <2>2 DEF AboveKnown
  <2>3. CASE /\ None(dm, Asks({"list"}))
             /\ LastIn(ui, Replies({"list"}), RowsAbove(h)) \/ (None(ui, Replies({"list"})) /\ r.gRows >= h)
    <3>1. None(d, Asks({"list"})) /\ a \notin Replies({"list"})
      BY <1>5, <1>7, <2>3
    <3> QED
      BY <1>3, <1>4, <2>3, <3>1 DEF AboveKnown
  <2> QED
    BY <1>10, <2>1, <2>2, <2>3 DEF AboveKnown
<1> QED
  BY <1>9, <1>10

\* The UI calls cs.
LEMMA AskedAbove ==
  ASSUME NEW P, Numbered(P), NEW cs \in Seq(Asked), NEW dm \in Seq(Request), NEW d, d = dm \o Written(P, cs)
  PROVE  \A ui : /\ FollowDue(ui, dm) \/ CallsOne(cs, {"follow"}) => FollowDue(ui, d)
                 /\ \A r, h : NoList(cs) /\ AboveKnown(ui, dm, r, h) => AboveKnown(ui, d, r, h)
                 /\ \A r, h : ListsAbove(cs, h) => AboveKnown(ui, d, r, h)
<1> DEFINE w == Written(P, cs)
<1>1. /\ w \in Seq(Request)
      /\ NoList(cs) => None(w, Asks({"list"}))
      /\ \A C : CallsOne(cs, C) => ~None(w, Asks(C))
      /\ \A h : ListsAbove(cs, h) => LastIn(w, Asks({"list"}), AsksAbove(h))
  BY Requested
<1> HIDE DEF w
<1>2. Joins(d, dm, w)
  BY <1>1, Joined, Zenon DEF w
<1>3. \A A : None(d, A) <=> None(dm, A) /\ None(w, A)
  BY <1>2, NoneJoined
<1>4. \A A, W : /\ LastIn(dm, A, W) /\ None(w, A) => LastIn(d, A, W)
                /\ LastIn(w, A, W) => LastIn(d, A, W)
  BY <1>2, LastJoined
<1>5. \A ui : FollowDue(ui, dm) \/ CallsOne(cs, {"follow"}) => FollowDue(ui, d)
  BY <1>1, <1>3 DEF FollowDue
<1>6. \A ui, r, h : NoList(cs) /\ AboveKnown(ui, dm, r, h) => AboveKnown(ui, d, r, h)
  BY <1>1, <1>3, <1>4, <1>5 DEF AboveKnown
<1>7. \A ui, r, h : ListsAbove(cs, h) => AboveKnown(ui, d, r, h)
  BY <1>1, <1>4 DEF AboveKnown
<1> QED
  BY <1>5, <1>6, <1>7

\* The UI reads m.
LEMMA ReadAbove ==
  ASSUME NEW ui \in Seq(Message), ui # <<>>, NEW m, m = Head(ui), NEW u, u = Tail(ui)
  PROVE  \A dm : m \notin Replies({"follow"}) =>
           /\ FollowDue(ui, dm) => FollowDue(u, dm)
           /\ \A r, h : AboveKnown(ui, dm, r, h) =>
                IF m \in Replies({"list"}) THEN AboveKnown(u, dm, [at |-> m.at, ver |-> m.ver, gRows |-> m.gRows], h)
                                           ELSE AboveKnown(u, dm, r, h)
<1>1. \A A : None(ui, A) <=> None(u, A) /\ m \notin A
  BY Rest
<1>2. \A A, W : LastIn(ui, A, W) => LastIn(u, A, W) \/ (None(u, A) /\ m \in W)
  BY Rest
<1>3. \A h : m \in RowsAbove(h) => m \in Replies({"list"}) /\ m.gRows >= h
  BY DEF RowsAbove, Replies
<1>4. \A dm : m \notin Replies({"follow"}) /\ FollowDue(ui, dm) => FollowDue(u, dm)
  BY <1>1 DEF FollowDue
<1>5. ASSUME NEW dm, NEW r, NEW h, m \notin Replies({"follow"}), AboveKnown(ui, dm, r, h)
      PROVE  IF m \in Replies({"list"}) THEN AboveKnown(u, dm, [at |-> m.at, ver |-> m.ver, gRows |-> m.gRows], h)
                                        ELSE AboveKnown(u, dm, r, h)
  BY <1>1, <1>2, <1>3, <1>4, <1>5 DEF AboveKnown
<1> QED
  BY <1>4, <1>5

OrderInv == heard \in Int /\ heard <= told /\ Orderly(toUi, heard, told)

\* The groups the popup knows are not older than the last event heard, nor are those in
\* the rows of a group, or they will be.
AboveInv == ready /\ ~cut =>
  /\ FollowDue(toUi, toDaemon) \/ groups >= heard
  /\ \/ ~open \/ Root(view) \/ view.place = "history" \/ refreshDue \/ searchDue
     \/ AboveKnown(toUi, toDaemon, rows, heard)

LEMMA StartsAbove == Init => OrderInv /\ AboveInv
<1>1. ASSUME Init PROVE OrderInv
  <2>1. toUi = <<>> /\ heard = -1 /\ told = 0
    BY <1>1 DEF Init, LinkInit
  <2> QED
    BY <2>1, OrderlyNothing DEF OrderInv
<1>2. Init => AboveInv
  BY DEF Init, LinkInit, AboveInv
<1> QED
  BY <1>1, <1>2

\* The daemon and the line.
LEMMA LineAbove ==
  ASSUME PopupInv, OrderInv, AboveInv, LineDown \/ ((Retry \/ Die \/ Begin \/ Late \/ Unsaid) /\ Still)
  PROVE  OrderInv' /\ AboveInv'
<1>1. ready => connected
  BY Wires DEF PopupInv
<1>2. CASE LineDown
  <2>1. toUi' = <<>> /\ ready' = FALSE /\ UNCHANGED <<told, heard>>
    BY <1>2 DEF LineDown, Down, daemon
  <2> QED
    BY <2>1, OrderlyNothing DEF OrderInv, AboveInv
<1>3. CASE Retry /\ Still
  <2>1. toUi' = <<>> /\ ready' = ready /\ ~ready /\ UNCHANGED <<told, heard>>
    BY <1>3 DEF Retry, Still, popup
  <2> QED
    BY <2>1, OrderlyNothing DEF OrderInv, AboveInv
<1>4. CASE Die /\ Still
  <2>1. cut' = connected /\ UNCHANGED <<toUi, told, heard, ready>>
    BY <1>4 DEF Die, Still, popup
  <2> QED
    BY <1>1, <2>1 DEF OrderInv, AboveInv
<1>5. CASE (Begin \/ Late \/ Unsaid) /\ Still
  <2>1. UNCHANGED <<toUi, toDaemon, told, heard, ready, cut, open, view, rows, groups, refreshDue, searchDue>>
    BY <1>5 DEF Begin, Late, Unsaid, daemon, wires, side, Still, popup
  <2> QED
    BY <2>1 DEF OrderInv, AboveInv
<1> QED
  BY <1>2, <1>3, <1>4, <1>5

\* An event about k is said, if anyone listens.
LEMMA EventOrderly ==
  ASSUME LinkInv, OrderInv, NEW k \in Kind, NEW u, u = toUi \o Event(k), NEW n \in Nat, told <= n,
         k = "groups" => n = data["groups"] + 1
  PROVE  /\ u \in Seq(Message) /\ Orderly(u, heard, n)
         /\ FollowDue(toUi, toDaemon) => FollowDue(u, toDaemon)
         /\ \A r, h : AboveKnown(toUi, toDaemon, r, h) => AboveKnown(u, toDaemon, r, h)
<1> DEFINE e == [rid |-> 0, op |-> k, at |-> Anywhere, gRows |-> -1, ver |-> data[k] + 1]
<1>1. toUi \in Seq(Message) /\ data \in [Kind -> Nat] /\ told \in Nat
  BY DEF LinkInv, LinkType, Kind
<1>2. heard \in Int /\ heard <= told /\ Orderly(toUi, heard, told)
  BY DEF OrderInv
<1>3. e \in Message /\ e.rid = 0 /\ e.op = k /\ e.ver = data[k] + 1
  BY <1>1, Questions DEF Message, Version
<1>4. Event(k) = IF sub THEN <<e>> ELSE <<>>
  BY DEF Event
<1> HIDE DEF e
<1>5. e \notin Replies({"groups", "follow"})
  BY <1>3 DEF Replies
<1>6. Orderly(toUi, heard, n)
  <2>1. \A i \in 1..Len(toUi) : toUi[i] \in Message
    BY <1>1, ElementOfSeq
  <2>2. \A i \in 1..Len(toUi) : toUi[i].ver \in Nat
    BY <2>1 DEF Message
  <2> QED
    BY <1>1, <1>2, <2>2 DEF Orderly
<1>7. CASE sub
  <2>1. u = toUi \o <<e>>
    BY <1>4, <1>7
  <2>2. /\ e \notin News("groups") /\ e \notin Replies({"groups", "follow"}) => Orderly(u, heard, n)
        /\ \A p \in Nat : e \in News("groups") /\ e.ver <= p /\ n <= p => Orderly(u, heard, p)
    <3>1. heard <= n
      BY <1>1, <1>2
    <3> QED
      BY <1>1, <1>2, <1>3, <1>6, <2>1, <3>1, OrderlyMore
  <2>3. e \in News("groups") => e.ver <= n /\ n <= n
    BY <1>1, <1>3 DEF News, Kind
  <2>4. Orderly(u, heard, n)
    BY <1>5, <2>2, <2>3
  <2>5. u \in Seq(Message)
    BY <1>1, <1>3, <2>1, SaidMore
  <2> QED
    BY <1>1, <1>3, <2>1, <2>4, <2>5, EventAbove
<1>8. CASE ~sub
  <2>1. u = toUi
    BY <1>1, <1>4, <1>8, NothingSaid
  <2> QED
    BY <1>1, <1>6, <2>1
<1> QED
  BY <1>7, <1>8

LEMMA ChangeAbove ==
  ASSUME PopupInv, PopupInv', OrderInv, AboveInv, NEW k \in Kind, Change(k), Still
  PROVE  OrderInv' /\ AboveInv'
<1>1. /\ UNCHANGED <<toDaemon, ready, cut, heard, open, view, rows, groups, refreshDue, searchDue>>
      /\ toUi' = IF connected /\ ~cut THEN toUi \o Event(k) ELSE toUi
      /\ told' = IF k = "groups" THEN data["groups"] + 1 ELSE told
  BY DEF Change, Say, side, Still, popup
<1>2. told \in 0..data["groups"] /\ data["groups"] \in Nat /\ LinkInv
  BY DEF PopupInv, LinkInv, LinkType, Kind
<1>3. told' \in Nat /\ told <= told' /\ (k = "groups" => told' = data["groups"] + 1)
  BY <1>1, <1>2
<1>4. heard \in Int /\ heard <= told /\ Orderly(toUi, heard, told)
  BY DEF OrderInv
<1>5. heard <= told'
  BY <1>2, <1>3, <1>4
<1>6. CASE connected /\ ~cut
  <2>1. \A u : u = toUi \o Event(k) =>
          /\ Orderly(u, heard, told')
          /\ FollowDue(toUi, toDaemon) => FollowDue(u, toDaemon)
          /\ \A r, h : AboveKnown(toUi, toDaemon, r, h) => AboveKnown(u, toDaemon, r, h)
    BY <1>2, <1>3, EventOrderly
  <2>2. /\ Orderly(toUi', heard, told')
        /\ FollowDue(toUi, toDaemon) => FollowDue(toUi', toDaemon)
        /\ \A r, h : AboveKnown(toUi, toDaemon, r, h) => AboveKnown(toUi', toDaemon, r, h)
    BY <1>1, <1>6, <2>1
  <2> QED
    BY <1>1, <1>4, <1>5, <2>2 DEF OrderInv, AboveInv
<1>7. CASE ~(connected /\ ~cut)
  <2>1. toUi' = toUi
    BY <1>1, <1>7
  <2>2. ~(ready /\ ~cut)
    BY <1>7, Wires DEF PopupInv
  <2>3. Orderly(toUi, heard, told')
    <3>1. \A i \in 1..Len(toUi) : toUi[i].ver \in Nat
      <4>1. toUi \in Seq(Message)
        BY Wires DEF PopupInv
      <4>2. \A i \in 1..Len(toUi) : toUi[i] \in Message
        BY <4>1, ElementOfSeq
      <4> QED
        BY <4>2 DEF Message
    <3> QED
      BY <1>2, <1>3, <1>4, <3>1 DEF Orderly
  <2> QED
    BY <1>1, <1>4, <1>5, <2>1, <2>2, <2>3 DEF OrderInv, AboveInv
<1> QED
  BY <1>6, <1>7

\* A request is answered: with groups that are not older than any event.
LEMMA ServeAbove ==
  ASSUME PopupInv, PopupInv', OrderInv, AboveInv, Serve, Still
  PROVE  OrderInv' /\ AboveInv'
<1> DEFINE q == Head(toDaemon)
           a == [rid |-> q.rid, op |-> q.cb, at |-> q.at, gRows |-> q.gRows, ver |-> Answered(q.cb)]
           w == Event("clips")
<1>1. /\ UNCHANGED <<told, ready, cut, heard, open, view, rows, groups, refreshDue, searchDue>>
      /\ toDaemon # <<>> /\ toDaemon' = Tail(toDaemon)
      /\ \/ toUi' = toUi \o (w \o <<a>>)
         \/ toUi' = toUi \o <<a>>
  BY DEF Serve, Say, side, Still, popup
<1>2. /\ toUi \in Seq(Message) /\ toDaemon \in Seq(Request) /\ data \in [Kind -> Nat] /\ told \in 0..data["groups"]
      /\ q \in Request /\ q.rid # 0 /\ LinkInv
  BY <1>1, Wires DEF PopupInv, LinkInv, LinkType
<1>3. told \in Nat /\ data["groups"] \in Nat
  BY <1>2 DEF Kind
<1>4. /\ a \in Message /\ a.rid = q.rid /\ a.op = q.cb /\ a.gRows = q.gRows
      /\ q.cb \in {"groups", "follow"} => a.ver = data["groups"]
  <2>1. Answered(q.cb) \in Nat
    BY <1>2 DEF Answered, Kind
  <2> QED
    BY <1>2, <2>1 DEF Request, Message, Answered
<1>5. q = Head(toDaemon)
  OBVIOUS
<1> HIDE DEF a, q, w
<1>6. heard \in Int /\ heard <= told /\ Orderly(toUi, heard, told)
  BY DEF OrderInv
<1>7. a \notin News("groups")
  BY <1>2, <1>4 DEF News
<1>8. a \in Replies({"groups", "follow"}) => a.ver >= told
  <2>1. a \in Replies({"groups", "follow"}) => a.ver = data["groups"]
    BY <1>4 DEF Replies
  <2> QED
    BY <1>2, <1>3, <2>1
<1>9. ASSUME NEW ui \in Seq(Message), Orderly(ui, heard, told), toUi' = ui \o <<a>>,
             FollowDue(toUi, toDaemon) => FollowDue(ui, toDaemon),
             \A r, h : AboveKnown(toUi, toDaemon, r, h) => AboveKnown(ui, toDaemon, r, h)
      PROVE  OrderInv' /\ AboveInv'
  <2>1. \A u : u = ui \o <<a>> => Orderly(u, heard, told)
    BY <1>3, <1>4, <1>6, <1>7, <1>8, <1>9, OrderlyMore
  <2>2. \A u, d : u = ui \o <<a>> /\ d = Tail(toDaemon) =>
          /\ FollowDue(ui, toDaemon) => FollowDue(u, d)
          /\ \A r, h : AboveKnown(ui, toDaemon, r, h) => AboveKnown(u, d, r, h)
    BY <1>1, <1>2, <1>4, <1>5, AnswerAbove
  <2>3. /\ Orderly(toUi', heard, told)
        /\ FollowDue(toUi, toDaemon) => FollowDue(toUi', toDaemon')
        /\ \A r, h : AboveKnown(toUi, toDaemon, r, h) => AboveKnown(toUi', toDaemon', r, h)
    BY <1>1, <1>9, <2>1, <2>2
  <2> QED
    BY <1>1, <1>6, <2>3 DEF OrderInv, AboveInv
<1>10. CASE toUi' = toUi \o <<a>>
  BY <1>2, <1>6, <1>9, <1>10
<1>11. CASE toUi' = toUi \o (w \o <<a>>)
  <2> DEFINE u == toUi \o w
             z == <<a>>
  <2>1. "clips" \in Kind
    BY DEF Kind
  <2>2. \A v : v = toUi \o w =>
          /\ v \in Seq(Message) /\ Orderly(v, heard, told)
          /\ FollowDue(toUi, toDaemon) => FollowDue(v, toDaemon)
          /\ \A r, h : AboveKnown(toUi, toDaemon, r, h) => AboveKnown(v, toDaemon, r, h)
    <3>1. told <= told
      BY <1>3
    <3> QED
      BY <1>2, <1>3, <2>1, <3>1, EventOrderly DEF w
  <2>3. \A x \in Message : <<x>> \in Seq(Message)
    OBVIOUS
  <2>4. w \in Seq(Message) /\ z \in Seq(Message)
    <3>1. [rid |-> 0, op |-> "clips", at |-> Anywhere, gRows |-> -1, ver |-> data["clips"] + 1] \in Message
      BY <1>2, Questions DEF Message, Kind, Version
    <3> QED
      BY <1>4, <2>3, <3>1, EmptySeq DEF w, Event
  <2>5. toUi' = toUi \o (w \o z)
    BY <1>11
  <2> HIDE DEF z
  <2>6. toUi' = u \o z
    BY <1>2, <2>4, <2>5, InParts
  <2>7. toUi' = u \o <<a>>
    BY <2>6 DEF z
  <2>8. /\ u \in Seq(Message) /\ Orderly(u, heard, told)
        /\ FollowDue(toUi, toDaemon) => FollowDue(u, toDaemon)
        /\ \A r, h : AboveKnown(toUi, toDaemon, r, h) => AboveKnown(u, toDaemon, r, h)
    BY <2>2
  <2> HIDE DEF u
  <2> QED
    BY <1>9, <2>7, <2>8
<1> QED
  BY <1>1, <1>10, <1>11

\* The list of a view has the groups known above the clips.
LEMMA ListedAbove == \A v, h : ~Root(v) /\ v.place # "history" /\ groups >= h => ListsAbove(Lists(v), h)
<1> TAKE v, h
<1> DEFINE x == [cb |-> "list", at |-> v, gRows |-> Above(v)]
<1>1. x.cb = "list" /\ x.gRows = Above(v)
  OBVIOUS
<1>2. ~Root(v) => Lists(v) = <<x>>
  BY DEF Lists
<1>3. v.place # "history" => Above(v) = groups
  BY DEF Above
<1> HIDE DEF x
<1>4. groups >= h /\ v.place # "history" => ListsAbove(<<x>>, h)
  BY <1>1, <1>3 DEF ListsAbove
<1> QED
  BY <1>2, <1>4

\* Calls of the popup.
LEMMA CallingAbove ==
  ASSUME PopupInv, NEW cs \in Seq(Asked), Calling(cs), Local
  PROVE  /\ UNCHANGED <<toUi, told, ready, cut, connected>>
         /\ FollowDue(toUi, toDaemon) => FollowDue(toUi', toDaemon')
         /\ \A r, h : NoList(cs) /\ AboveKnown(toUi, toDaemon, r, h) => AboveKnown(toUi', toDaemon', r, h)
         /\ \A r, h : ready /\ ListsAbove(cs, h) => AboveKnown(toUi', toDaemon', r, h)
<1>1. UNCHANGED <<toUi, told, ready, cut, connected>>
  BY DEF Local, daemon, side
<1>2. toDaemon \in Seq(Request) /\ Numbered(pending) /\ (ready => connected)
  BY Wires DEF PopupInv
<1>3. CASE connected
  <2>1. toDaemon' = toDaemon \o Written(pending, cs)
    BY <1>3 DEF Calling, Calls, Written
  <2>2. \A d : d = toDaemon \o Written(pending, cs) =>
          \A ui : /\ FollowDue(ui, toDaemon) => FollowDue(ui, d)
                  /\ \A r, h : NoList(cs) /\ AboveKnown(ui, toDaemon, r, h) => AboveKnown(ui, d, r, h)
                  /\ \A r, h : ListsAbove(cs, h) => AboveKnown(ui, d, r, h)
    BY <1>2, AskedAbove
  <2>3. \A ui : /\ FollowDue(ui, toDaemon) => FollowDue(ui, toDaemon')
                /\ \A r, h : NoList(cs) /\ AboveKnown(ui, toDaemon, r, h) => AboveKnown(ui, toDaemon', r, h)
                /\ \A r, h : ListsAbove(cs, h) => AboveKnown(ui, toDaemon', r, h)
    BY <2>1, <2>2
  <2> QED
    BY <1>1, <2>3
<1>4. CASE ~connected
  <2>1. toDaemon' = toDaemon
    BY <1>4 DEF Calling
  <2> QED
    BY <1>1, <1>2, <1>4, <2>1
<1> QED
  BY <1>3, <1>4

\* A view is gone to, or its rows asked for again: with the groups known above them,
\* unless newer ones are to come.
LEMMA AgainAbove ==
  ASSUME PopupInv, OrderInv, AboveInv, NEW v \in View, Calling(Lists(v)), Local, Refreshed(v, connected, offline),
         view' = v, UNCHANGED <<open, groups, heard>>
  PROVE  OrderInv' /\ AboveInv'
<1>1. Lists(v) \in Seq(Asked)
  BY Questions DEF PopupInv, Shape
<1>2. /\ UNCHANGED <<toUi, told, ready, cut>>
      /\ FollowDue(toUi, toDaemon) => FollowDue(toUi', toDaemon')
      /\ \A r, h : ready /\ ListsAbove(Lists(v), h) => AboveKnown(toUi', toDaemon', r, h)
  BY <1>1, CallingAbove
<1>3. OrderInv'
  BY <1>2 DEF OrderInv
<1>4. ASSUME ready, ~cut, ~Root(v), v.place # "history" PROVE AboveKnown(toUi', toDaemon', rows', heard)
  <2>1. CASE FollowDue(toUi, toDaemon)
    BY <1>2, <2>1 DEF AboveKnown
  <2>2. CASE groups >= heard
    BY <1>2, <1>4, <2>2, ListedAbove
  <2> QED
    BY <1>4, <2>1, <2>2 DEF AboveInv
<1>5. ready /\ ~cut => FollowDue(toUi', toDaemon') \/ groups' >= heard'
  BY <1>2 DEF AboveInv
<1> QED
  BY <1>2, <1>3, <1>4, <1>5 DEF AboveInv

\* What the user does, and the timers.
LEMMA UserAbove ==
  ASSUME PopupInv, LineInv, OrderInv, AboveInv, NEW place \in Place,
         Show \/ Hide \/ Type \/ Delete \/ Go(place) \/ EventRefresh \/ SearchDebounce
  PROVE  OrderInv' /\ AboveInv'
<1>1. ready => connected /\ ~offline
  BY Wires DEF PopupInv, LineInv
<1>2. ASSUME NEW cb \in Callback, cb # "list", Calling(<<Ask(cb)>>), Local,
             ready => UNCHANGED <<open, view, rows>>, UNCHANGED <<groups, heard, refreshDue>>, ready => UNCHANGED searchDue
      PROVE  OrderInv' /\ AboveInv'
  <2>1. <<Ask(cb)>> \in Seq(Asked) /\ NoList(<<Ask(cb)>>)
    BY <1>2, Questions, WhatIsAsked
  <2>2. /\ UNCHANGED <<toUi, told, ready, cut>>
        /\ FollowDue(toUi, toDaemon) => FollowDue(toUi', toDaemon')
        /\ \A r, h : AboveKnown(toUi, toDaemon, r, h) => AboveKnown(toUi', toDaemon', r, h)
    BY <1>2, <2>1, CallingAbove
  <2> QED
    BY <1>2, <2>2 DEF OrderInv, AboveInv
<1>3. CASE Show
  <2>1. Calling(<<Ask("context")>>) /\ Local /\ UNCHANGED <<groups, heard, refreshDue>>
    BY <1>3 DEF Show
  <2>2. ready => UNCHANGED <<open, view, searchDue, rows>>
    BY <1>1, <1>3 DEF Show
  <2> QED
    BY <1>2, <2>1, <2>2 DEF Callback
<1>4. CASE Delete
  <2>1. Calling(<<Ask("delete")>>) /\ Local /\ UNCHANGED <<open, view, groups, heard, refreshDue, searchDue>>
    BY <1>4 DEF Delete
  <2>2. ready => UNCHANGED rows
    BY <1>1, <1>4 DEF Delete, Shown
  <2> QED
    BY <1>2, <2>1, <2>2 DEF Callback
<1>5. CASE Hide \/ Type
  <2>1. /\ UNCHANGED <<toUi, toDaemon, told, ready, cut, heard, rows, groups, refreshDue>>
        /\ open' = FALSE \/ searchDue' = TRUE
    BY <1>5 DEF Hide, Type, daemon, wires, side
  <2> QED
    BY <2>1 DEF OrderInv, AboveInv
<1>6. CASE Go(place)
  <2> DEFINE v == [place |-> place, query |-> FALSE]
  <2>1. v \in View
    BY DEF View
  <2>2. /\ view' = v /\ Calling(Lists(v)) /\ Refreshed(v, connected, offline) /\ Local /\ UNCHANGED <<open, groups, heard>>
    BY <1>6 DEF Go
  <2> HIDE DEF v
  <2> QED
    BY <2>1, <2>2, AgainAbove
<1>7. CASE EventRefresh \/ SearchDebounce
  <2>1. /\ Calling(Lists(view)) /\ Refreshed(view, connected, offline) /\ Local /\ view' = view
        /\ UNCHANGED <<open, groups, heard>> /\ view \in View
    BY <1>7 DEF EventRefresh, SearchDebounce, Again, PopupInv, Shape
  <2> QED
    BY <2>1, AgainAbove
<1> QED
  BY <1>3, <1>4, <1>5, <1>6, <1>7

\* A message is read.
LEMMA ReadingAbove ==
  ASSUME PopupInv, LineInv, OrderInv, NEW m, NEW cs \in Seq(Asked), Reading(m, cs)
  PROVE  /\ m \in Message /\ (m.rid = 0 => m.op \in Kind) /\ UNCHANGED <<told, cut>>
         /\ Orderly(toUi', heard, told) /\ Orderly(toUi', -1, told)
         /\ m \in News("groups") => m.ver <= told /\ Orderly(toUi', m.ver, told)
         /\ m \in Replies({"groups", "follow"}) => m.ver >= heard
         /\ CallsOne(cs, {"follow"}) => FollowDue(toUi', toDaemon')
         /\ m \notin Replies({"follow"}) /\ FollowDue(toUi, toDaemon) => FollowDue(toUi', toDaemon')
         /\ \A r, h : m \notin Replies({"follow"}) /\ NoList(cs) /\ AboveKnown(toUi, toDaemon, r, h) =>
              IF m \in Replies({"list"})
                THEN AboveKnown(toUi', toDaemon', [at |-> m.at, ver |-> m.ver, gRows |-> m.gRows], h)
                ELSE AboveKnown(toUi', toDaemon', r, h)
         /\ \A r, h : ListsAbove(cs, h) => AboveKnown(toUi', toDaemon', r, h)
<1>1. /\ UNCHANGED <<told, cut>>
      /\ toUi # <<>> /\ m = Head(toUi) /\ toUi' = Tail(toUi)
      /\ toDaemon' = toDaemon \o Written(Taken(m), cs)
  BY DEF Reading, Calls, Written, daemon
<1>2. toUi \in Seq(Message) /\ toDaemon \in Seq(Request) /\ Numbered(pending)
  BY Wires DEF PopupInv
<1>3. Numbered(Taken(m))
  BY <1>2 DEF Numbered, Taken
<1>4. Orderly(toUi, heard, told) /\ None(toUi, Odd)
  BY DEF OrderInv, LineInv
<1>5. \A u : u = Tail(toUi) =>
        /\ Orderly(u, heard, told) /\ Orderly(u, -1, told)
        /\ m \in News("groups") => m.ver <= told /\ Orderly(u, m.ver, told)
        /\ m \in Replies({"groups", "follow"}) => m.ver >= heard
  BY <1>1, <1>2, <1>4, OrderlyRest
<1>6. \A u : u = Tail(toUi) =>
        \A dm : m \notin Replies({"follow"}) =>
           /\ FollowDue(toUi, dm) => FollowDue(u, dm)
           /\ \A r, h : AboveKnown(toUi, dm, r, h) =>
                IF m \in Replies({"list"}) THEN AboveKnown(u, dm, [at |-> m.at, ver |-> m.ver, gRows |-> m.gRows], h)
                                           ELSE AboveKnown(u, dm, r, h)
  BY <1>1, <1>2, ReadAbove
<1>7. \A d : d = toDaemon \o Written(Taken(m), cs) =>
        \A ui : /\ FollowDue(ui, toDaemon) \/ CallsOne(cs, {"follow"}) => FollowDue(ui, d)
                /\ \A r, h : NoList(cs) /\ AboveKnown(ui, toDaemon, r, h) => AboveKnown(ui, d, r, h)
                /\ \A r, h : ListsAbove(cs, h) => AboveKnown(ui, d, r, h)
  BY <1>2, <1>3, AskedAbove
<1>8. /\ Orderly(toUi', heard, told) /\ Orderly(toUi', -1, told)
      /\ m \in News("groups") => m.ver <= told /\ Orderly(toUi', m.ver, told)
      /\ m \in Replies({"groups", "follow"}) => m.ver >= heard
  BY <1>1, <1>5
<1>9. m \notin Replies({"follow"}) =>
        /\ FollowDue(toUi, toDaemon) => FollowDue(toUi', toDaemon)
        /\ \A r, h : AboveKnown(toUi, toDaemon, r, h) =>
             IF m \in Replies({"list"}) THEN AboveKnown(toUi', toDaemon, [at |-> m.at, ver |-> m.ver, gRows |-> m.gRows], h)
                                        ELSE AboveKnown(toUi', toDaemon, r, h)
  BY <1>1, <1>6
<1>10. \A ui : /\ FollowDue(ui, toDaemon) \/ CallsOne(cs, {"follow"}) => FollowDue(ui, toDaemon')
               /\ \A r, h : NoList(cs) /\ AboveKnown(ui, toDaemon, r, h) => AboveKnown(ui, toDaemon', r, h)
               /\ \A r, h : ListsAbove(cs, h) => AboveKnown(ui, toDaemon', r, h)
  BY <1>1, <1>7
<1>11. m \in Message
  BY <1>1, <1>2, HeadTailProperties
<1>12. m.rid = 0 => m.op \in Kind
  <2>1. m \notin Odd
    BY <1>1, <1>2, <1>4, Rest
  <2> QED
    BY <1>11, <2>1 DEF Odd
<1> QED
  BY <1>1, <1>8, <1>9, <1>10, <1>11, <1>12

LEMMA ReadStepAbove == ASSUME PopupInv, LineInv, OrderInv, AboveInv, Read PROVE OrderInv' /\ AboveInv'
<1> DEFINE m == Head(toUi)
<1>1. ConnectedAgain(m) \/ Hear(m) \/ Listed(m) \/ Fetched(m) \/ Copied(m) \/ Placed(m) \/ Deleted(m)
  BY DEF Read
<1> HIDE DEF m
<1> DEFINE Brought(cs) ==
      /\ m \in Message /\ (m.rid = 0 => m.op \in Kind) /\ UNCHANGED <<told, cut>>
      /\ Orderly(toUi', heard, told) /\ Orderly(toUi', -1, told)
      /\ m \in News("groups") => m.ver <= told /\ Orderly(toUi', m.ver, told)
      /\ m \in Replies({"groups", "follow"}) => m.ver >= heard
      /\ CallsOne(cs, {"follow"}) => FollowDue(toUi', toDaemon')
      /\ m \notin Replies({"follow"}) /\ FollowDue(toUi, toDaemon) => FollowDue(toUi', toDaemon')
      /\ \A r, h : m \notin Replies({"follow"}) /\ NoList(cs) /\ AboveKnown(toUi, toDaemon, r, h) =>
           IF m \in Replies({"list"})
             THEN AboveKnown(toUi', toDaemon', [at |-> m.at, ver |-> m.ver, gRows |-> m.gRows], h)
             ELSE AboveKnown(toUi', toDaemon', r, h)
      /\ \A r, h : ListsAbove(cs, h) => AboveKnown(toUi', toDaemon', r, h)
<1>2. \A cs \in Seq(Asked) : Reading(m, cs) => Brought(cs)
  BY ReadingAbove
<1>3. <<>> \in Seq(Asked) /\ NoList(<<>>) /\ view \in View /\ groups \in Version /\ told \in Nat
  BY Questions, WhatIsAsked DEF PopupInv, Shape, LinkInv, LinkType
<1>4. heard \in Int /\ heard <= told
  BY DEF OrderInv
<1>5. ASSUME NEW cs \in Seq(Asked), Brought(cs), heard' = heard PROVE OrderInv'
  BY <1>4, <1>5 DEF OrderInv
<1>6. ASSUME ready, ~cut PROVE FollowDue(toUi, toDaemon) \/ groups >= heard
  BY <1>6 DEF AboveInv
<1>7. ASSUME ready, ~cut, open, ~Root(view), view.place # "history", ~refreshDue, ~searchDue
      PROVE  AboveKnown(toUi, toDaemon, rows, heard)
  BY <1>7 DEF AboveInv
<1>8. CASE ConnectedAgain(m)
  <2> DEFINE cs == <<Ask("settings"), Ask("groups")>>
  <2>1. cs \in Seq(Asked)
    <3>1. Ask("settings") \in Asked /\ Ask("groups") \in Asked
      BY Questions DEF Ask, Asked, Callback, Version
    <3> QED
      BY <3>1
  <2>2. Reading(m, cs) /\ refreshDue' = TRUE /\ heard' = -1 /\ UNCHANGED groups
    BY <1>8 DEF ConnectedAgain
  <2> HIDE DEF cs
  <2>3. Orderly(toUi', -1, told) /\ told' = told
    BY <1>2, <2>1, <2>2
  <2>4. groups' >= heard' /\ heard' <= told'
    BY <1>3, <2>2, <2>3 DEF Version
  <2> QED
    BY <2>2, <2>3, <2>4 DEF OrderInv, AboveInv
<1>9. CASE Hear(m)
  <2> DEFINE cs == IF m.op = "groups" THEN <<Ask("follow")>> ELSE <<>>
  <2>1. /\ m.rid = 0 /\ Reading(m, cs) /\ UNCHANGED <<ready, open, rows, view, searchDue, groups>>
        /\ refreshDue' = (refreshDue \/ m.op = "clips")
        /\ heard' = IF m.op = "groups" THEN m.ver ELSE heard
    BY <1>9 DEF Hear, Shown
  <2>2. /\ cs \in Seq(Asked) /\ NoList(cs)
        /\ m.op = "groups" => CallsOne(cs, {"follow"})
    <3>1. <<Ask("follow")>> \in Seq(Asked)
      BY Questions DEF Callback
    <3>2. NoList(<<Ask("follow")>>) /\ CallsOne(<<Ask("follow")>>, {"follow"})
      BY WhatIsAsked, Zenon
    <3> QED
      BY <1>3, <3>1, <3>2
  <2> HIDE DEF cs
  <2>3. Brought(cs)
    BY <1>2, <2>1, <2>2
  <2>4. \A C : m \notin Replies(C)
    BY <2>1 DEF Replies
  <2>5. CASE m.op = "groups"
    <3>1. m \in News("groups") /\ m.ver \in Int
      BY <2>1, <2>3, <2>5 DEF News, Message
    <3>2. FollowDue(toUi', toDaemon')
      BY <2>2, <2>3, <2>5
    <3> QED
      BY <2>1, <2>3, <2>5, <3>1, <3>2 DEF OrderInv, AboveInv, AboveKnown
  <2>6. CASE m.op # "groups"
    <3>1. OrderInv'
      BY <1>5, <2>1, <2>2, <2>3, <2>6
    <3>2. ready /\ ~cut => FollowDue(toUi', toDaemon') \/ groups' >= heard'
      BY <1>6, <2>1, <2>3, <2>4, <2>6
    <3>3. ASSUME ready, ~cut, open, ~Root(view), view.place # "history", ~refreshDue, ~searchDue
          PROVE  AboveKnown(toUi', toDaemon', rows', heard')
      BY <1>7, <2>1, <2>2, <2>3, <2>4, <2>6, <3>3
    <3> QED
      BY <2>1, <2>3, <3>1, <3>2, <3>3 DEF AboveInv
  <2> QED
    BY <2>5, <2>6
<1>10. CASE Listed(m)
  <2>1. /\ m.op = "list" /\ Reading(m, <<>>) /\ rows' = [at |-> m.at, ver |-> m.ver, gRows |-> m.gRows]
        /\ UNCHANGED <<ready, open, view, searchDue, groups, heard, refreshDue>>
    BY <1>10 DEF Listed
  <2>2. Brought(<<>>)
    BY <1>2, <1>3, <2>1
  <2>3. m \in Replies({"list"}) /\ m \notin Replies({"follow"})
    BY <2>1, <2>2 DEF Replies, Kind
  <2>4. OrderInv'
    BY <1>3, <1>5, <2>1, <2>2
  <2>5. ready /\ ~cut => FollowDue(toUi', toDaemon') \/ groups' >= heard'
    BY <1>6, <2>1, <2>2, <2>3
  <2>6. ASSUME ready, ~cut, open, ~Root(view), view.place # "history", ~refreshDue, ~searchDue
        PROVE  AboveKnown(toUi', toDaemon', rows', heard')
    BY <1>3, <1>7, <2>1, <2>2, <2>3, <2>6
  <2> QED
    BY <2>1, <2>2, <2>4, <2>5, <2>6 DEF AboveInv
<1>11. CASE Fetched(m)
  <2>1. /\ m.rid # 0 /\ m.op \in {"groups", "follow"} /\ Reading(m, <<>>) /\ groups' = m.ver
        /\ refreshDue' = (refreshDue \/ (m.op = "follow" /\ open))
        /\ UNCHANGED <<rows, open, ready, view, searchDue, heard>>
    BY <1>11 DEF Fetched, Shown
  <2>2. Brought(<<>>)
    BY <1>2, <1>3, <2>1
  <2>3. m \in Replies({"groups", "follow"}) /\ m \notin Replies({"list"}) /\ (m.op # "follow" => m \notin Replies({"follow"}))
    BY <2>1, <2>2 DEF Replies
  <2>4. OrderInv'
    BY <1>3, <1>5, <2>1, <2>2
  <2>5. groups' >= heard'
    BY <2>1, <2>2, <2>3
  <2>6. ASSUME ready, ~cut, open, ~Root(view), view.place # "history", ~refreshDue', ~searchDue
        PROVE  AboveKnown(toUi', toDaemon', rows', heard')
    BY <1>3, <1>7, <2>1, <2>2, <2>3, <2>6
  <2> QED
    BY <2>1, <2>2, <2>4, <2>5, <2>6 DEF AboveInv
<1>12. CASE Copied(m)
  <2>1. /\ m.op = "settings" /\ Reading(m, <<>>)
        /\ UNCHANGED <<rows, open, ready, view, searchDue, groups, heard, refreshDue>>
    BY <1>12 DEF Copied, Shown
  <2>2. Brought(<<>>)
    BY <1>2, <1>3, <2>1
  <2>3. m \notin Replies({"list"}) /\ m \notin Replies({"follow"})
    BY <2>1 DEF Replies
  <2>4. OrderInv'
    BY <1>3, <1>5, <2>1, <2>2
  <2>5. ready /\ ~cut => FollowDue(toUi', toDaemon') \/ groups' >= heard'
    BY <1>6, <2>1, <2>2, <2>3
  <2>6. ASSUME ready, ~cut, open, ~Root(view), view.place # "history", ~refreshDue, ~searchDue
        PROVE  AboveKnown(toUi', toDaemon', rows', heard')
    BY <1>3, <1>7, <2>1, <2>2, <2>3, <2>6
  <2> QED
    BY <2>1, <2>2, <2>4, <2>5, <2>6 DEF AboveInv
<1>13. CASE Placed(m)
  <2> DEFINE cs == Lists(Anywhere) \o <<Ask("groups")>>
  <2>1. m.op = "context" /\ Reading(m, cs) /\ view' = Anywhere /\ UNCHANGED <<ready, groups, heard, refreshDue>>
    BY <1>13 DEF Placed, Opened
  <2>2. cs \in Seq(Asked)
    <3>1. Lists(Anywhere) \in Seq(Asked) /\ <<Ask("groups")>> \in Seq(Asked)
      BY Questions DEF Callback, PopupInv, Shape
    <3> QED
      BY <3>1, Joined, Zenon
  <2> HIDE DEF cs
  <2>3. Brought(cs)
    BY <1>2, <2>1, <2>2
  <2>4. m \notin Replies({"follow"})
    BY <2>1 DEF Replies
  <2>5. OrderInv'
    BY <1>5, <2>1, <2>2, <2>3
  <2>6. ready /\ ~cut => FollowDue(toUi', toDaemon') \/ groups' >= heard'
    BY <1>6, <2>1, <2>3, <2>4
  <2>7. view'.place = "history"
    BY <2>1 DEF Anywhere
  <2> QED
    BY <2>1, <2>3, <2>5, <2>6, <2>7 DEF AboveInv
<1>14. CASE Deleted(m)
  <2> DEFINE cs == Lists(view)
  <2>1. /\ m.op = "delete" /\ Reading(m, cs) /\ UNCHANGED <<ready, open, view, searchDue, groups, heard, refreshDue>>
    BY <1>14 DEF Deleted
  <2>2. /\ cs \in Seq(Asked)
        /\ ~Root(view) /\ view.place # "history" /\ groups >= heard => ListsAbove(cs, heard)
    BY <1>3, Questions, ListedAbove
  <2> HIDE DEF cs
  <2>3. Brought(cs)
    BY <1>2, <2>1, <2>2
  <2>4. m \notin Replies({"follow"})
    BY <2>1 DEF Replies
  <2>5. OrderInv'
    BY <1>5, <2>1, <2>2, <2>3
  <2>6. ready /\ ~cut => FollowDue(toUi', toDaemon') \/ groups' >= heard'
    BY <1>6, <2>1, <2>3, <2>4
  <2>7. ASSUME ready, ~cut, ~Root(view), view.place # "history" PROVE AboveKnown(toUi', toDaemon', rows', heard)
    <3>1. CASE FollowDue(toUi, toDaemon)
      BY <2>3, <2>4, <3>1 DEF AboveKnown
    <3>2. CASE groups >= heard
      BY <2>2, <2>3, <2>7, <3>2
    <3> QED
      BY <1>6, <2>7, <3>1, <3>2
  <2> QED
    BY <2>1, <2>3, <2>5, <2>6, <2>7 DEF AboveInv
<1> QED
  BY <1>1, <1>8, <1>9, <1>10, <1>11, <1>12, <1>13, <1>14

LEMMA StepAbove ==
  PopupInv /\ PopupInv' /\ LineInv /\ OrderInv /\ AboveInv /\ [Next]_vars => OrderInv' /\ AboveInv'
<1> SUFFICES ASSUME PopupInv, PopupInv', LineInv, OrderInv, AboveInv, [Next]_vars PROVE OrderInv' /\ AboveInv'
  OBVIOUS
<1>1. CASE Show \/ Hide \/ Type \/ Delete \/ (\E place \in Place : Go(place)) \/ EventRefresh \/ SearchDebounce
  <2>1. "history" \in Place
    BY UiLinkAssumption
  <2>2. \A place \in Place :
          Show \/ Hide \/ Type \/ Delete \/ Go(place) \/ EventRefresh \/ SearchDebounce => OrderInv' /\ AboveInv'
    BY UserAbove
  <2> QED
    BY <1>1, <2>1, <2>2
<1>2. CASE Read
  BY <1>2, ReadStepAbove
<1>3. CASE LineDown \/ ((Retry \/ Die \/ Begin \/ Late \/ Unsaid) /\ Still)
  BY <1>3, LineAbove
<1>4. CASE (\E k \in Kind : Change(k)) /\ Still
  BY <1>4, ChangeAbove
<1>5. CASE Serve /\ Still
  BY <1>5, ServeAbove
<1>6. CASE UNCHANGED vars
  BY <1>6 DEF vars, link, popup, daemon, wires, side, OrderInv, AboveInv
<1> QED
  BY <1>1, <1>2, <1>3, <1>4, <1>5, <1>6 DEF Next, Ui

-----------------------------------------------------------------------------
\* No change that was said, late answer or other view is forgotten: with nothing on its
\* way and no timer running, the rows are those of the view and of the clips as they
\* are, with groups above them not older than the last groups.changed heard
\* (onConnectedAgain, onEvent, refresh and its callback).
THEOREM NothingForgotten == Spec => []QuietIsCurrent
<1>1. ASSUME PopupInv, LineInv, KnownInv, AboveInv PROVE QuietIsCurrent
  <2> SUFFICES ASSUME ready, ~cut, toUi = <<>>, toDaemon = <<>>, ~refreshDue, ~searchDue PROVE Current
    BY DEF QuietIsCurrent
  <2>1. \A A, W : /\ None(toUi, A) /\ None(toDaemon, A)
                  /\ ~LastIn(toUi, A, W) /\ ~LastIn(toDaemon, A, W)
    BY OneOnly
  <2>2. copy = data["settings"]
    <3>1. Tells(toUi, copy, data["settings"])
      BY <1>1, <2>1 DEF KnownInv, CopyKnown
    <3>2. Len(toUi) = 0
      BY EmptySeq
    <3> QED
      BY <3>1, <3>2 DEF Tells
  <2>3. groups >= told
    BY <1>1, <2>1 DEF KnownInv, GroupsKnown
  <2>4. ~Root(view) => rows.at = view /\ rows.ver = data["clips"]
    BY <1>1, <2>1 DEF KnownInv, RowsKnown
  <2>5. ~offline
    BY <1>1 DEF LineInv
  <2>6. open /\ ~Root(view) /\ view.place # "history" => rows.gRows >= heard
    BY <1>1, <2>1 DEF AboveInv, AboveKnown, FollowDue
  <2> QED
    BY <2>2, <2>3, <2>4, <2>5, <2>6 DEF Current
<1>2. PopupInv /\ [Next]_vars => PopupInv'
  BY StepKeeps
<1> QED
  BY <1>1, <1>2, Starts, StartsQuiet, StartsAbove, StepQuiet, StepAbove, PTL DEF Spec
=============================================================================
